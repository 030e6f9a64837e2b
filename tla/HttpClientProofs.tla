------------------------- MODULE HttpClientProofs -------------------------
(***************************************************************************)
(* Proofs about HttpClient, for every finite set of callers, every set of  *)
(* urls and every number of retries: nobody awaits a settled promise, GETs *)
(* of one url share one request, no GET returns old data, attempts are     *)
(* spent on transient failures, and an aborted request is never retried.   *)
(***************************************************************************)
EXTENDS HttpClient, OperatorProofs

\* What a running request looks like.
WellFormed(q) ==
  q = [phase |-> q.phase, method |-> q.method, url |-> q.url, etag |-> q.etag,
       attempt |-> q.attempt, pause |-> q.pause, reply |-> q.reply,
       lastError |-> q.lastError, since |-> q.since]

\* The bookkeeping of the client is made of functions of callers and of urls.
Shape ==
  /\ DOMAIN request = Callers
  /\ awaits \in [Callers -> Callers \cup {None}]
  /\ inflight \in [Urls -> Callers \cup {None}]
  /\ aborted \in [Callers -> BOOLEAN]
  /\ destroys \in Nat
  /\ \A r \in Callers : Active(r) => WellFormed(request[r]) /\ request[r].url \in Urls

\* The owner of a running request is one of those that await it.
OwnersAwait == \A r \in Callers : Active(r) => awaits[r] = r

\* A GET that is running is the one in flight under its url.
RunningIsInFlight ==
  destroys = 0 =>
    \A r \in Callers :
      Active(r) /\ request[r].method = "GET" => inflight[request[r].url] = r

\* A request that sleeps before a retry is not aborted.
SleepersAreNotAborted == \A r \in Callers : Phase(r, "backoff") => ~ aborted[r]

\* What the steps preserve together.
Invariant ==
  /\ Shape
  /\ OwnersAwait
  /\ PromisesAreRunning
  /\ RunningIsInFlight
  /\ SleepersAreNotAborted

----------------------------------------------------------------------------
(* The invariant of the bookkeeping *)

\* No request runs, nobody waits and nothing is in flight.
LEMMA InvariantInit ==
  ASSUME Init
  PROVE  Invariant
<1>1. \A r \in Callers : ~ Active(r) /\ request[r].phase = "none" /\ ~ Pending(r)
  BY DEF Init, Active, NoRequest, Pending
<1>2. Shape
  BY <1>1 DEF Init, Shape
<1>3. OwnersAwait /\ RunningIsInFlight /\ SleepersAreNotAborted
  BY <1>1 DEF OwnersAwait, RunningIsInFlight, SleepersAreNotAborted, Phase
<1>4. PromisesAreRunning
  BY <1>1 DEF Init, PromisesAreRunning
<1> QED BY <1>2, <1>3, <1>4 DEF Invariant

----------------------------------------------------------------------------
(* The two things that happen to a running request *)

\* The request of r goes on to another phase of the same call.
GoesOn(r) ==
  /\ DOMAIN request' = Callers
  /\ \A s \in Callers \ {r} : request'[s] = request[s]
  /\ WellFormed(request'[r])
  /\ request'[r].phase # "none"
  /\ request'[r].method = request[r].method
  /\ request'[r].url = request[r].url
  /\ request'[r].phase = "backoff" => ~ aborted[r]

\* A request in any phase but the initial one is running.
LEMMA ActiveByPhase ==
  ASSUME NEW r \in Callers, request[r].phase # "none"
  PROVE  Active(r)
BY DEF Active, NoRequest

\* Going on changes neither who waits nor what is in flight.
LEMMA GoesOnKeepsInvariant ==
  ASSUME Invariant, NEW r \in Callers, Active(r), GoesOn(r),
         UNCHANGED <<inflight, awaits, aborted, destroys>>
  PROVE  Invariant'
<1>1. \A s \in Callers : Active(s)' <=> Active(s)
  BY DEF GoesOn, Active, NoRequest
<1>2. \A s \in Callers : Active(s) =>
        /\ WellFormed(request'[s])
        /\ request'[s].method = request[s].method
        /\ request'[s].url = request[s].url
  BY DEF GoesOn, Invariant, Shape
<1>3. Shape'
  BY <1>1, <1>2 DEF GoesOn, Invariant, Shape
<1>4. OwnersAwait' /\ RunningIsInFlight'
  BY <1>1, <1>2 DEF Invariant, OwnersAwait, RunningIsInFlight
<1>5. PromisesAreRunning'
  BY <1>1, <1>2 DEF Invariant, Shape, PromisesAreRunning, Pending
<1>6. SleepersAreNotAborted'
  BY DEF GoesOn, Invariant, SleepersAreNotAborted, Phase
<1> QED BY <1>3, <1>4, <1>5, <1>6 DEF Invariant

\* The promise of r settles, perhaps because its caller aborts.
LEMMA SettleKeepsInvariant ==
  ASSUME Invariant, NEW r \in Callers, Active(r), NEW outcome, Settle(r, outcome),
         UNCHANGED destroys,
         aborted' \in [Callers -> BOOLEAN],
         \A s \in Callers \ {r} : aborted'[s] = aborted[s]
  PROVE  Invariant'
<1>0. /\ request' = [request EXCEPT ![r] = NoRequest]
      /\ awaits' = [c \in Callers |-> IF awaits[c] = r THEN None ELSE awaits[c]]
      /\ inflight' = IF request[r].method = "GET"
                     THEN [inflight EXCEPT ![request[r].url] = None]
                     ELSE inflight
      /\ None \notin Callers
  BY HttpAssumption DEF Settle
<1>1. /\ DOMAIN request' = Callers
      /\ ~ Active(r)' /\ request'[r].phase = "none"
      /\ \A s \in Callers \ {r} : request'[s] = request[s]
  BY <1>0 DEF Invariant, Shape, Active, NoRequest
<1>2. \A s \in Callers : Active(s)' => Active(s) /\ s # r /\ request'[s] = request[s]
  BY <1>1 DEF Active
<1>3. \A u \in Urls : inflight'[u] # None => inflight'[u] = inflight[u] /\ inflight[u] # r
  BY <1>0 DEF Invariant, Shape, PromisesAreRunning
<1>4. Shape'
  BY <1>0, <1>1, <1>2 DEF Invariant, Shape
<1>5. OwnersAwait'
  BY <1>0, <1>2 DEF Invariant, OwnersAwait
<1>6. PromisesAreRunning'
  <2>1. \A c \in Callers : Pending(c)' => Active(awaits[c])' /\ awaits'[c] = awaits[c]
    BY <1>0, <1>1 DEF Invariant, Shape, PromisesAreRunning, Pending, Active
  <2>2. \A u \in Urls : inflight'[u] # None =>
          /\ Active(inflight[u])'
          /\ request'[inflight[u]] = request[inflight[u]]
    BY <1>1, <1>3 DEF Invariant, Shape, PromisesAreRunning, Active
  <2> QED BY <1>3, <2>1, <2>2 DEF Invariant, PromisesAreRunning, Pending, Active
<1>7. RunningIsInFlight'
  BY <1>0, <1>2 DEF Invariant, Shape, RunningIsInFlight
<1>8. SleepersAreNotAborted'
  BY <1>1 DEF Invariant, SleepersAreNotAborted, Phase
<1> QED BY <1>4, <1>5, <1>6, <1>7, <1>8 DEF Invariant

\* An attempt fails: its request goes on to a retry or its promise settles.
LEMMA FailKeepsInvariant ==
  ASSUME Invariant, NEW r \in Callers, Active(r), NEW error, Fail(r, error),
         UNCHANGED <<aborted, destroys>>
  PROVE  Invariant'
<1>1. CASE Retries(r, error)
  <2>1. PICK jitter \in Jitters :
          request' = [request EXCEPT
            ![r].phase = "backoff",
            ![r].reply = None,
            ![r].lastError = error,
            ![r].pause = ComputeRetryDelay(request[r].attempt, error.retryAfter, jitter)]
    BY <1>1 DEF Fail
  <2>2. PICK pause :
          request' = [request EXCEPT ![r] =
            [request[r] EXCEPT !.phase = "backoff", !.reply = None,
                               !.lastError = error, !.pause = pause]]
    BY <2>1
  <2>3. WellFormed(request[r]) /\ ~ aborted[r]
    BY <1>1 DEF Invariant, Shape, Retries
  <2>4. GoesOn(r)
    BY <2>2, <2>3 DEF Invariant, Shape, GoesOn, WellFormed
  <2>5. UNCHANGED <<inflight, awaits, aborted, destroys>>
    BY <1>1 DEF Fail
  <2> QED BY <2>4, <2>5, GoesOnKeepsInvariant
<1>2. CASE ~ Retries(r, error)
  <2>1. Settle(r, Failure(error))
    BY <1>2 DEF Fail
  <2> QED BY <2>1, SettleKeepsInvariant DEF Invariant, Shape
<1> QED BY <1>1, <1>2

\* A caller that awaits nothing starts a request of its own: a POST, or a GET
\* for a url that has none in flight.
LEMMA StartKeepsInvariant ==
  ASSUME Invariant, NEW c \in Callers, Idle(c),
         NEW method, NEW url \in Urls, NEW etag,
         request' = [request EXCEPT ![c] = NewRequest(method, url, etag)],
         awaits' = [awaits EXCEPT ![c] = c],
         \/ method = "POST" /\ inflight' = inflight
         \/ /\ method = "GET"
            /\ inflight[url] = None
            /\ inflight' = [inflight EXCEPT ![url] = c],
         UNCHANGED <<aborted, destroys>>
  PROVE  Invariant'
<1>0. None \notin Callers /\ ~ Active(c)
  BY HttpAssumption DEF Invariant, OwnersAwait, Idle
<1>1. PICK q : q = NewRequest(method, url, etag)
  OBVIOUS
<1>2. /\ WellFormed(q) /\ q.phase = "limiter" /\ q # NoRequest
      /\ q.method = method /\ q.url = url
  BY <1>1 DEF NewRequest, WellFormed, NoRequest
<1>3. DOMAIN request' = Callers /\ request' = [request EXCEPT ![c] = q]
  BY <1>1 DEF Invariant, Shape
<1>4. request'[c] = q /\ \A s \in Callers \ {c} : request'[s] = request[s]
  BY <1>3 DEF Invariant, Shape
<1>5. \A s \in Callers : Active(s)' <=> Active(s) \/ s = c
  BY <1>2, <1>4 DEF Active
<1>6. Shape'
  BY <1>0, <1>2, <1>3, <1>4, <1>5 DEF Invariant, Shape
<1>7. OwnersAwait'
  BY <1>5 DEF Invariant, Shape, OwnersAwait
<1>8. PromisesAreRunning'
  BY <1>0, <1>2, <1>4, <1>5 DEF Invariant, Shape, PromisesAreRunning, Pending
<1>9. RunningIsInFlight'
  <2> SUFFICES ASSUME destroys' = 0, NEW s \in Callers,
                      Active(s)', request'[s].method = "GET"
               PROVE  inflight'[request'[s].url] = s
    BY DEF RunningIsInFlight
  <2>1. CASE s = c
    BY <1>2, <1>4, <2>1 DEF Invariant, Shape
  <2>2. CASE s # c
    <3>1. Active(s) /\ request'[s] = request[s] /\ request[s].url \in Urls
      BY <1>4, <1>5, <2>2 DEF Invariant, Shape
    <3>2. inflight[request[s].url] = s
      BY <3>1 DEF Invariant, RunningIsInFlight
    <3> QED BY <1>0, <3>1, <3>2 DEF Invariant, Shape
  <2> QED BY <2>1, <2>2
<1>10. SleepersAreNotAborted'
  BY <1>2, <1>4 DEF Invariant, SleepersAreNotAborted, Phase
<1> QED BY <1>6, <1>7, <1>8, <1>9, <1>10 DEF Invariant

----------------------------------------------------------------------------
(* The steps *)

\* The limiter, the server and the retry timer move an attempt on.
LEMMA AttemptKeepsInvariant ==
  ASSUME Invariant, NEW r \in Callers, Admit(r) \/ ServerAnswers(r) \/ RetryDue(r)
  PROVE  Invariant'
<1>1. Active(r) /\ WellFormed(request[r])
  <2>1. request[r].phase \in {"limiter", "sending", "backoff"}
    BY DEF Admit, ServerAnswers, RetryDue, Phase
  <2> QED BY <2>1, ActiveByPhase DEF Invariant, Shape
<1>2. UNCHANGED <<inflight, awaits, aborted, destroys>>
  BY DEF Admit, ServerAnswers, RetryDue
<1>3. CASE Admit(r)
  <2>1. request' = [request EXCEPT ![r].phase = "sending"]
    BY <1>3 DEF Admit
  <2>2. GoesOn(r)
    BY <1>1, <2>1 DEF Invariant, Shape, GoesOn, WellFormed
  <2> QED BY <1>1, <1>2, <2>2, GoesOnKeepsInvariant
<1>4. CASE ServerAnswers(r)
  <2>1. PICK reply : request' = [request EXCEPT ![r].phase = "answered", ![r].reply = reply]
    BY <1>4 DEF ServerAnswers
  <2>2. GoesOn(r)
    BY <1>1, <2>1 DEF Invariant, Shape, GoesOn, WellFormed
  <2> QED BY <1>1, <1>2, <2>2, GoesOnKeepsInvariant
<1>5. CASE RetryDue(r)
  <2>1. PICK attempt : request' = [request EXCEPT ![r].phase = "limiter",
                                                  ![r].attempt = attempt,
                                                  ![r].pause = 0,
                                                  ![r].lastError = None]
    BY <1>5 DEF RetryDue
  <2>2. GoesOn(r)
    BY <1>1, <2>1 DEF Invariant, Shape, GoesOn, WellFormed
  <2> QED BY <1>1, <1>2, <2>2, GoesOnKeepsInvariant
<1> QED BY <1>3, <1>4, <1>5

\* Every way out of handleResponse settles the request or fails the attempt.
LEMMA ResponseKeepsInvariant ==
  ASSUME Invariant, NEW r \in Callers, HandleResponse(r)
  PROVE  Invariant'
<1>1. Active(r)
  <2>1. request[r].phase = "answered"
    BY DEF HandleResponse, NotModified, ErrorStatus, NoContent, Unparsable, Parsed, Phase
  <2> QED BY <2>1, ActiveByPhase
<1>2. UNCHANGED <<aborted, destroys>>
  BY DEF HandleResponse, NotModified, ErrorStatus, NoContent, Unparsable, Parsed
<1>3. CASE NotModified(r) \/ NoContent(r) \/ Parsed(r)
  <2>1. PICK outcome : Settle(r, outcome)
    BY <1>3 DEF NotModified, NoContent, Parsed
  <2> QED BY <1>1, <1>2, <2>1, SettleKeepsInvariant DEF Invariant, Shape
<1>4. CASE ErrorStatus(r) \/ Unparsable(r)
  <2>1. PICK error : Fail(r, error)
    BY <1>4 DEF ErrorStatus, Unparsable
  <2> QED BY <1>1, <1>2, <2>1, FailKeepsInvariant
<1> QED BY <1>3, <1>4 DEF HandleResponse

\* An attempt that throws while it is sent or read.
LEMMA ThrowKeepsInvariant ==
  ASSUME Invariant, NEW r \in Callers, NEW error, AttemptThrows(r, error)
  PROVE  Invariant'
<1>1. Active(r)
  BY ActiveByPhase DEF AttemptThrows, Phase
<1> QED BY <1>1, FailKeepsInvariant DEF AttemptThrows

\* An abort settles the request at once, later, or, of a joiner, not at all.
LEMMA AbortKeepsInvariant ==
  ASSUME Invariant, NEW r \in Callers, Abort(r) \/ AbortSurfaces(r)
  PROVE  Invariant'
<1>1. UNCHANGED destroys /\ aborted' \in [Callers -> BOOLEAN]
      /\ \A s \in Callers \ {r} : aborted'[s] = aborted[s]
  BY DEF Abort, AbortSurfaces, Invariant, Shape
<1>2. CASE \E outcome : Settle(r, outcome) /\ Active(r)
  BY <1>1, <1>2, SettleKeepsInvariant
<1>3. CASE /\ ~ Phase(r, "backoff")
           /\ UNCHANGED <<inflight, request, awaits, result>>
  <2>1. Shape'
    BY <1>1, <1>3 DEF Invariant, Shape, Active
  <2>2. OwnersAwait' /\ PromisesAreRunning' /\ RunningIsInFlight'
    BY <1>1, <1>3 DEF Invariant, OwnersAwait, PromisesAreRunning, RunningIsInFlight,
                      Active, Pending
  <2>3. SleepersAreNotAborted'
    BY <1>1, <1>3 DEF Invariant, SleepersAreNotAborted, Phase
  <2> QED BY <2>1, <2>2, <2>3 DEF Invariant
<1>4. Abort(r) => (\E outcome : Settle(r, outcome) /\ Active(r)) \/
                  (~ Phase(r, "backoff") /\ UNCHANGED <<inflight, request, awaits, result>>)
  BY ActiveByPhase DEF Abort, Phase
<1>5. AbortSurfaces(r) => \E outcome : Settle(r, outcome) /\ Active(r)
  BY ActiveByPhase DEF AbortSurfaces, Phase
<1> QED BY <1>2, <1>3, <1>4, <1>5

\* One case for every action.
LEMMA InvariantStep ==
  ASSUME Invariant, [Next]_vars
  PROVE  Invariant'
<1>1. ASSUME NEW c \in Callers, NEW url \in Urls, JoinGet(c, url)
      PROVE  Invariant'
  <2>1. awaits' = [awaits EXCEPT ![c] = inflight[url]] /\ inflight[url] \in Callers
    BY <1>1 DEF JoinGet, Invariant, Shape
  <2>2. ~ Active(c) /\ UNCHANGED <<inflight, request, aborted, destroys>>
    BY <1>1, HttpAssumption DEF JoinGet, Idle, Invariant, OwnersAwait
  <2>3. Shape'
    BY <2>1, <2>2 DEF Invariant, Shape, Active
  <2>4. OwnersAwait' /\ RunningIsInFlight' /\ SleepersAreNotAborted'
    BY <2>1, <2>2 DEF Invariant, Shape, OwnersAwait, RunningIsInFlight,
                      SleepersAreNotAborted, Active, Phase
  <2>5. PromisesAreRunning'
    BY <2>1, <2>2, <1>1 DEF JoinGet, Invariant, Shape, PromisesAreRunning, Pending, Active
  <2> QED BY <2>3, <2>4, <2>5 DEF Invariant
<1>2. ASSUME NEW c \in Callers, NEW url \in Urls, StartGet(c, url)
      PROVE  Invariant'
  <2>1. PICK etag : request' = [request EXCEPT ![c] = NewRequest("GET", url, etag)]
    BY <1>2 DEF StartGet
  <2>2. /\ Idle(c) /\ inflight[url] = None
        /\ inflight' = [inflight EXCEPT ![url] = c]
        /\ awaits' = [awaits EXCEPT ![c] = c]
        /\ UNCHANGED <<aborted, destroys>>
    BY <1>2 DEF StartGet
  <2> QED BY <2>1, <2>2, StartKeepsInvariant
<1>3. ASSUME NEW c \in Callers, NEW url \in Urls, StartPost(c, url)
      PROVE  Invariant'
  BY <1>3, StartKeepsInvariant DEF StartPost
<1>4. ASSUME NEW c \in Callers, NetworkFails(c) \/ HookThrows(c) \/ TimesOut(c)
      PROVE  Invariant'
  BY <1>4, ThrowKeepsInvariant DEF NetworkFails, HookThrows, TimesOut
<1>5. CASE \/ \E url \in Urls : ServerUpdates(url) \/ EntryExpires(url)
           \/ Done
           \/ UNCHANGED vars
  <2>1. UNCHANGED <<inflight, request, awaits, aborted, destroys>>
    BY <1>5 DEF ServerUpdates, EntryExpires, Done, vars
  <2> QED BY <2>1 DEF Invariant, Shape, OwnersAwait, PromisesAreRunning,
                      RunningIsInFlight, SleepersAreNotAborted, Active, Pending, Phase
<1>6. CASE Destroy
  <2>1. /\ inflight' = [u \in Urls |-> None]
        /\ destroys' = destroys + 1 /\ destroys' \in Nat /\ destroys' # 0
        /\ UNCHANGED <<request, awaits, aborted>>
    BY <1>6 DEF Destroy, Invariant, Shape
  <2>2. Shape' /\ OwnersAwait' /\ SleepersAreNotAborted'
    BY <2>1 DEF Invariant, Shape, OwnersAwait, SleepersAreNotAborted, Active, Phase
  <2>3. RunningIsInFlight'
    BY <2>1 DEF RunningIsInFlight
  <2>4. PromisesAreRunning'
    BY <2>1 DEF Invariant, PromisesAreRunning, Pending, Active
  <2> QED BY <2>2, <2>3, <2>4 DEF Invariant
<1> QED
  BY <1>1, <1>2, <1>3, <1>4, <1>5, <1>6,
     AttemptKeepsInvariant, ResponseKeepsInvariant, AbortKeepsInvariant DEF Next

----------------------------------------------------------------------------
(* Theorems *)

\* The bookkeeping of get() stays consistent with the requests that run.
THEOREM InvariantHolds == Spec => []Invariant
<1>1. Init => Invariant
  BY InvariantInit
<1>2. Invariant /\ [Next]_vars => Invariant'
  BY InvariantStep
<1> QED BY <1>1, <1>2, PTL DEF Spec

\* get() never hands out, and nobody ever awaits, a promise that has settled.
THEOREM NobodyAwaitsTheSettled == Spec => []PromisesAreRunning
<1>1. Invariant => PromisesAreRunning
  BY DEF Invariant
<1> QED BY <1>1, InvariantHolds, PTL

\* Until destroy(), two GETs for one url are never running at the same time.
THEOREM OneFlightPerUrl == Spec => []SingleFlight
<1>1. Invariant => SingleFlight
  BY DEF Invariant, RunningIsInFlight, SingleFlight
<1> QED BY <1>1, InvariantHolds, PTL

----------------------------------------------------------------------------
(* What a step can do to one request *)

\* The errors that an attempt of r can meet.
Meets(r, error) ==
  \/ error \in {NetworkError, TimeoutError} \cup HookErrors
  \/ /\ Phase(r, "answered")
     /\ error \in {CreateErrorFromResponse(request[r].reply.status, request[r].reply.header),
                   CreateParseError(request[r].reply.status)}

Stays(r) == request'[r] = request[r]

IsAdmitted(r) ==
  /\ Phase(r, "limiter")
  /\ request'[r] = [request[r] EXCEPT !.phase = "sending"]

IsAnswered(r) ==
  /\ Phase(r, "sending")
  /\ \E reply \in GoodReplies(r) \cup ErrorReplies :
       request'[r] = [request[r] EXCEPT !.phase = "answered", !.reply = reply]

BacksOff(r, error) ==
  /\ Meets(r, error)
  /\ Retries(r, error)
  /\ \E jitter \in Jitters :
       request'[r] = [request[r] EXCEPT
         !.phase = "backoff", !.reply = None, !.lastError = error,
         !.pause = ComputeRetryDelay(request[r].attempt, error.retryAfter, jitter)]

TriesAgain(r) ==
  /\ Phase(r, "backoff")
  /\ request'[r] = [request[r] EXCEPT
       !.phase = "limiter", !.attempt = request[r].attempt + 1,
       !.pause = 0, !.lastError = None]

Throws(r, error) ==
  /\ Settle(r, Failure(error))
  /\ error = AbortError \/ (Meets(r, error) /\ ~ Retries(r, error))

Returns(r) == NotModified(r) \/ NoContent(r) \/ Parsed(r)

\* What one caller's request does leaves those of the others alone.
LEMMA FailedAttempt ==
  ASSUME Invariant, NEW r \in Callers, NEW s \in Callers, Active(r), NEW error,
         Fail(s, error), Meets(s, error)
  PROVE  Stays(r) \/ BacksOff(r, error) \/ Throws(r, error)
<1>0. DOMAIN request = Callers /\ WellFormed(request[r])
  BY DEF Invariant, Shape
<1>1. CASE Retries(s, error)
  <2>1. PICK jitter \in Jitters : request' = [request EXCEPT
          ![s].phase = "backoff", ![s].reply = None, ![s].lastError = error,
          ![s].pause = ComputeRetryDelay(request[s].attempt, error.retryAfter, jitter)]
    BY <1>1 DEF Fail
  <2>2. PICK pause : pause = ComputeRetryDelay(request[s].attempt, error.retryAfter, jitter)
    OBVIOUS
  <2>3. request' = [request EXCEPT ![s] = [request[s] EXCEPT
          !.phase = "backoff", !.reply = None, !.lastError = error, !.pause = pause]]
    BY <2>1, <2>2
  <2>4. CASE s = r
    <3>1. request'[r] = [request[r] EXCEPT
            !.phase = "backoff", !.reply = None, !.lastError = error, !.pause = pause]
      BY <1>0, <2>3, <2>4
    <3> QED BY <1>1, <2>2, <2>4, <3>1 DEF BacksOff
  <2>5. CASE s # r
    BY <1>0, <2>3, <2>5 DEF Stays
  <2> QED BY <2>4, <2>5
<1>2. CASE ~ Retries(s, error)
  <2>1. Settle(s, Failure(error))
    BY <1>2 DEF Fail
  <2>2. CASE s = r
    BY <1>2, <2>1, <2>2 DEF Throws
  <2>3. CASE s # r
    BY <1>0, <2>1, <2>3 DEF Settle, Stays
  <2> QED BY <2>2, <2>3
<1> QED BY <1>1, <1>2

\* One case for every action: a running request stays as it is, goes on to its
\* next phase, throws or returns.
LEMMA StepOfRequest ==
  ASSUME Invariant, Next, NEW r \in Callers, Active(r)
  PROVE  \/ Stays(r)
         \/ IsAdmitted(r)
         \/ IsAnswered(r)
         \/ \E error : BacksOff(r, error) \/ Throws(r, error)
         \/ TriesAgain(r)
         \/ Returns(r)
<1> DEFINE Goal == \/ Stays(r)
                   \/ IsAdmitted(r)
                   \/ IsAnswered(r)
                   \/ \E error : BacksOff(r, error) \/ Throws(r, error)
                   \/ TriesAgain(r)
                   \/ Returns(r)
<1>0. DOMAIN request = Callers /\ WellFormed(request[r])
  BY DEF Invariant, Shape
<1>1. ASSUME NEW s \in Callers, HandleResponse(s)
      PROVE  Goal
  <2>1. CASE ErrorStatus(s) \/ Unparsable(s)
    <3>1. PICK error : Fail(s, error) /\ Meets(s, error)
      BY <2>1 DEF ErrorStatus, Unparsable, Meets
    <3> QED BY <3>1, FailedAttempt
  <2>2. CASE NotModified(s) \/ NoContent(s) \/ Parsed(s)
    <3>1. PICK outcome : Settle(s, outcome)
      BY <2>2 DEF NotModified, NoContent, Parsed
    <3>2. CASE s = r
      BY <2>2, <3>2 DEF Returns
    <3>3. CASE s # r
      BY <1>0, <3>1, <3>3 DEF Settle, Stays
    <3> QED BY <3>2, <3>3
  <2> QED BY <1>1, <2>1, <2>2 DEF HandleResponse
<1>2. ASSUME NEW s \in Callers, NetworkFails(s) \/ HookThrows(s) \/ TimesOut(s)
      PROVE  Goal
  <2>1. PICK error : Fail(s, error) /\ Meets(s, error)
    BY <1>2 DEF NetworkFails, HookThrows, TimesOut, AttemptThrows, Meets
  <2> QED BY <2>1, FailedAttempt
<1>3. ASSUME NEW s \in Callers, Abort(s) \/ AbortSurfaces(s)
      PROVE  Goal
  <2>1. CASE request' = request
    BY <2>1 DEF Stays
  <2>2. CASE Settle(s, Failure(AbortError))
    <3>1. CASE s = r
      BY <2>2, <3>1 DEF Throws
    <3>2. CASE s # r
      BY <1>0, <2>2, <3>2 DEF Settle, Stays
    <3> QED BY <3>1, <3>2
  <2> QED BY <1>3, <2>1, <2>2 DEF Abort, AbortSurfaces
<1>4. ASSUME NEW s \in Callers, Admit(s)
      PROVE  Goal
  <2>1. Phase(s, "limiter") /\ request' = [request EXCEPT ![s].phase = "sending"]
    BY <1>4 DEF Admit
  <2>2. CASE s = r
    <3>1. request'[r] = [request[r] EXCEPT !.phase = "sending"]
      BY <1>0, <2>1, <2>2
    <3> QED BY <2>1, <2>2, <3>1 DEF IsAdmitted
  <2>3. CASE s # r
    BY <1>0, <2>1, <2>3 DEF Stays
  <2> QED BY <2>2, <2>3
<1>5. ASSUME NEW s \in Callers, ServerAnswers(s)
      PROVE  Goal
  <2>1. PICK reply \in GoodReplies(s) \cup ErrorReplies :
          request' = [request EXCEPT ![s].phase = "answered", ![s].reply = reply]
    BY <1>5 DEF ServerAnswers
  <2>2. CASE s = r
    <3>1. request'[r] = [request[r] EXCEPT !.phase = "answered", !.reply = reply]
      BY <1>0, <2>1, <2>2
    <3> QED BY <1>5, <2>1, <2>2, <3>1 DEF IsAnswered, ServerAnswers
  <2>3. CASE s # r
    BY <1>0, <2>1, <2>3 DEF Stays
  <2> QED BY <2>2, <2>3
<1>6. ASSUME NEW s \in Callers, RetryDue(s)
      PROVE  Goal
  <2>1. PICK attempt : attempt = request[s].attempt + 1
    OBVIOUS
  <2>2. /\ Phase(s, "backoff")
        /\ request' = [request EXCEPT ![s] = [request[s] EXCEPT
             !.phase = "limiter", !.attempt = attempt, !.pause = 0, !.lastError = None]]
    BY <1>6, <2>1 DEF RetryDue
  <2>3. CASE s = r
    <3>1. request'[r] = [request[r] EXCEPT
            !.phase = "limiter", !.attempt = attempt, !.pause = 0, !.lastError = None]
      BY <1>0, <2>2, <2>3
    <3> QED BY <2>1, <2>2, <2>3, <3>1 DEF TriesAgain
  <2>4. CASE s # r
    BY <1>0, <2>2, <2>4 DEF Stays
  <2> QED BY <2>3, <2>4
<1>7. ASSUME NEW s \in Callers, NEW url \in Urls, StartGet(s, url) \/ StartPost(s, url)
      PROVE  Goal
  <2>1. s # r
    BY <1>7, HttpAssumption DEF StartGet, StartPost, Idle, Invariant, OwnersAwait
  <2> QED BY <1>0, <1>7, <2>1 DEF StartGet, StartPost, Stays
<1>8. ASSUME \/ \E url \in Urls : ServerUpdates(url) \/ EntryExpires(url)
             \/ \E s \in Callers, url \in Urls : JoinGet(s, url)
             \/ Destroy
             \/ Done
      PROVE  Goal
  BY <1>8 DEF ServerUpdates, EntryExpires, JoinGet, Destroy, Done, vars, Stays
<1> QED BY <1>1, <1>2, <1>3, <1>4, <1>5, <1>6, <1>7, <1>8 DEF Next

\* A step that keeps a request running counts another attempt only when the
\* request was sleeping.
LEMMA OnlySleepersRetry ==
  ASSUME Invariant, Next, NEW r \in Callers, Active(r), request'[r] # NoRequest,
         ~ Phase(r, "backoff")
  PROVE  request'[r].attempt = request[r].attempt
<1>1. WellFormed(request[r]) /\ DOMAIN request = Callers
  BY DEF Invariant, Shape
<1>2. \A outcome : Settle(r, outcome) => request'[r] = NoRequest
  BY <1>1 DEF Settle
<1>3. CASE \E error : BacksOff(r, error)
  <2>1. PICK error, pause : request'[r] = [request[r] EXCEPT
          !.phase = "backoff", !.reply = None, !.lastError = error, !.pause = pause]
    BY <1>3 DEF BacksOff
  <2> QED BY <1>1, <2>1 DEF WellFormed
<1>4. CASE IsAnswered(r)
  <2>1. PICK reply : request'[r] = [request[r] EXCEPT !.phase = "answered", !.reply = reply]
    BY <1>4 DEF IsAnswered
  <2> QED BY <1>1, <2>1 DEF WellFormed
<1>5. CASE Stays(r) \/ IsAdmitted(r)
  BY <1>1, <1>5 DEF Stays, IsAdmitted, WellFormed
<1> QED BY <1>2, <1>3, <1>4, <1>5, StepOfRequest
        DEF TriesAgain, Throws, Returns, NotModified, NoContent, Parsed

\* Once its owner's signal is aborted, request() makes no further attempt.
THEOREM AbortedNeverRetries == Spec => NoRetryAfterAbort
<1>1. Invariant /\ [Next]_vars =>
        [\A r \in Callers : aborted[r] /\ Active(r) /\ request'[r] # NoRequest =>
           request'[r].attempt = request[r].attempt]_vars
  BY OnlySleepersRetry DEF Invariant, SleepersAreNotAborted
<1> QED BY <1>1, InvariantHolds, PTL DEF Spec, NoRetryAfterAbort

----------------------------------------------------------------------------
(* What the client knows of the server *)

\* An entry keeps the body that came with its ETag.
CacheEntries ==
  {e \in [key : Urls, etag : Representations, body : Representations, expired : BOOLEAN] :
     e.etag = e.body}

CacheIsStore ==
  /\ cache \in Seq(CacheEntries)
  /\ Distinct(cache)
  /\ Len(cache) <= CacheSize

\* A request was made when the server held a version it has not gone back from.
RequestsAreKnown ==
  \A r \in Callers : Active(r) =>
    /\ request[r].method \in {"GET", "POST"}
    /\ request[r].etag \in Representations \cup {None}
    /\ request[r].since \in 0 .. version[request[r].url]

\* The response is one of a server in trouble, a representation no older than
\* the request, or the confirmation that the one of its ETag is not older.
AnswersAreKnown ==
  \A r \in Callers : Phase(r, "answered") =>
    LET reply == request[r].reply
    IN \/ reply \in ErrorReplies
       \/ /\ reply.status = 200
          /\ reply.text \in Representations
          /\ reply.text.method = request[r].method
          /\ reply.text.version >= request[r].since
       \/ /\ reply.status = 304
          /\ reply.text = EmptyBody
          /\ request[r].method = "GET"
          /\ request[r].etag \in Representations
          /\ request[r].etag.method = "GET"
          /\ request[r].etag.version >= request[r].since

\* While a conditional GET runs, only the body of a POST can take the place of
\* the one its ETag stands for.
TagsAreCached ==
  destroys = 0 =>
    \A r \in Callers :
      (/\ Active(r) /\ request[r].method = "GET" /\ request[r].etag # None
       /\ request[r].url \in KeysOf(cache)) =>
        LET body == EntryOf(cache, request[r].url).body
        IN body = request[r].etag \/ body.method = "POST"

\* What the steps preserve together, given Invariant.
Knowledge ==
  /\ version \in [Urls -> 0 .. MaxVersion]
  /\ CacheIsStore
  /\ RequestsAreKnown
  /\ AnswersAreKnown
  /\ TagsAreCached

\* The representations, as a set of records.
LEMMA RepresentationsAreRecords ==
  Representations = [method : {"GET", "POST"}, version : 0 .. MaxVersion]
<1>1. \A rep \in Representations : rep \in [method : {"GET", "POST"}, version : 0 .. MaxVersion]
  BY DEF Representations, Representation
<1>2. \A rep \in [method : {"GET", "POST"}, version : 0 .. MaxVersion] :
        rep = Representation(rep.method, rep.version)
  BY DEF Representation
<1>3. \A method \in {"GET", "POST"}, v \in 0 .. MaxVersion :
        Representation(method, v) \in Representations
  BY DEF Representations
<1>4. \A rep \in [method : {"GET", "POST"}, version : 0 .. MaxVersion] : rep \in Representations
  BY <1>2, <1>3
<1> QED BY <1>1, <1>4

\* A success with a JSON body is a representation.
LEMMA ParsedIsRepresentation ==
  ASSUME Knowledge, NEW r \in Callers, Parsed(r)
  PROVE  /\ request[r].reply.text \in Representations
         /\ request[r].reply.text.method = request[r].method
         /\ request[r].reply.text.version >= request[r].since
<1> DEFINE reply == request[r].reply
<1>1. Phase(r, "answered") /\ IsOk(reply.status) /\ reply.text \notin {EmptyBody, NotJson}
  BY DEF Parsed
<1>2. reply \notin ErrorReplies
  <2>1. reply \in ErrorReplies => reply.text \in {JsonError, NotJson, EmptyBody}
    BY ResponsesAssumption
  <2> QED BY <1>1, <2>1, ResponsesAssumption
<1>3. reply.status # 304
  BY <1>1 DEF IsOk
<1> QED BY <1>1, <1>2, <1>3 DEF Knowledge, AnswersAreKnown

\* The body of an entry is still the one it had, or one that was just parsed.
KeptOrParsed(k) ==
  \/ k \in KeysOf(cache) /\ EntryOf(cache', k).body = EntryOf(cache, k).body
  \/ \E r \in Callers :
       /\ Parsed(r)
       /\ k = request[r].url
       /\ EntryOf(cache', k).body = request[r].reply.text

\* A lookup expires, renews or leaves the entry, and changes no body.
LEMMA LookupKeepsCache ==
  ASSUME CacheIsStore, NEW url,
         \/ cache' = Without(cache, url)
         \/ url \in KeysOf(cache) /\ cache' = Refreshed(cache, url)
         \/ cache' = cache
  PROVE  /\ CacheIsStore'
         /\ KeysOf(cache') \subseteq KeysOf(cache)
         /\ \A k \in KeysOf(cache') : EntryOf(cache', k) = EntryOf(cache, k)
<1>0. cache \in Seq(CacheEntries) /\ Distinct(cache) /\ Len(cache) <= CacheSize
      /\ Len(cache) \in Nat /\ CacheSize \in Nat
  BY HttpAssumption, LenProperties DEF CacheIsStore
<1>1. CASE cache' = Without(cache, url)
  <2>1. /\ Keeps(Without(cache, url), cache, KeysOf(cache) \ {url}, CacheEntries)
        /\ Len(Without(cache, url)) =
             IF url \in KeysOf(cache) THEN Len(cache) - 1 ELSE Len(cache)
    BY <1>0, WithoutKeeps
  <2>2. Len(cache') <= CacheSize
    BY <1>0, <1>1, <2>1
  <2> QED BY <1>1, <2>1, <2>2 DEF CacheIsStore, CacheEntries, Keeps, Agree
<1>2. CASE url \in KeysOf(cache) /\ cache' = Refreshed(cache, url)
  <2>1. LET stored == Refreshed(cache, url)
        IN /\ stored \in Seq(CacheEntries)
           /\ Distinct(stored)
           /\ Len(stored) = Len(cache)
           /\ KeysOf(stored) = KeysOf(cache)
           /\ \A k \in KeysOf(cache) : EntryOf(stored, k) = EntryOf(cache, k)
    BY <1>0, <1>2, RefreshedKeeps
  <2> QED BY <1>0, <1>2, <2>1 DEF CacheIsStore, CacheEntries
<1>3. CASE cache' = cache
  BY <1>3 DEF CacheIsStore, CacheEntries
<1> QED BY <1>1, <1>2, <1>3

\* The cache stays an ordered map, whose bodies were all once parsed.
LEMMA CacheStep ==
  ASSUME Invariant, Knowledge, Next
  PROVE  CacheIsStore' /\ \A k \in KeysOf(cache') : KeptOrParsed(k)
<1>0. CacheIsStore
  BY DEF Knowledge
<1>1. ASSUME NEW url, \/ cache' = Without(cache, url)
                      \/ url \in KeysOf(cache) /\ cache' = Refreshed(cache, url)
                      \/ cache' = cache
      PROVE  CacheIsStore' /\ \A k \in KeysOf(cache') : KeptOrParsed(k)
  BY <1>0, <1>1, LookupKeepsCache DEF KeptOrParsed
<1>2. ASSUME NEW r \in Callers, NEW url \in Urls, StartGet(r, url)
      PROVE  CacheIsStore' /\ \A k \in KeysOf(cache') : KeptOrParsed(k)
  BY <1>1, <1>2 DEF StartGet
<1>3. ASSUME NEW r \in Callers, NotModified(r)
      PROVE  CacheIsStore' /\ \A k \in KeysOf(cache') : KeptOrParsed(k)
  BY <1>1, <1>3 DEF NotModified
<1>4. ASSUME NEW r \in Callers, Parsed(r)
      PROVE  CacheIsStore' /\ \A k \in KeysOf(cache') : KeptOrParsed(k)
  <2> DEFINE text == request[r].reply.text
             url == request[r].url
             entry == [key |-> url, etag |-> text, body |-> text, expired |-> FALSE]
  <2>1. text \in Representations /\ url \in Urls
    BY <1>4, ParsedIsRepresentation, ActiveByPhase DEF Parsed, Phase, Invariant, Shape
  <2>2. entry \in CacheEntries
    BY <2>1 DEF CacheEntries
  <2>3. CASE cache' = cache
    BY <1>1, <2>3
  <2>4. CASE cache' = Put(cache, entry, CacheSize)
    <3>1. /\ cache \in Seq(CacheEntries) /\ Distinct(cache) /\ Len(cache) <= CacheSize
          /\ CacheSize \in Nat \ {0}
      BY <1>0, HttpAssumption DEF CacheIsStore
    <3>2. entry.key = url /\ entry.body = text
      OBVIOUS
    <3> HIDE DEF entry
    <3>3. LET stored == Put(cache, entry, CacheSize)
              kept == KeysOf(stored) \ {entry.key}
              others == KeysOf(cache) \ {entry.key}
          IN /\ stored \in Seq(CacheEntries)
             /\ Distinct(stored)
             /\ Len(stored) <= CacheSize
             /\ entry.key \in KeysOf(stored)
             /\ EntryOf(stored, entry.key) = entry
             /\ Agree(stored, cache, kept)
             /\ \A a \in kept :
                  IsOlder(stored, a, entry.key) /\ ~ IsOlder(stored, entry.key, a)
             /\ ~ IsOlder(stored, entry.key, entry.key)
             /\ (entry.key \in KeysOf(cache) \/ Len(cache) < CacheSize) => kept = others
             /\ (entry.key \notin KeysOf(cache) /\ Len(cache) = CacheSize) =>
                  /\ cache[1].key \in KeysOf(cache)
                  /\ kept = KeysOf(cache) \ {cache[1].key}
                  /\ \A k \in kept : IsOlder(cache, cache[1].key, k)
      BY <2>2, <3>1, PutKeeps
    <3>4. Len(cache) < CacheSize \/ Len(cache) = CacheSize
      <4>1. \A m, n \in Nat : m <= n => m < n \/ m = n
        OBVIOUS
      <4>2. Len(cache) \in Nat
        BY <3>1, LenProperties
      <4> QED BY <3>1, <4>1, <4>2, Zenon
    <3>5. \A k \in KeysOf(cache') \ {url} :
            k \in KeysOf(cache) /\ EntryOf(cache', k) = EntryOf(cache, k)
      BY <2>4, <3>2, <3>3, <3>4 DEF Agree
    <3>6. EntryOf(cache', url).body = text
      BY <2>4, <3>2, <3>3
    <3>7. CacheIsStore'
      BY <2>4, <3>3 DEF CacheIsStore, CacheEntries
    <3> QED BY <1>4, <3>5, <3>6, <3>7 DEF KeptOrParsed
  <2> QED BY <1>4, <2>3, <2>4 DEF Parsed
<1>5. ASSUME NEW url \in Urls, EntryExpires(url)
      PROVE  CacheIsStore' /\ \A k \in KeysOf(cache') : KeptOrParsed(k)
  <2> DEFINE n == IndexOf(cache, url)
             old == EntryOf(cache, url)
             entry == [old EXCEPT !.expired = TRUE]
  <2>1. /\ url \in KeysOf(cache)
        /\ cache' = [cache EXCEPT ![n].expired = TRUE]
    BY <1>5 DEF EntryExpires
  <2>2. cache \in Seq(CacheEntries) /\ Distinct(cache) /\ Len(cache) <= CacheSize
    BY <1>0 DEF CacheIsStore
  <2>3. old \in CacheEntries /\ old.key = url
    BY <2>1, <2>2, KeyHasIndex
  <2>4. entry \in CacheEntries /\ entry.key = url /\ entry.body = old.body
    BY <2>3 DEF CacheEntries
  <2>5. cache' = [cache EXCEPT ![n] = entry]
    BY <2>1 DEF EntryOf
  <2> HIDE DEF entry
  <2>6. /\ cache' \in Seq(CacheEntries)
        /\ Len(cache') = Len(cache)
        /\ cache'[n] = entry
        /\ \A i \in 1 .. Len(cache) : i # n => cache'[i] = cache[i]
    <3>1. n \in 1 .. Len(cache)
      BY <2>1, <2>2, KeyHasIndex
    <3> HIDE DEF n
    <3> QED BY <2>2, <2>4, <2>5, <3>1, ExceptSeq
  <2>7. /\ Distinct(cache')
        /\ KeysOf(cache') = KeysOf(cache)
        /\ EntryOf(cache', url) = entry
        /\ \A k \in KeysOf(cache) \ {url} : EntryOf(cache', k) = EntryOf(cache, k)
    <3>1. /\ cache \in Seq(CacheEntries) /\ Distinct(cache) /\ url \in KeysOf(cache)
          /\ entry \in CacheEntries /\ entry.key = url
          /\ cache' \in Seq(CacheEntries) /\ Len(cache') = Len(cache)
          /\ cache'[IndexOf(cache, url)] = entry
          /\ \A i \in 1 .. Len(cache) : i # IndexOf(cache, url) => cache'[i] = cache[i]
      BY <2>1, <2>2, <2>4, <2>6
    <3> QED BY <3>1, ReplacedKeeps
  <2>8. CacheIsStore'
    BY <2>2, <2>6, <2>7 DEF CacheIsStore, CacheEntries
  <2>9. \A k \in KeysOf(cache') :
          k \in KeysOf(cache) /\ EntryOf(cache', k).body = EntryOf(cache, k).body
    BY <2>4, <2>7
  <2> QED BY <2>8, <2>9 DEF KeptOrParsed
<1>6. CASE Destroy
  <2>1. cache' = << >> /\ KeysOf(cache') = {} /\ Len(cache') = 0
    BY <1>6 DEF Destroy, KeysOf
  <2>2. CacheIsStore'
    BY <2>1, HttpAssumption DEF CacheIsStore, Distinct
  <2> QED BY <2>1, <2>2
<1>7. CASE cache' = cache
  BY <1>1, <1>7
<1> QED
  BY <1>2, <1>3, <1>4, <1>5, <1>6, <1>7
     DEF Next, JoinGet, StartPost, Admit, ServerAnswers, NetworkFails, HookThrows, TimesOut,
         AttemptThrows, HandleResponse, ErrorStatus, NoContent, Unparsable, RetryDue, Abort,
         AbortSurfaces, ServerUpdates, Done, vars

\* Only get() and post() make a request.
LEMMA StartOfRequest ==
  ASSUME Invariant, Next, NEW r \in Callers, ~ Active(r), request'[r] # NoRequest
  PROVE  \E url \in Urls : StartGet(r, url) \/ StartPost(r, url)
<1>0. DOMAIN request = Callers /\ ~ Stays(r)
  BY DEF Invariant, Shape, Stays, Active
<1>1. ASSUME NEW s \in Callers, NEW outcome, Settle(s, outcome)
      PROVE  FALSE
  BY <1>0, <1>1 DEF Settle, Stays
<1>2. ASSUME NEW s \in Callers, NEW error, Fail(s, error), Active(s)
      PROVE  FALSE
  <2>1. CASE Retries(s, error)
    <3>1. PICK pause : request' = [request EXCEPT
            ![s].phase = "backoff", ![s].reply = None,
            ![s].lastError = error, ![s].pause = pause]
      BY <1>2, <2>1 DEF Fail
    <3> QED BY <1>0, <1>2, <3>1 DEF Stays
  <2>2. CASE ~ Retries(s, error)
    BY <1>1, <1>2, <2>2 DEF Fail
  <2> QED BY <2>1, <2>2
<1>3. ASSUME NEW s \in Callers, HandleResponse(s) \/ NetworkFails(s) \/ HookThrows(s) \/ TimesOut(s)
      PROVE  FALSE
  <2>1. Active(s)
    BY <1>3, ActiveByPhase
       DEF HandleResponse, NotModified, ErrorStatus, NoContent, Unparsable, Parsed, Phase,
           NetworkFails, HookThrows, TimesOut, AttemptThrows
  <2> QED
    BY <1>1, <1>2, <1>3, <2>1
       DEF HandleResponse, NotModified, ErrorStatus, NoContent, Unparsable, Parsed,
           NetworkFails, HookThrows, TimesOut, AttemptThrows
<1>4. ASSUME NEW s \in Callers, Abort(s) \/ AbortSurfaces(s)
      PROVE  FALSE
  BY <1>0, <1>1, <1>4 DEF Abort, AbortSurfaces, Stays
<1>5. ASSUME NEW s \in Callers, Admit(s) \/ ServerAnswers(s) \/ RetryDue(s)
      PROVE  FALSE
  <2>1. Active(s) /\ s # r
    BY <1>5, ActiveByPhase DEF Admit, ServerAnswers, RetryDue, Phase
  <2> QED BY <1>0, <1>5, <2>1 DEF Admit, ServerAnswers, RetryDue, Stays
<1>6. ASSUME NEW s \in Callers, NEW url \in Urls, StartGet(s, url) \/ StartPost(s, url)
      PROVE  s = r
  BY <1>0, <1>6 DEF StartGet, StartPost, Stays
<1>7. ASSUME \/ \E url \in Urls : ServerUpdates(url) \/ EntryExpires(url)
             \/ \E s \in Callers, url \in Urls : JoinGet(s, url)
             \/ Destroy
             \/ Done
      PROVE  FALSE
  BY <1>0, <1>7 DEF ServerUpdates, EntryExpires, JoinGet, Destroy, Done, vars, Stays
<1> QED BY <1>3, <1>4, <1>5, <1>6, <1>7 DEF Next

\* As long as a request runs it is about the same call.
LEMMA RunningKeepsCall ==
  ASSUME Invariant, Next, NEW r \in Callers, Active(r), request'[r] # NoRequest
  PROVE  /\ request'[r].method = request[r].method
         /\ request'[r].url = request[r].url
         /\ request'[r].etag = request[r].etag
         /\ request'[r].since = request[r].since
         /\ request'[r].phase = "answered" => Stays(r) \/ IsAnswered(r)
<1>1. WellFormed(request[r]) /\ DOMAIN request = Callers
  BY DEF Invariant, Shape
<1>2. ~ Returns(r) /\ \A error : ~ Throws(r, error)
  BY <1>1 DEF Settle, Throws, Returns, NotModified, NoContent, Parsed
<1>3. CASE \E error : BacksOff(r, error)
  <2>1. PICK error, pause : request'[r] = [request[r] EXCEPT
          !.phase = "backoff", !.reply = None, !.lastError = error, !.pause = pause]
    BY <1>3 DEF BacksOff
  <2> QED BY <1>1, <2>1 DEF WellFormed
<1>4. CASE IsAnswered(r)
  <2>1. PICK reply : request'[r] = [request[r] EXCEPT !.phase = "answered", !.reply = reply]
    BY <1>4 DEF IsAnswered
  <2> QED BY <1>1, <1>4, <2>1 DEF WellFormed
<1>5. CASE TriesAgain(r)
  <2>1. PICK attempt : request'[r] = [request[r] EXCEPT
          !.phase = "limiter", !.attempt = attempt, !.pause = 0, !.lastError = None]
    BY <1>5 DEF TriesAgain
  <2> QED BY <1>1, <2>1 DEF WellFormed
<1>6. CASE Stays(r) \/ IsAdmitted(r)
  BY <1>1, <1>6 DEF Stays, IsAdmitted, WellFormed
<1> QED BY <1>2, <1>3, <1>4, <1>5, <1>6, StepOfRequest

\* The server never goes back to an earlier version.
LEMMA VersionsGrow ==
  ASSUME Knowledge, Next
  PROVE  /\ version' \in [Urls -> 0 .. MaxVersion]
         /\ \A url \in Urls : version[url] <= version'[url]
<1>1. version \in [Urls -> 0 .. MaxVersion] /\ MaxVersion \in Nat
  BY HttpAssumption DEF Knowledge
<1>2. ASSUME NEW url \in Urls, ServerUpdates(url)
      PROVE  /\ version' \in [Urls -> 0 .. MaxVersion]
             /\ \A u \in Urls : version[u] <= version'[u]
  BY <1>1, <1>2 DEF ServerUpdates
<1>3. CASE version' = version
  BY <1>1, <1>3
<1> QED
  BY <1>2, <1>3
     DEF Next, JoinGet, StartGet, StartPost, Admit, ServerAnswers, NetworkFails, HookThrows,
         TimesOut, AttemptThrows, HandleResponse, NotModified, ErrorStatus, NoContent,
         Unparsable, Parsed, RetryDue, Abort, AbortSurfaces, Destroy, EntryExpires, Done, vars

\* Nothing is cached and nothing runs.
LEMMA KnowledgeInit ==
  ASSUME Init
  PROVE  Knowledge
<1>1. \A r \in Callers : ~ Active(r) /\ request[r].phase = "none"
  BY DEF Init, Active, NoRequest
<1>2. version \in [Urls -> 0 .. MaxVersion]
  BY HttpAssumption DEF Init
<1>3. CacheIsStore
  BY HttpAssumption DEF Init, CacheIsStore, Distinct
<1>4. RequestsAreKnown /\ AnswersAreKnown /\ TagsAreCached
  BY <1>1 DEF RequestsAreKnown, AnswersAreKnown, TagsAreCached, Phase
<1> QED BY <1>2, <1>3, <1>4 DEF Knowledge

\* A new request knows the version of its start, and its ETag is the cached one.
LEMMA NewRequestIsKnown ==
  ASSUME Invariant, Knowledge, Next, NEW r \in Callers, ~ Active(r), request'[r] # NoRequest
  PROVE  /\ request'[r].phase = "limiter"
         /\ request'[r].method \in {"GET", "POST"}
         /\ request'[r].url \in Urls
         /\ request'[r].since = version[request'[r].url]
         /\ version' = version
         /\ request'[r].etag # None =>
              /\ request'[r].etag \in Representations
              /\ request'[r].url \in KeysOf(cache')
              /\ EntryOf(cache', request'[r].url).body = request'[r].etag
<1>0. DOMAIN request = Callers /\ CacheIsStore
  BY DEF Invariant, Shape, Knowledge
<1>1. PICK url \in Urls : StartGet(r, url) \/ StartPost(r, url)
  BY StartOfRequest
<1>2. CASE StartPost(r, url)
  BY <1>0, <1>2 DEF StartPost, NewRequest
<1>3. CASE StartGet(r, url)
  <2> DEFINE found == url \in KeysOf(cache)
             expired == found /\ EntryOf(cache, url).expired
             etag == IF found /\ ~ expired THEN EntryOf(cache, url).etag ELSE None
  <2>1. request'[r] = NewRequest("GET", url, etag) /\ version' = version
    BY <1>0, <1>3 DEF StartGet
  <2>2. CASE found /\ ~ expired
    <3>1. cache' = Refreshed(cache, url)
      BY <1>3, <2>2 DEF StartGet
    <3>2. /\ cache \in Seq(CacheEntries) /\ Distinct(cache) /\ url \in KeysOf(cache)
      BY <1>0, <2>2 DEF CacheIsStore
    <3>3. LET stored == Refreshed(cache, url)
          IN /\ KeysOf(stored) = KeysOf(cache)
             /\ \A k \in KeysOf(cache) : EntryOf(stored, k) = EntryOf(cache, k)
      BY <3>2, RefreshedKeeps
    <3>4. EntryOf(cache, url) \in CacheEntries
      BY <3>2, KeyHasIndex
    <3> QED BY <2>1, <2>2, <3>1, <3>2, <3>3, <3>4 DEF NewRequest, CacheEntries
  <2>3. CASE ~ (found /\ ~ expired)
    BY <2>1, <2>3 DEF NewRequest
  <2> QED BY <2>2, <2>3
<1> QED BY <1>1, <1>2, <1>3

\* RequestsAreKnown is preserved: a running request keeps what it was made with.
LEMMA RequestsStayKnown ==
  ASSUME Invariant, Knowledge, Next
  PROVE  RequestsAreKnown'
<1>0. /\ version \in [Urls -> 0 .. MaxVersion] /\ version' \in [Urls -> 0 .. MaxVersion]
      /\ \A url \in Urls : version[url] <= version'[url]
      /\ MaxVersion \in Nat
  BY VersionsGrow, HttpAssumption DEF Knowledge
<1> SUFFICES ASSUME NEW r \in Callers, request'[r] # NoRequest
             PROVE  /\ request'[r].method \in {"GET", "POST"}
                    /\ request'[r].etag \in Representations \cup {None}
                    /\ request'[r].since \in 0 .. version'[request'[r].url]
  BY DEF RequestsAreKnown, Active, Representations
<1>1. CASE Active(r)
  <2>1. /\ request[r].method \in {"GET", "POST"}
        /\ request[r].etag \in Representations \cup {None}
        /\ request[r].since \in 0 .. version[request[r].url]
        /\ request[r].url \in Urls
    BY <1>1 DEF Knowledge, RequestsAreKnown, Invariant, Shape
  <2>2. /\ request'[r].method = request[r].method
        /\ request'[r].url = request[r].url
        /\ request'[r].etag = request[r].etag
        /\ request'[r].since = request[r].since
    BY <1>1, RunningKeepsCall
  <2>3. version[request[r].url] <= version'[request[r].url]
    BY <1>0, <2>1
  <2> QED BY <1>0, <2>1, <2>2, <2>3
<1>2. CASE ~ Active(r)
  BY <1>0, <1>2, NewRequestIsKnown
<1> QED BY <1>1, <1>2

\* AnswersAreKnown is preserved: the server answers from the version it holds.
LEMMA AnswersStayKnown ==
  ASSUME Invariant, Knowledge, Next
  PROVE  AnswersAreKnown'
<1> SUFFICES ASSUME NEW r \in Callers, request'[r].phase = "answered"
             PROVE  LET reply == request'[r].reply
                    IN \/ reply \in ErrorReplies
                       \/ /\ reply.status = 200
                          /\ reply.text \in Representations
                          /\ reply.text.method = request'[r].method
                          /\ reply.text.version >= request'[r].since
                       \/ /\ reply.status = 304
                          /\ reply.text = EmptyBody
                          /\ request'[r].method = "GET"
                          /\ request'[r].etag \in Representations
                          /\ request'[r].etag.method = "GET"
                          /\ request'[r].etag.version >= request'[r].since
  BY DEF AnswersAreKnown, Phase, Representations, EmptyBody
<1>1. request'[r] # NoRequest
  BY DEF NoRequest
<1>2. Active(r)
  BY <1>1, NewRequestIsKnown
<1>3. CASE Stays(r)
  BY <1>3 DEF Stays, Knowledge, AnswersAreKnown, Phase
<1>4. CASE IsAnswered(r)
  <2>1. PICK reply \in GoodReplies(r) \cup ErrorReplies :
          request'[r] = [request[r] EXCEPT !.phase = "answered", !.reply = reply]
    BY <1>4 DEF IsAnswered
  <2>2. /\ request'[r].reply = reply
        /\ request'[r].method = request[r].method
        /\ request'[r].etag = request[r].etag
        /\ request'[r].since = request[r].since
    BY <1>2, <2>1 DEF Invariant, Shape, WellFormed
  <2>3. CASE reply \in ErrorReplies
    BY <2>2, <2>3
  <2>4. CASE reply \in GoodReplies(r)
    <3> DEFINE v == version[request[r].url]
               current == Representation(request[r].method, v)
    <3>1. /\ v \in 0 .. MaxVersion /\ v >= request[r].since
          /\ request[r].method \in {"GET", "POST"}
      BY <1>2, HttpAssumption DEF Knowledge, RequestsAreKnown, Invariant, Shape
    <3>2. /\ current \in Representations
          /\ current.method = request[r].method /\ current.version = v
      BY <3>1 DEF Representations, Representation
    <3>3. CASE request[r].method = "GET" /\ request[r].etag = current
      <4>1. reply = Reply(304, EmptyBody, TRUE, NoHeader)
        BY <2>4, <3>3 DEF GoodReplies
      <4> QED BY <2>2, <3>1, <3>2, <3>3, <4>1 DEF Reply
    <3>4. CASE ~ (request[r].method = "GET" /\ request[r].etag = current)
      <4>1. PICK tagged \in BOOLEAN : reply = Reply(200, current, tagged, NoHeader)
        BY <2>4, <3>4 DEF GoodReplies
      <4> QED BY <2>2, <3>1, <3>2, <4>1 DEF Reply
    <3> QED BY <3>3, <3>4
  <2> QED BY <2>1, <2>3, <2>4
<1> QED BY <1>1, <1>2, <1>3, <1>4, RunningKeepsCall

\* TagsAreCached is preserved: another GET of the url cannot replace the body,
\* since there is none while this one is in flight.
LEMMA TagsStayCached ==
  ASSUME Invariant, Knowledge, Next
  PROVE  TagsAreCached'
<1> SUFFICES ASSUME destroys' = 0, NEW r \in Callers, request'[r] # NoRequest,
                    request'[r].method = "GET", request'[r].etag # None,
                    request'[r].url \in KeysOf(cache')
             PROVE  LET body == EntryOf(cache', request'[r].url).body
                    IN body = request'[r].etag \/ body.method = "POST"
  BY DEF TagsAreCached, Active, KeysOf, EntryOf, IndexOf
<1>1. CASE ~ Active(r)
  BY <1>1, NewRequestIsKnown
<1>2. CASE Active(r)
  <2> DEFINE url == request[r].url
  <2>1. /\ request[r].method = "GET" /\ request[r].etag # None
        /\ request'[r].url = url /\ request'[r].etag = request[r].etag
    BY <1>2, RunningKeepsCall
  <2>2. destroys = 0
    <3>1. destroys' \in {destroys, destroys + 1} /\ destroys \in Nat
      BY DEF Invariant, Shape, Next, JoinGet, StartGet, StartPost, Admit, ServerAnswers,
             NetworkFails, HookThrows, TimesOut, AttemptThrows, HandleResponse, NotModified,
             ErrorStatus, NoContent, Unparsable, Parsed, RetryDue, Abort, AbortSurfaces,
             ServerUpdates, EntryExpires, Destroy, Done, vars
    <3> QED BY <3>1
  <2>3. KeptOrParsed(url)
    BY <2>1, CacheStep
  <2>4. CASE url \in KeysOf(cache) /\ EntryOf(cache', url).body = EntryOf(cache, url).body
    BY <1>2, <2>1, <2>2, <2>4 DEF Knowledge, TagsAreCached
  <2>5. ASSUME NEW s \in Callers, Parsed(s), url = request[s].url,
               EntryOf(cache', url).body = request[s].reply.text
        PROVE  EntryOf(cache', url).body.method = "POST"
    <3>1. Active(s) /\ request'[s] = NoRequest
      BY <2>5, ActiveByPhase DEF Parsed, Phase, Settle, Invariant, Shape
    <3>2. s # r
      BY <3>1
    <3>3. request[s].method # "GET"
      BY <1>2, <2>1, <2>2, <2>5, <3>1, <3>2 DEF Invariant, RunningIsInFlight
    <3>4. request[s].method = "POST"
      BY <3>1, <3>3 DEF Knowledge, RequestsAreKnown
    <3> QED BY <2>5, <3>4, ParsedIsRepresentation
  <2> QED BY <2>1, <2>3, <2>4, <2>5 DEF KeptOrParsed
<1> QED BY <1>1, <1>2

\* Every step preserves what the client knows.
LEMMA KnowledgeStep ==
  ASSUME Invariant, Knowledge, [Next]_vars
  PROVE  Knowledge'
<1>1. CASE Next
  BY <1>1, VersionsGrow, CacheStep, RequestsStayKnown, AnswersStayKnown, TagsStayCached
     DEF Knowledge
<1>2. CASE UNCHANGED vars
  BY <1>2 DEF vars, Knowledge, CacheIsStore, RequestsAreKnown, AnswersAreKnown,
              TagsAreCached, Active, Phase, Distinct
<1> QED BY <1>1, <1>2

\* What the client knows of the server stays true.
THEOREM KnowledgeHolds == Spec => []Knowledge
<1>1. Init => Knowledge
  BY KnowledgeInit
<1>2. Invariant /\ Knowledge /\ [Next]_vars => Knowledge'
  BY KnowledgeStep
<1> QED BY <1>1, <1>2, InvariantHolds, PTL DEF Spec

\* A request that returns hands its owner a representation it can vouch for.
LEMMA ReturnsAreFresh ==
  ASSUME Invariant, Knowledge, NEW r \in Callers, Active(r), Returns(r),
         destroys = 0, result'[r].data # None, result'[r].data.method = "GET"
  PROVE  result'[r].data.version >= request[r].since
<1>0. \A outcome : Settle(r, outcome) => result'[r] = outcome
  BY DEF Settle, Invariant, OwnersAwait
<1>1. CASE NoContent(r)
  BY <1>0, <1>1 DEF NoContent, Success
<1>2. CASE Parsed(r)
  BY <1>0, <1>2, ParsedIsRepresentation DEF Parsed, Success
<1>3. CASE NotModified(r)
  <2> DEFINE url == request[r].url
             body == EntryOf(cache, url).body
             fresh == url \in KeysOf(cache) /\ ~ EntryOf(cache, url).expired
  <2>1. result'[r].data = IF fresh THEN body ELSE None
    BY <1>0, <1>3 DEF NotModified, Success
  <2>2. Phase(r, "answered") /\ request[r].reply.status = 304
    BY <1>3 DEF NotModified
  <2>3. /\ request[r].method = "GET"
        /\ request[r].etag \in Representations
        /\ request[r].etag.version >= request[r].since
    BY <2>2, ResponsesAssumption DEF Knowledge, AnswersAreKnown
  <2>4. request[r].etag # None
    BY <2>3, ResponsesAssumption DEF Representations
  <2>5. body = request[r].etag \/ body.method = "POST"
    BY <2>1, <2>3, <2>4 DEF Knowledge, TagsAreCached
  <2> QED BY <2>1, <2>3, <2>5
<1> QED BY <1>1, <1>2, <1>3 DEF Returns

\* A request ends by throwing, which has no data, or by returning.
LEMMA EndOfRequest ==
  ASSUME Invariant, Next, NEW r \in Callers, Active(r), request'[r] = NoRequest
  PROVE  \/ \E error : Throws(r, error) /\ result'[r] = Failure(error)
         \/ Returns(r) /\ result'[r].error = None
<1>0. /\ WellFormed(request[r])
      /\ \A outcome : Settle(r, outcome) => result'[r] = outcome
  BY DEF Settle, Invariant, Shape, OwnersAwait
<1>1. CASE \E error : BacksOff(r, error)
  <2>1. PICK error, pause : request'[r] = [request[r] EXCEPT
          !.phase = "backoff", !.reply = None, !.lastError = error, !.pause = pause]
    BY <1>1 DEF BacksOff
  <2> QED BY <1>0, <2>1 DEF WellFormed, NoRequest
<1>2. CASE IsAnswered(r)
  <2>1. PICK reply : request'[r] = [request[r] EXCEPT !.phase = "answered", !.reply = reply]
    BY <1>2 DEF IsAnswered
  <2> QED BY <1>0, <2>1 DEF WellFormed, NoRequest
<1>3. CASE TriesAgain(r)
  <2>1. PICK attempt : request'[r] = [request[r] EXCEPT
          !.phase = "limiter", !.attempt = attempt, !.pause = 0, !.lastError = None]
    BY <1>3 DEF TriesAgain
  <2> QED BY <1>0, <2>1 DEF WellFormed, NoRequest
<1>4. CASE Stays(r) \/ IsAdmitted(r)
  BY <1>0, <1>4 DEF Stays, IsAdmitted, Active, WellFormed, NoRequest
<1>5. CASE \E error : Throws(r, error)
  BY <1>0, <1>5 DEF Throws
<1>6. CASE Returns(r)
  BY <1>0, <1>6 DEF Returns, NotModified, NoContent, Parsed, Success
<1> QED BY <1>1, <1>2, <1>3, <1>4, <1>5, <1>6, StepOfRequest

\* A GET that succeeds returns nothing older than what the server held when it
\* was made, whether the server sent it or a 304 took it from the cache.
THEOREM ResultsAreFresh == Spec => FreshData
<1>1. ASSUME Invariant, Knowledge, Next, NEW r \in Callers, Succeeds(r), destroys = 0,
             result'[r].data # None, result'[r].data.method = "GET"
      PROVE  result'[r].data.version >= request[r].since
  <2>1. Active(r) /\ request'[r] = NoRequest
    BY <1>1 DEF Succeeds
  <2>2. \A error : result'[r] # Failure(error)
    BY <1>1 DEF Failure
  <2>3. Returns(r)
    BY <1>1, <2>1, <2>2, EndOfRequest
  <2> QED BY <1>1, <2>1, <2>3, ReturnsAreFresh
<1>2. Invariant /\ Knowledge /\ [Next]_vars =>
        [\A r \in Callers :
           (Succeeds(r) /\ destroys = 0 /\ result'[r].data # None) =>
             (result'[r].data.method = "GET" =>
                result'[r].data.version >= request[r].since)]_vars
  BY <1>1
<1> QED BY <1>2, InvariantHolds, KnowledgeHolds, PTL DEF Spec, FreshData

----------------------------------------------------------------------------
(* What the attempts of a request are spent on *)

\* The attempts are counted up to MaxRetries, and a request goes to sleep only
\* with an attempt to spare.
AttemptsAreCounted ==
  \A r \in Callers : Active(r) =>
    /\ request[r].attempt \in 0 .. MaxRetries
    /\ request[r].phase = "backoff" => request[r].attempt < MaxRetries

\* A step that keeps a request running starts its next attempt, sends it to
\* sleep, or changes neither the attempt nor the error it sleeps over.
LEMMA AttemptStep ==
  ASSUME Invariant, Next, NEW r \in Callers, Active(r), request'[r] # NoRequest
  PROVE  \/ /\ TriesAgain(r)
            /\ request'[r].attempt = request[r].attempt + 1
            /\ request'[r].phase = "limiter"
         \/ /\ request'[r].attempt = request[r].attempt
            /\ \E error : Retries(r, error) /\ request'[r].lastError = error
         \/ /\ request'[r].attempt = request[r].attempt
            /\ request'[r].phase = "backoff" => Stays(r)
<1>1. WellFormed(request[r]) /\ DOMAIN request = Callers
  BY DEF Invariant, Shape
<1>2. ~ Returns(r) /\ \A error : ~ Throws(r, error)
  BY <1>1 DEF Settle, Throws, Returns, NotModified, NoContent, Parsed
<1>3. CASE \E error : BacksOff(r, error)
  <2>1. PICK error, pause :
          /\ Retries(r, error)
          /\ request'[r] = [request[r] EXCEPT
               !.phase = "backoff", !.reply = None, !.lastError = error, !.pause = pause]
    BY <1>3 DEF BacksOff
  <2> QED BY <1>1, <2>1 DEF WellFormed
<1>4. CASE IsAnswered(r)
  <2>1. PICK reply : request'[r] = [request[r] EXCEPT !.phase = "answered", !.reply = reply]
    BY <1>4 DEF IsAnswered
  <2> QED BY <1>1, <2>1 DEF WellFormed
<1>5. CASE TriesAgain(r)
  <2>1. PICK attempt :
          /\ attempt = request[r].attempt + 1
          /\ request'[r] = [request[r] EXCEPT
               !.phase = "limiter", !.attempt = attempt, !.pause = 0, !.lastError = None]
    BY <1>5 DEF TriesAgain
  <2> QED BY <1>1, <1>5, <2>1 DEF WellFormed
<1>6. CASE Stays(r) \/ IsAdmitted(r)
  BY <1>1, <1>6 DEF Stays, IsAdmitted, WellFormed
<1> QED BY <1>2, <1>3, <1>4, <1>5, <1>6, StepOfRequest

\* AttemptsAreCounted is preserved.
LEMMA AttemptsStayCounted ==
  ASSUME Invariant, AttemptsAreCounted, [Next]_vars
  PROVE  AttemptsAreCounted'
<1> SUFFICES ASSUME Next, NEW r \in Callers, request'[r] # NoRequest
             PROVE  /\ request'[r].attempt \in 0 .. MaxRetries
                    /\ request'[r].phase = "backoff" => request'[r].attempt < MaxRetries
  BY DEF vars, AttemptsAreCounted, Active
<1>0. MaxRetries \in Nat
  BY RetryAssumption
<1>1. CASE ~ Active(r)
  <2>1. PICK url \in Urls : StartGet(r, url) \/ StartPost(r, url)
    BY <1>1, StartOfRequest
  <2>2. request'[r].phase = "limiter" /\ request'[r].attempt = 0
    BY <2>1 DEF StartGet, StartPost, NewRequest, Invariant, Shape
  <2> QED BY <1>0, <2>2
<1>2. CASE Active(r)
  <2>1. /\ request[r].attempt \in 0 .. MaxRetries
        /\ request[r].phase = "backoff" => request[r].attempt < MaxRetries
    BY <1>2 DEF AttemptsAreCounted
  <2>2. CASE /\ TriesAgain(r)
             /\ request'[r].attempt = request[r].attempt + 1
             /\ request'[r].phase = "limiter"
    BY <1>0, <2>1, <2>2 DEF TriesAgain, Phase
  <2>3. ASSUME NEW error, Retries(r, error), request'[r].lastError = error,
               request'[r].attempt = request[r].attempt
        PROVE  request[r].attempt < MaxRetries
    BY <2>3 DEF Retries
  <2>4. CASE Stays(r)
    BY <2>1, <2>4 DEF Stays
  <2> QED BY <1>2, <2>1, <2>2, <2>3, <2>4, AttemptStep
<1> QED BY <1>1, <1>2

\* The counting starts at 0.
THEOREM AttemptsHold == Spec => []AttemptsAreCounted
<1>1. Init => AttemptsAreCounted
  BY DEF Init, AttemptsAreCounted, Active
<1>2. Invariant /\ AttemptsAreCounted /\ [Next]_vars => AttemptsAreCounted'
  BY AttemptsStayCounted
<1> QED BY <1>1, <1>2, InvariantHolds, PTL DEF Spec

----------------------------------------------------------------------------
(* Types *)

\* Every running request is well typed, and one that was answered has a reply.
RequestsAreTyped ==
  /\ destroys \in 0 .. MaxDestroys
  /\ request = [r \in Callers |-> request[r]]
  /\ \A r \in Callers : Active(r) =>
       /\ request[r] \in Requests
       /\ request[r].phase = "answered" => request[r].reply \in Replies

\* The server's replies, and the errors they become, are well typed.
LEMMA RepliesAreTyped ==
  ASSUME Invariant, Knowledge, NEW r \in Callers, Active(r)
  PROVE  GoodReplies(r) \cup ErrorReplies \subseteq Replies
<1>1. ErrorReplies \subseteq Replies
  BY ResponsesAssumption DEF Replies
<1>2. NoHeader \in Headers
  BY DEF NoHeader, Headers
<1>3. /\ version[request[r].url] \in 0 .. MaxVersion
      /\ request[r].method \in {"GET", "POST"}
  BY DEF Invariant, Shape, Knowledge, RequestsAreKnown
<1>4. Representation(request[r].method, version[request[r].url]) \in Representations
  BY <1>3 DEF Representations
<1>5. ASSUME NEW text \in Representations \cup {EmptyBody}, NEW tagged \in BOOLEAN,
             NEW status \in {200, 304}
      PROVE  Reply(status, text, tagged, NoHeader) \in Replies
  BY <1>2 DEF Reply, Replies
<1>6. GoodReplies(r) \subseteq Replies
  <2> DEFINE current == Representation(request[r].method, version[request[r].url])
  <2>1. Reply(304, EmptyBody, TRUE, NoHeader) \in Replies
    BY <1>5
  <2>2. \A tagged \in BOOLEAN : Reply(200, current, tagged, NoHeader) \in Replies
    BY <1>4, <1>5
  <2>3. CASE request[r].method = "GET" /\ request[r].etag = current
    <3>1. GoodReplies(r) = {Reply(304, EmptyBody, TRUE, NoHeader)}
      BY <2>3 DEF GoodReplies
    <3> QED BY <2>1, <3>1
  <2>4. CASE ~ (request[r].method = "GET" /\ request[r].etag = current)
    <3>1. GoodReplies(r) = {Reply(200, current, tagged, NoHeader) : tagged \in BOOLEAN}
      BY <2>4 DEF GoodReplies
    <3> QED BY <2>2, <3>1
  <2> QED BY <2>3, <2>4
<1> QED BY <1>1, <1>6

\* What ends an attempt, wherever it is, is one of the client's errors.
LEMMA ErrorsAreTyped ==
  ASSUME RequestsAreTyped, NEW r \in Callers, Active(r), NEW error, Meets(r, error)
  PROVE  error \in Errors
<1>1. {NetworkError, TimeoutError} \cup HookErrors \subseteq Errors
  BY ResponsesAssumption DEF NetworkError, TimeoutError, Error, Errors
<1>2. ASSUME NEW status \in Nat, NEW header \in Headers
      PROVE  /\ CreateParseError(status) \in Errors
             /\ CreateErrorFromResponse(status, header) \in Errors
  <2>1. RetryAfterOf(header) \in Int \cup {None}
    BY DEF RetryAfterOf, Headers
  <2>2. \A name \in {"HieroValidationError", "HieroNotFoundError", "HieroServerError",
                     "HieroError", "HieroParseError"} :
          Error("response", name, status, None) \in Errors
    BY DEF Error, Errors
  <2>3. \A seconds \in Int \cup {None} :
          Error("response", "HieroRateLimitError", 429, seconds) \in Errors
    BY DEF Error, Errors
  <2> QED BY <2>1, <2>2, <2>3 DEF CreateErrorFromResponse, CreateParseError
<1>3. Phase(r, "answered") =>
        /\ request[r].reply.status \in Nat
        /\ request[r].reply.header \in Headers
  BY DEF Phase, RequestsAreTyped, Replies
<1>4. CASE error \in {NetworkError, TimeoutError} \cup HookErrors
  BY <1>1, <1>4
<1>5. CASE error \notin {NetworkError, TimeoutError} \cup HookErrors
  BY <1>2, <1>3, <1>5 DEF Meets
<1> QED BY <1>4, <1>5

\* A delay is a natural number, whatever the header asked for.
LEMMA DelaysAreNatural ==
  ASSUME NEW attempt \in Nat, NEW retryAfter \in Int \cup {None}, NEW jitter \in 0 .. 100
  PROVE  ComputeRetryDelay(attempt, retryAfter, jitter) \in Nat
<1>1. Power(2, attempt) \in Nat
  BY PowerIsPositive
<1>2. BaseDelay * Power(2, attempt) \in Nat
  <2>1. \A m, n \in Nat : m * n \in Nat
    OBVIOUS
  <2> QED BY <1>1, <2>1, RetryAssumption
<1>3. \A cap \in Nat : (jitter * cap) \div 100 \in Nat
  OBVIOUS
<1>4. \A n \in Int : n > 0 => n * 1000 \in Nat
  OBVIOUS
<1>5. CASE retryAfter # None /\ retryAfter > 0
  BY <1>4, <1>5 DEF ComputeRetryDelay
<1>6. CASE ~ (retryAfter # None /\ retryAfter > 0)
  <2> DEFINE exponential == BaseDelay * Power(2, attempt)
             cap == IF exponential > MaxDelay THEN MaxDelay ELSE exponential
  <2>1. cap \in Nat
    BY <1>2, RetryAssumption
  <2>2. ComputeRetryDelay(attempt, retryAfter, jitter) = (jitter * cap) \div 100
    BY <1>6 DEF ComputeRetryDelay
  <2> HIDE DEF cap
  <2> QED BY <1>3, <2>1, <2>2
<1> QED BY <1>5, <1>6

\* The requests stay a function of the callers.
LEMMA RequestsStayAFunction ==
  ASSUME request = [r \in Callers |-> request[r]], Next
  PROVE  request' = [r \in Callers |-> request'[r]]
<1>1. ASSUME NEW s, NEW q, request' = [request EXCEPT ![s] = q]
      PROVE  request' = [r \in Callers |-> request'[r]]
  <2>1. request' = [r \in Callers |-> IF r = s THEN q ELSE request[r]]
    BY <1>1
  <2> QED BY <2>1
<1>2. CASE request' = request
  BY <1>2
<1>3. ASSUME NEW s \in Callers, NEW error, Fail(s, error)
      PROVE  request' = [r \in Callers |-> request'[r]]
  <2>1. CASE Retries(s, error)
    <3>1. PICK pause : request' = [request EXCEPT
            ![s].phase = "backoff", ![s].reply = None,
            ![s].lastError = error, ![s].pause = pause]
      BY <1>3, <2>1 DEF Fail
    <3>2. request' = [request EXCEPT ![s] = [request[s] EXCEPT
            !.phase = "backoff", !.reply = None, !.lastError = error, !.pause = pause]]
      BY <3>1
    <3> QED BY <1>1, <3>2
  <2>2. CASE ~ Retries(s, error)
    BY <1>1, <1>3, <2>2 DEF Fail, Settle
  <2> QED BY <2>1, <2>2
<1>4. ASSUME NEW s \in Callers, Admit(s) \/ ServerAnswers(s) \/ RetryDue(s)
      PROVE  request' = [r \in Callers |-> request'[r]]
  <2>1. CASE Admit(s)
    <3>1. request' = [request EXCEPT ![s] = [request[s] EXCEPT !.phase = "sending"]]
      BY <2>1 DEF Admit
    <3> QED BY <1>1, <3>1
  <2>2. CASE ServerAnswers(s)
    <3>1. PICK reply : request' =
            [request EXCEPT ![s].phase = "answered", ![s].reply = reply]
      BY <2>2 DEF ServerAnswers
    <3>2. request' = [request EXCEPT ![s] =
            [request[s] EXCEPT !.phase = "answered", !.reply = reply]]
      BY <3>1
    <3> QED BY <1>1, <3>2
  <2>3. CASE RetryDue(s)
    <3>1. PICK attempt : request' = [request EXCEPT
            ![s].phase = "limiter", ![s].attempt = attempt, ![s].pause = 0,
            ![s].lastError = None]
      BY <2>3 DEF RetryDue
    <3>2. request' = [request EXCEPT ![s] = [request[s] EXCEPT
            !.phase = "limiter", !.attempt = attempt, !.pause = 0, !.lastError = None]]
      BY <3>1
    <3> QED BY <1>1, <3>2
  <2> QED BY <1>4, <2>1, <2>2, <2>3
<1>5. ASSUME NEW s \in Callers,
             \/ \E url \in Urls : StartGet(s, url) \/ StartPost(s, url)
             \/ HandleResponse(s) \/ NetworkFails(s) \/ HookThrows(s) \/ TimesOut(s)
             \/ Abort(s) \/ AbortSurfaces(s)
      PROVE  request' = [r \in Callers |-> request'[r]]
  BY <1>1, <1>2, <1>3, <1>5
     DEF StartGet, StartPost, HandleResponse, NotModified, ErrorStatus, NoContent, Unparsable,
         Parsed, NetworkFails, HookThrows, TimesOut, AttemptThrows, Abort, AbortSurfaces, Settle
<1> QED
  BY <1>2, <1>4, <1>5
     DEF Next, JoinGet, ServerUpdates, EntryExpires, Destroy, Done, vars

\* RequestsAreTyped is preserved.
LEMMA RequestsStayTyped ==
  ASSUME Invariant, Knowledge, AttemptsAreCounted, AttemptsAreCounted', RequestsAreTyped,
         [Next]_vars
  PROVE  RequestsAreTyped'
<1>1. CASE UNCHANGED vars
  BY <1>1 DEF vars, RequestsAreTyped, Active, Requests, Replies, Representations
<1>2. ASSUME Next
      PROVE  destroys' \in 0 .. MaxDestroys
  <2>1. CASE destroys' = destroys
    BY <2>1 DEF RequestsAreTyped
  <2>2. CASE Destroy
    BY <2>2, HttpAssumption DEF RequestsAreTyped, Destroy
  <2> QED
    BY <1>2, <2>1, <2>2
       DEF Next, JoinGet, StartGet, StartPost, Admit, ServerAnswers, NetworkFails, HookThrows,
           TimesOut, AttemptThrows, HandleResponse, NotModified, ErrorStatus, NoContent,
           Unparsable, Parsed, RetryDue, Abort, AbortSurfaces, ServerUpdates, EntryExpires,
           Done, vars
<1>3. ASSUME Next, NEW r \in Callers, request'[r] # NoRequest
      PROVE  /\ request'[r] \in Requests
             /\ request'[r].phase = "answered" => request'[r].reply \in Replies
  <2>1. CASE ~ Active(r)
    <3>1. PICK url \in Urls : StartGet(r, url) \/ StartPost(r, url)
      BY <1>3, <2>1, StartOfRequest
    <3>2. PICK method, etag :
            method \in {"GET", "POST"} /\ request'[r] = NewRequest(method, url, etag)
      BY <3>1 DEF StartGet, StartPost, Invariant, Shape
    <3>3. etag \in Representations \cup {None}
      <4>1. request'[r].etag = etag
        BY <3>2 DEF NewRequest
      <4> QED BY <1>3, <2>1, <4>1, NewRequestIsKnown
    <3>4. version[url] \in 0 .. MaxVersion /\ 0 \in 0 .. MaxRetries
      BY RetryAssumption DEF Knowledge
    <3> QED BY <3>2, <3>3, <3>4 DEF NewRequest, Requests
  <2>2. CASE Active(r)
    <3>1. /\ request[r] \in Requests
          /\ request[r].phase = "answered" => request[r].reply \in Replies
      BY <2>2 DEF RequestsAreTyped
    <3>2. CASE Stays(r)
      BY <3>1, <3>2 DEF Stays
    <3>3. CASE IsAdmitted(r)
      BY <3>1, <3>3 DEF IsAdmitted, Requests
    <3>4. CASE IsAnswered(r)
      <4>1. PICK reply \in GoodReplies(r) \cup ErrorReplies :
              request'[r] = [request[r] EXCEPT !.phase = "answered", !.reply = reply]
        BY <3>4 DEF IsAnswered
      <4>2. reply \in Replies
        BY <2>2, <4>1, RepliesAreTyped
      <4>3. PICK known \in Replies :
              request'[r] = [request[r] EXCEPT !.phase = "answered", !.reply = known]
        BY <4>1, <4>2
      <4>4. request'[r] \in Requests
        BY <3>1, <4>3 DEF Requests
      <4>5. request'[r].reply = known
        BY <3>1, <4>3 DEF Requests
      <4> QED BY <4>4, <4>5
    <3>5. ASSUME NEW error, BacksOff(r, error)
          PROVE  /\ request'[r] \in Requests
                 /\ request'[r].phase = "answered" => request'[r].reply \in Replies
      <4>1. error \in Errors
        BY <2>2, <3>5, ErrorsAreTyped DEF BacksOff
      <4>2. PICK jitter \in Jitters : request'[r] = [request[r] EXCEPT
              !.phase = "backoff", !.reply = None, !.lastError = error,
              !.pause = ComputeRetryDelay(request[r].attempt, error.retryAfter, jitter)]
        BY <3>5 DEF BacksOff
      <4>3. ComputeRetryDelay(request[r].attempt, error.retryAfter, jitter) \in Nat
        <5>1. /\ request[r].attempt \in Nat /\ error.retryAfter \in Int \cup {None}
              /\ jitter \in 0 .. 100
          BY <3>1, <4>1, ResponsesAssumption, RetryAssumption DEF Requests, Errors
        <5> QED BY <5>1, DelaysAreNatural
      <4>4. PICK pause \in Nat : request'[r] = [request[r] EXCEPT
              !.phase = "backoff", !.reply = None, !.lastError = error, !.pause = pause]
        BY <4>2, <4>3
      <4> QED BY <3>1, <4>1, <4>4 DEF Requests
    <3>6. CASE TriesAgain(r)
      <4>1. PICK attempt :
              /\ attempt = request[r].attempt + 1
              /\ request'[r] = [request[r] EXCEPT
                   !.phase = "limiter", !.attempt = attempt, !.pause = 0, !.lastError = None]
        BY <3>6 DEF TriesAgain
      <4>2. attempt \in 0 .. MaxRetries
        BY <2>2, <3>6, <4>1, RetryAssumption
           DEF TriesAgain, Phase, AttemptsAreCounted
      <4>3. PICK next \in 0 .. MaxRetries, pause \in Nat, error \in Errors \cup {None} :
              request'[r] = [request[r] EXCEPT
                !.phase = "limiter", !.attempt = next, !.pause = pause, !.lastError = error]
        BY <4>1, <4>2
      <4>4. request'[r] \in Requests
        BY <3>1, <4>3 DEF Requests
      <4>5. request'[r].phase = "limiter"
        BY <3>1, <4>3 DEF Requests
      <4> QED BY <4>4, <4>5
    <3>7. ~ Returns(r) /\ \A error : ~ Throws(r, error)
      BY <1>3 DEF Settle, Throws, Returns, NotModified, NoContent, Parsed, Invariant, Shape
    <3> QED BY <1>3, <2>2, <3>2, <3>3, <3>4, <3>5, <3>6, <3>7, StepOfRequest
  <2> QED BY <2>1, <2>2
<1>4. CASE Next
  BY <1>2, <1>3, <1>4, RequestsStayAFunction
     DEF RequestsAreTyped, Active, Requests, Replies, Representations
<1> QED BY <1>1, <1>4

\* RequestsAreTyped holds of every reachable state.
THEOREM RequestTypesHold == Spec => []RequestsAreTyped
<1>1. Init => RequestsAreTyped
  BY HttpAssumption DEF Init, RequestsAreTyped, Active
<1>2. Invariant /\ Knowledge /\ AttemptsAreCounted /\ RequestsAreTyped /\ [Next]_vars
        => RequestsAreTyped'
  BY RequestsStayTyped, AttemptsStayCounted
<1> QED BY <1>1, <1>2, InvariantHolds, KnowledgeHolds, AttemptsHold, PTL DEF Spec

\* The client's state is well typed, the cache within its capacity, and no
\* request makes more than MaxRetries + 1 attempts.
THEOREM TypeCorrect == Spec => []TypeOK
<1>1. Invariant /\ Knowledge /\ RequestsAreTyped => TypeOK
  <2> SUFFICES ASSUME Invariant, Knowledge, RequestsAreTyped PROVE TypeOK
    OBVIOUS
  <2>1. request \in [Callers -> Requests \cup {NoRequest}]
    <3>1. \A r \in Callers : request[r] \in Requests \cup {NoRequest}
      BY DEF RequestsAreTyped, Active
    <3>2. request = [r \in Callers |-> request[r]]
      BY DEF RequestsAreTyped
    <3> QED BY <3>1, <3>2
  <2>2. cache \in Seq([key : Urls, etag : Representations, body : Representations,
                        expired : BOOLEAN])
    <3>1. /\ cache \in Seq(CacheEntries)
          /\ CacheEntries \subseteq [key : Urls, etag : Representations,
                                     body : Representations, expired : BOOLEAN]
      BY DEF Knowledge, CacheIsStore, CacheEntries
    <3>2. \A S, T : S \subseteq T => Seq(S) \subseteq Seq(T)
      OBVIOUS
    <3> QED BY <3>1, <3>2
  <2> QED BY <2>1, <2>2 DEF TypeOK, Invariant, Shape, Knowledge, CacheIsStore, RequestsAreTyped
<1> QED BY <1>1, InvariantHolds, KnowledgeHolds, RequestTypesHold, PTL DEF Spec

----------------------------------------------------------------------------
(* What the attempts of a request are spent on, seen from the server *)

\* An error says where it comes from: one of a response has its status, and
\* nothing else is an error of fetch than a network failure.
LEMMA ErrorsHaveTheirCause ==
  ASSUME RequestsAreTyped, NEW r \in Callers, Active(r), NEW error, Meets(r, error)
  PROVE  /\ error.cause \in {"response", "fetch", "hook", "timeout"}
         /\ error.cause = "fetch" => error = NetworkError
         /\ error.cause = "timeout" => error = TimeoutError
         /\ error.cause = "response" =>
              /\ request[r].reply.status \in Nat
              /\ error.statusCode = request[r].reply.status
              /\ error.name \notin {"TypeError", "HieroTimeoutError"}
<1>1. CASE error \in {NetworkError, TimeoutError} \cup HookErrors
  BY <1>1, ResponsesAssumption DEF NetworkError, TimeoutError, Error
<1>2. CASE error \notin {NetworkError, TimeoutError} \cup HookErrors
  <2> DEFINE status == request[r].reply.status
             header == request[r].reply.header
  <2>1. status \in Nat
    BY <1>2 DEF Meets, Phase, RequestsAreTyped, Replies
  <2>2. error \in {CreateErrorFromResponse(status, header), CreateParseError(status)}
    BY <1>2 DEF Meets
  <2> HIDE DEF status, header
  <2>3. /\ error.cause = "response"
        /\ error.statusCode = status
        /\ error.name \notin {"TypeError", "HieroTimeoutError"}
    BY <2>1, <2>2 DEF CreateErrorFromResponse, CreateParseError, Error
  <2> QED BY <2>1, <2>3 DEF status
<1> QED BY <1>1, <1>2

\* An attempt that ends and is followed by another one met an error that is
\* retried, and one that is not followed by another one threw the error.
LEMMA FailureIsOneOf ==
  ASSUME Invariant, Next, NEW r \in Callers, AttemptFails(r)
  PROVE  /\ AnotherFollows(r) => BacksOff(r, ErrorMet(r))
         /\ ~ AnotherFollows(r) => Throws(r, ErrorMet(r))
<1>1. Active(r) /\ WellFormed(request[r]) /\ DOMAIN request = Callers
  BY DEF AttemptFails, Invariant, Shape
<1>2. ASSUME ~ AnotherFollows(r)
      PROVE  Throws(r, ErrorMet(r))
  <2>1. request'[r] = NoRequest /\ result'[r].error # None
    BY <1>2 DEF AnotherFollows, AttemptFails
  <2>2. PICK error : Throws(r, error) /\ result'[r] = Failure(error)
    BY <1>1, <2>1, EndOfRequest
  <2>3. ErrorMet(r) = error
    BY <1>2, <2>2 DEF ErrorMet, Failure
  <2> QED BY <2>2, <2>3
<1>3. ASSUME AnotherFollows(r)
      PROVE  BacksOff(r, ErrorMet(r))
  <2>1. request[r].phase # "backoff" /\ request'[r].phase = "backoff"
    BY <1>3 DEF AnotherFollows, AttemptFails, Phase
  <2>2. ~ Stays(r) /\ ~ IsAdmitted(r) /\ ~ TriesAgain(r)
    BY <1>1, <2>1 DEF Stays, IsAdmitted, TriesAgain, Phase, WellFormed
  <2>3. ~ IsAnswered(r)
    <3>1. ASSUME NEW reply,
                 request'[r] = [request[r] EXCEPT !.phase = "answered", !.reply = reply]
          PROVE  FALSE
      BY <1>1, <2>1, <3>1 DEF WellFormed
    <3> QED BY <3>1 DEF IsAnswered
  <2>4. ~ Returns(r) /\ \A error : ~ Throws(r, error)
    BY <1>1, <1>3 DEF AnotherFollows, Settle, Throws, Returns, NotModified, NoContent, Parsed
  <2>5. PICK error : BacksOff(r, error)
    BY <1>1, <2>2, <2>3, <2>4, StepOfRequest
  <2>6. PICK pause : request'[r] = [request[r] EXCEPT
          !.phase = "backoff", !.reply = None, !.lastError = error, !.pause = pause]
    BY <2>5 DEF BacksOff
  <2>7. request'[r].lastError = error
    BY <1>1, <2>6 DEF WellFormed
  <2>8. ErrorMet(r) = error
    BY <1>3, <2>7 DEF ErrorMet
  <2> QED BY <2>5, <2>8
<1> QED BY <1>2, <1>3

\* While attempts are left and the signal is not aborted, a request is made again
\* when the server was in trouble, and otherwise only for a hook's error that
\* looks like it.
THEOREM AttemptsAreSpentWell == Spec => RetriesAreSpentOnTransientFailures
<1>1. ASSUME Invariant, RequestsAreTyped, Next, NEW r \in Callers, AttemptFails(r),
             ServerWasInTrouble(r), ~ aborted[r], request[r].attempt < MaxRetries,
             ~ AnotherFollows(r)
      PROVE  FALSE
  <2> DEFINE error == ErrorMet(r)
  <2>1. Throws(r, error)
    BY <1>1, FailureIsOneOf
  <2>2. error.cause \in {"fetch", "response"}
    BY <1>1 DEF ServerWasInTrouble
  <2>3. error # AbortError
    BY <2>2 DEF AbortError, Error
  <2>4. Meets(r, error) /\ ~ Retries(r, error)
    BY <2>1, <2>3 DEF Throws
  <2>5. Active(r)
    BY <1>1 DEF AttemptFails
  <2>6. CASE error.cause = "fetch"
    <3>1. error = NetworkError
      BY <2>4, <2>5, <2>6, <1>1, ErrorsHaveTheirCause
    <3> QED BY <1>1, <2>4, <3>1
            DEF Retries, IsRetryable, IsRetryableError, NetworkError, Error
  <2>7. CASE error.cause = "response"
    <3>1. /\ request[r].reply.status \in Nat
          /\ error.statusCode = request[r].reply.status
          /\ error.name # "HieroTimeoutError"
      BY <2>4, <2>5, <2>7, <1>1, ErrorsHaveTheirCause
    <3>2. request[r].reply.status = 429 \/ request[r].reply.status >= 500
      BY <1>1, <2>7 DEF ServerWasInTrouble
    <3>3. IsRetryableStatus(error.statusCode)
      BY <3>1, <3>2, RetryAssumption DEF IsRetryableStatus
    <3> QED BY <1>1, <2>4, <3>1, <3>3 DEF Retries, IsRetryable
  <2> QED BY <2>2, <2>6, <2>7
<1>2. ASSUME Invariant, RequestsAreTyped, Next, NEW r \in Callers, AttemptFails(r),
             AnotherFollows(r), ~ ServerWasInTrouble(r)
      PROVE  /\ ErrorMet(r).cause = "hook"
             /\ ErrorMet(r).name = "TypeError" \/ ErrorMet(r).statusCode # None
  <2> DEFINE error == ErrorMet(r)
  <2>1. Meets(r, error) /\ Retries(r, error)
    BY <1>2, FailureIsOneOf DEF BacksOff
  <2>2. Active(r)
    BY <1>2 DEF AttemptFails
  <2>3. error.name # "HieroTimeoutError" /\ IsRetryable(error)
    BY <2>1 DEF Retries
  <2>4. error.name = "TypeError" \/ IsRetryableStatus(error.statusCode)
    BY <2>3 DEF IsRetryable, IsRetryableError
  <2>5. error.cause # "fetch"
    BY <1>2 DEF ServerWasInTrouble
  <2>6. error.cause # "timeout"
    BY <1>2, <2>1, <2>2, <2>3, ErrorsHaveTheirCause DEF TimeoutError, Error
  <2>7. error.cause # "response"
    <3>1. SUFFICES ASSUME error.cause = "response" PROVE FALSE
      OBVIOUS
    <3>2. /\ error.statusCode = request[r].reply.status
          /\ error.name # "TypeError"
      BY <1>2, <2>1, <2>2, <3>1, ErrorsHaveTheirCause
    <3> QED BY <1>2, <2>4, <3>1, <3>2 DEF IsRetryableStatus, ServerWasInTrouble
  <2>8. error.cause \in {"response", "fetch", "hook", "timeout"}
    BY <1>2, <2>1, <2>2, ErrorsHaveTheirCause
  <2> QED BY <2>4, <2>5, <2>6, <2>7, <2>8 DEF IsRetryableStatus
<1>3. Invariant /\ RequestsAreTyped /\ [Next]_vars =>
        [\A r \in Callers : AttemptFails(r) =>
           /\ (ServerWasInTrouble(r) /\ ~ aborted[r] /\ request[r].attempt < MaxRetries) =>
                AnotherFollows(r)
           /\ AnotherFollows(r) =>
                \/ ServerWasInTrouble(r)
                \/ /\ ErrorMet(r).cause = "hook"
                   /\ ErrorMet(r).name = "TypeError" \/ ErrorMet(r).statusCode # None]_vars
  BY <1>1, <1>2
<1> QED BY <1>3, InvariantHolds, RequestTypesHold, PTL
        DEF Spec, RetriesAreSpentOnTransientFailures

=============================================================================
