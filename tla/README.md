# A verification of hiero-mirror-client

TLA+ models of the TypeScript client for the Hedera / Hiero mirror node REST
API, model-checked with TLC and, for the parts named below, proved with TLAPS.
Paths are relative to the repository.

## 1. The system

Every method of the client ends in one `HttpClient`; everything that keeps
state or waits hangs on it.

```
 resources/*  ──get/post──►  HttpClient  ──acquire()──►  RateLimiter
 Paginator    ──get───────►     │  │
 TopicStream  ──get───────►     │  └──getETag/getCachedBody/set──►  ETagCache
 waitFor      ──get───────►     │
 waitForExecution               └──fetch──►  mirror node
```

| Component | State | Operations | Hard behaviours | What makes it correct |
|---|---|---|---|---|
| `http/rate-limiter.ts` | tokens, time of the last refill, one timer per waiter | `acquire`, its timer and abort callbacks, `availableTokens` | waiters share one counter and there is no queue | overdraft and burst are bounded, nobody is overtaken, everyone settles |
| `http/etag-cache.ts` | an insertion-ordered Map with creation times | `getETag`, `getCachedBody`, `set`, `delete`, `clear` | eviction order, entries that expired but are still there | it is an LRU cache with a time-to-live |
| `http/client.ts` with `http/retry.ts`, `errors/factory.ts` | requests in flight by url, the cache, the progress of each request | `get`, `post`, the attempt loop, `handleResponse`, `destroy` | callers sharing a promise; abort, timeout, expiry and destroy between two awaits; a 304 against a cache that changed | one request per url, no stale data, failures of server and network retried, nothing retried after abort, every call settles |
| `pagination/stream.ts` | cursor, page being handed out, poll interval | polling, handing out, back-off, abort | errors in the middle of a page, cancelling anywhere | every message once, in order, without gaps; cancelling ends the stream |
| `pagination/paginator.ts` | next path | `then`, `pages`, item iteration | where the next link comes from, a response without it, cycles | the items are those of the linked pages, in order |
| `resources/transactions.ts` `waitFor` | start time | poll, sleep | timeout against a slow poll, abort | it returns the transaction or fails, in bounded time |
| `helpers/scheduled-transactions.ts` | start time | poll, sleep | a snapshot that lags behind consensus, judged by the local clock | the reported end state is the real one |
| `http/url-builder.ts`, `http/json-parser.ts`, `utils/*`, `validation/*` | none | pure functions | 2^53 boundaries, signs, trailing zeros, incomplete base64 groups | agreement with a reference definition |
| `resources/*`, `mcp/tool-descriptors.ts` | none | one request per method or tool | ids that a path gives a meaning to, many forms of parameters | the mirror node is asked for what the caller asked for |
| `mappers/*` | none | one per kind of object | every missing field is defaulted; integers arrive as numbers or strings | the result says what was answered |
| `client.ts`, `errors/*`, `types/*` | none of their own | building options, storing fields | — | — |

The program is single-threaded JavaScript: an interleaving is a choice of which
callback or continuation runs next. The models therefore treat everything
between two `await`s as one step, and everything that can happen at an `await`
(a response, a timer, an abort, another caller's code) as a step of its own.

## 2. Modules

| Module | Models | Role |
|---|---|---|
| `RateLimiter` | `http/rate-limiter.ts` | component |
| `RateLimiterProofs` | | its theorems |
| `ETagStore` | the Map in `http/etag-cache.ts` | operators shared by `ETagCache` and `HttpClient` |
| `LruCache` | | abstract specification of the cache |
| `ETagCache` | `http/etag-cache.ts` | component; implements `LruCache` |
| `ETagCacheProofs` | | its theorems |
| `OperatorProofs` | | lemmas about `ETagStore`, recursion, powers and division |
| `Powers` | `**` | operators |
| `RetryPolicy` | `http/retry.ts`, `errors/factory.ts` | operators |
| `HttpClient` | `http/client.ts` | component; composes `RetryPolicy` and `ETagStore` |
| `HttpClientProofs` | | its theorems |
| `TopicFeed` | | abstract specification of a subscription |
| `TopicStream` | `pagination/stream.ts` | component; implements `TopicFeed` |
| `TopicStreamProofs` | | its theorems |
| `Paginator` | `pagination/paginator.ts` | component |
| `PaginatorProofs` | | its theorems |
| `Pollers` | `waitFor` in `resources/transactions.ts`, `waitForExecution` in `helpers/scheduled-transactions.ts` | component |
| `PollersProofs` | | its theorems |
| `Amounts` | `http/json-parser.ts`, `utils/hbar.ts`, `str` and `num` of `mappers/common.ts` | operators |
| `Timestamps` | `utils/timestamp.ts`, `validation/timestamp.ts` | operators |
| `UrlPaths` | the cleaning of paths in `http/url-builder.ts` | operators |
| `Encodings` | `utils/encoding.ts`, the decoders of `mappers/common.ts` | operators |
| `Identifiers` | `validation/*` but for timestamps | operators |
| `Conversions` | a program that chains these | composes the five |
| `ConversionsProofs` | | its theorems, as a part of `ClientCalls`, and those about `ClientCalls`, `UrlPaths` and `Identifiers` |
| `Requests` | `resources/*`, `mcp/tool-descriptors.ts`, the query and the length limit of `http/url-builder.ts` | tables and operators |
| `Replies` | `mappers/*` | tables and operators |
| `MirrorApi` | the endpoints and schemas of `openapi.yml` | external |
| `ClientCalls` | a call on its way to the mirror node and back | composes `Requests`, `MirrorApi`, `Replies`; adds its steps to `Conversions` |
| `MC*` | | instances for TLC |

Operators named *Mutant* in their comment are plausible mistakes in the
definition that follows them. They are part of no specification; replacing the
definition by its mutant must break the property PROJECT.json pairs it with.

### RateLimiter

The code counts fractional tokens in floating point. The model counts units of
`1/MsPerSecond` token, so one tick of the clock refills `Rps` units, a request
costs `MsPerSecond` units, and all arithmetic is exact. `acquire()` is three
actions for its three ways out of the synchronous part (`AcquireNow`,
`AcquireWait`, `AcquireAborted`); `TimerFires` is the `setTimeout` callback and
`AbortWait` the abort listener. A timer may run late, never early. The clock
does not step back. `grants` is a history of the ticks at which `acquire()`
resolved. Rounding errors of the floating-point counter are not modelled.

### ETagStore, ETagCache, LruCache

A Map that iterates in insertion order is a sequence of entries. `getEntry` is
three actions for its three exits; `set` is `Put`: delete the key's entry, make
room, insert. A url is a key with 0 or 1 trailing slash, which is what
`normalizeKey` tells apart. Two histories serve the properties: `latest`,
what was last stored under each key, and `usedSince`, the keys used after each
key's last use. `LruCache` knows no sequence: it has a function of
entries and a relation "was used after". The refinement mapping reads the
relation off the positions.

### RetryPolicy, HttpClient

Each caller makes one call. The promise that `request()` returns is named by
its owner, the caller whose `get()` created it; a caller that joins awaits its
owner. A request is in one of four phases: `limiter` (awaiting
`rateLimiter.acquire`), `sending` (hooks and `fetch`), `answered` (after-hooks
and the reading of the body), `backoff` (`sleep`). `HandleResponse` is the
synchronous rest of `handleResponse` after the body is read, one action per way
out. Everything that ends an attempt goes through `Fail`, the outer `catch`:
sleep and try again, or `Settle`.

Abstractions: what a response carries is a representation (method and version,
which is its ETag as well), a JSON error object, text that is not JSON, or
nothing. Urls are compared, not built. The settling of the owner's promise, the
`finally` of `get()` and the wake-up of the joiners, which are consecutive
microtasks in the code, are one step. The limiter is an await that lets the
request through in the end, which is what `RateLimiter` shows. A cache entry may
expire at any moment. A hook may throw any of `HookErrors`, among them a
`TypeError` and errors with a `statusCode`. The attempt loop judges an error by its
class and its `statusCode` only; where it came from, its `cause`, is kept in the
model for the properties and looked at by no action.

### TopicStream, TopicFeed

A message is its position in the topic, which is also its timestamp: the query
`gt:cursor` with ascending order and a limit is the run of positions after the
cursor. A message is good, or one on which `mapTopicMessage` throws. `Hand` is
the body of the `for` loop from one `yield` to the next; `Caught` is the `catch`
clause, which a failing poll and an unreadable message both reach. The
intervals are the code's, in whole milliseconds.

### Paginator

The mirror node's list is the items 1, 2, ..., and it may grow. A path stands
for a page by the number of items before it, so that a link is a number and the
initial path is 0. `GetResolves` is what follows the `await` of `get()`, one
operator for each way a paginator is used (`await`, `for await` over `pages()`
or over the items); the consumer then holds the page or item until `Resume` or
`Leave`. `HttpClient` is external: a response is fresh, or a 304 with the body
cached for the path or with `null`, which `createPageExtractor` makes an empty
page of, and with or without the `Link` header. `cutShort` records that a walk
met a 304 that hid items or the only link.

### Pollers

One module for both loops, because the check of the signal, the poll, the check
of the timeout and the sleep are the same; `target` says which loop runs, and
`TransactionAnswered` and `ScheduleAnswered` are what tells them apart.
Consensus and ingestion are external and free to take any time: `truth` is what
consensus decided, `mirror` what the mirror node has ingested. The clock counts
ticks from `startTime`. Timers are on time, and `MaxPoll` bounds a poll with all
its retries; a loop's lateness is measured against these two. A poll may be
answered with `null` (a 304 whose body was evicted), but not twice in a row: the
cache then has no ETag for the url and the next GET is unconditional.

### Amounts, Timestamps, UrlPaths, Encodings, Identifiers, Conversions

The pure functions are operators; `Conversions` is a program that holds a value
and applies whichever of them fits its form, for as long as it likes, while
`meant` remembers what the value stands for. A decimal string is a record: sign,
whole part, and fraction with the number of its digits, which is what padding
and stripping zeros depend on. Widths are constants: the mantissa of a number,
the decimal places of an hbar, the digits of a second that a Date and a timestamp
tell apart. A path is a sequence of slashes, colons, null bytes and names.
`meant` is changed only where the code documents a loss, the nanoseconds that a
Date cannot hold.

Hex, base64 and bytes are made of the same pairs of bits: two to a hex digit,
three to a base64 symbol, four to a byte. How many values a pair has is a
constant. Each base64 step may run in a host with `atob` and `btoa`, which work
on the pairs, or in one without, where the code's own arithmetic does. `atob`
throws where `AtobThrows` says, and the chain ends there as `refused`. Of an
identifier the model keeps what its pattern tells apart: fields, whether they have
zeros in front, and separators; or prefix, length and case; or the digits that a
text of a number begins with and whether more follows. `parseInt` rounds these as
`ToNumber` does. What spellings stand for is said without the code: a
path starts as a clean one and is respelled token by token (`Respellings`), and
`Denoted` is what an identifier is in the terms of Hedera and of the validators'
documentation, whether or not their code takes it.

### Requests, Replies, MirrorApi, ClientCalls

A resource method is a row of a table: verb, segments of the path, whether it
passes parameters on, the key it takes its items from, and its mapper. A tool is
a row that says which input becomes an argument and which a filter. A mapper is
a function from the fields of its result to how each is read (`strReq`, `num`,
`mapKey`, ...), as the code's object literals are. `MirrorApi` is the other
side, written from `openapi.yml` and not from the client: which endpoint serves
a path, and which fields of which type its objects have.

`ClientCalls` sends every method and every tool on its way. `CallTool` makes the
call, `Send` builds the request with `Requests!Request`, or rejects it when it is
too long. The request is then routed as a mirror node would, by splitting its path
at the slashes, so that `Answer` hands the mapper objects of the endpoint that
was really reached, or none when the items are under another key. `ReadPart` goes from an
object to an object in it, `ReadField` reads one field, of which the mirror node
may send any value, `null`, or nothing. `Promises` is what the descriptors say
in their names and schemas, independently of what `execute` does; a filter that
only a description speaks of is not among them.

Arguments are any texts, also where a method puts them into the path unescaped.
Parameters are of every kind that the public types or `buildUrl` know: missing,
empty, plain, `{ operator, value }`, arrays of these and of plain values, and the
`OperatorFilter` of `types/common.ts`, an object with a value for each operator.

`ClientCalls` ends with what the tables of the two sides have to do with each
other: `AsksItsEndpoint`, `KeepsItsPromise` and `EndpointsDiffer` are facts about
rows, and `TablesAgree`, an ASSUME without constants, says that they hold of all.
`MappersAgree` does the same for the way back: `ObjectsRead` is every pair of a
mapper and a schema that an answer leads to, closed under parts, and in each of
them the mapper reads what is sent in a way that `Tells` all that a
field of its kind may hold.

Left out: characters other than those that a path or an alphabet gives a meaning
to, so that a `?` or `#` in an unescaped argument is part of its path, and `.` and
`..` are names like others; ids that are empty or a word of the api's own paths, and
ids that contain an escape sequence as one token; `String()` of an object where text is
expected. What a message or an error decodes to is told by its text; the
decoding itself is in `Conversions`.

## 3. What the runs check

| Run | Instance | Shows |
|---|---|---|
| `rate_limiter` | 3 callers, 2 tokens, 3 ticks a second, acquires until tick 5 | the limiter's properties below |
| `rate_limiter_debt` | 2 callers, a waiter and a newcomer | finding 1 |
| `etag_cache` | 3 keys, 2 values, capacity 2, time-to-live 1, 3 ticks | the cache's properties and that it implements `LruCache` |
| `http_sharing` | 3 callers, 1 url, cache of 1, 1 retry, 2 server versions, 1 destroy | sharing and freshness |
| `http_attempts` | 2 callers, 5 kinds of bad response, 5 kinds of hook error, 2 retries | retries, abort, liveness |
| `http_not_modified` | 3 callers | finding 2 |
| `http_retry_after` | 1 caller | finding 3 |
| `topic_stream` | 1 old and up to 5 new messages, pages of 3 | delivery, cancelling, that it implements `TopicFeed` |
| `paginator` | 2 walks, up to 4 items, pages of 2 | order, completeness and end of a walk |
| `pollers` | interval 2, timeout 12, polls of up to 2 ticks | truth and timing of what the pollers report |
| `schedule_expired` | the same | finding 4 |
| `conversions` | numbers of 5 bits, hbars of 100 tinybars, 10 ms in a second, 10 ns in a ms; amounts to ±260, timestamps with up to 3 digits, Dates around 1970, paths of 2 names with up to 3 tokens too many; bytes of 4 bits, up to 4 of them; identifiers of every shape; every method and tool with 7 texts for each id and 9 values for each of 2 parameters; every field of every answer | that conversions keep values, requests say what was asked, results what was answered |

**RateLimiter.** `DebtBounded`: the bucket is overdrawn by at most one token
per other caller. `WindowConformance`: between any two grants there are no more
grants than burst, refill and that debt allow. `NoOvertaking`: until a waiter's
timer is due, no newcomer finds a token. `EveryWaiterSettles`.

**ETagCache.** `RepliesAreCurrent`: a lookup answers with what was last stored
for the url and is young enough. `RecentKeysAreRetained`: a young key is not
lost before `MaxSize` other keys have been used. `ImplementsLru`.

**HttpClient.** `PromisesAreRunning`: whoever awaits a promise, or would join
one now, awaits one whose request is running. `SingleFlight`: one running GET
per url. `FreshData`: a GET returns nothing older than what the server held
when the request was made. The last two are claimed until `destroy()`: after
it the forgotten requests go on, and their `finally` removes newer entries.
`RetriesAreSpentOnTransientFailures`: while attempts are left and nobody has
aborted, another one follows a lost response, a 429 or a 5xx, in JSON or not;
otherwise only the error of a hook that is a `TypeError` or has a `statusCode`
costs another attempt, never what else the server answered and never a timeout.
`NoRetryAfterAbort`, `EveryCallSettles`: a joiner settles with the owner, also by
the owner's abort.

**TopicStream.** `CursorAccountsForDeliveries`: the cursor and what was
delivered never drift apart. `LateDeliveriesAreBounded`: after an abort at most
one page is still handed out. `ImplementsFeed`: exactly once, in order, without
gaps. `EveryReadableMessageArrives`, `CancellingEnds`.

**Paginator.** `ItemsInOrder`: a consumer receives the items in order, none
twice or skipped, while the list grows and another walk fills the cache.
`IterationsAreComplete`: an iteration that ends by itself has handed out all
that was in the list when it asked for its last page, unless a 304 cut it short.
`WalksEnd`.

**Pollers.** `OutcomeIsTrue`: what a call resolves with is what consensus
decided. `WaitIsBounded`: a call gives up at its timeout, at most a sleep and a
poll later, never before. `EndStatesAreNoticed`: after a poll that began when an
end state was visible no loop sleeps again, unless that poll was answered with
`null`, and `waitFor` is done within one sleep and two polls of the transaction
becoming visible. No time is claimed for `waitForExecution`, which documents that
it backs off: the property holds however long its sleeps are. `NothingVisibleIsMissed`: no timeout on what was
visible before the last poll. `NoPollAfterAbort`, `EveryWaitSettles`.

**Conversions.** `AmountsAreKept`: tinybars survive the response body, the
mappers and any chain of hbar and tinybar strings; number fields are exact as
far as numbers are. `InstantsAreKept`: instants from 1970 on survive any chain,
and nanoseconds stay in range. `ComparesChronologically`. `SpellingsAreCanonical`:
every spelling of a path gives the same url and every spelling of an identifier
that a validator takes the same normal one, which cleaning or normalizing again
leaves alone; zeros in front of a field stay, and block and serial numbers are
rounded as numbers are. What is no id and no hex identifier is refused; of what is
an identifier, only a block hash with the prefix `0X`; block numbers are at least 0
and serial numbers at least 1. That a text which is no integer is refused, as
the validators document, is not claimed: it is not (section 4). `BytesAreKept`:
bytes survive any chain of hex and base64, whichever host each step runs in, and
base64 is refused only for a wrong number of pads.

**ClientCalls**, in the same run. `RequestsSayWhatWasAsked`: what reaches the
mirror node is the endpoint of that method or tool, each id in its place and
undamaged, and exactly the conditions that the caller set; only a limit may be
the client's own. Two kinds of calls go wrong and are left out, by
`NothingToEscape` and `Undeclared`: serial and sequence numbers with a slash, a colon
or a null byte, and parameters that `buildUrl` does not declare (section 4).
`ResultsSayWhatWasAnswered`: what a mapper reads, in the answer or in a part of it,
it tells as it was sent, integers of 64 bits digit by digit, and only what is null,
missing or empty by a blank. The fields of `DeclaredNumbers`, which the public
types declare as numbers, are told as the closest number, beyond 2^53 another one.
That a mapper reads all that it is sent, or is sent all that it reads, is not claimed:
section 4 lists the fields.

**Bounds.** Three callers are the fewest with two waiters and a newcomer, or an
owner, a joiner and a request made meanwhile. The limiter's horizon lets a
full bucket drain, refill and drain again. One key more than the cache holds
makes every eviction order occur. Two server versions tell old from new. Two
retries give a first, a middle and a last attempt. A topic longer than a page
gives a full page, a partial one and an empty one; so do four items on pages of
two, where the last page may be full and its link lead to nothing. One walk
fills the cache for the other. A timeout of 12 leaves room for several polls and
lies beyond the bound of `EndStatesAreNoticed`, which would otherwise follow from
`WaitIsBounded`. With 5 bits, amounts of eight times the largest safe integer meet every way of
rounding; three digits of a second are one more than counts. Four bytes end in every
number of pads, behind no and one full group. `WireNumbers` are the integers
around the ends of the safe range, where they change from numbers to strings;
`MaxUrlLength` is 26 tokens, which some calls with two arguments exceed and most
do not. `MaxTime`, `Horizon`, `MaxVersion`,
`MaxDestroys`, `MaxMessages`, `MaxItems`, `MaxPoll` and `EarliestDate` are bounds of the models,
not of the code. `http_sharing` uses the symmetry of the callers and checks no
liveness.

**Fairness.** RateLimiter: time does not stop and a due timer runs (the event
loop). HttpClient: the limiter lets a request through (`EveryWaiterSettles`),
hooks return, and due timers (the attempt's timeout, the back-off) run; neither
`fetch` nor the reading of a body need ever end, which is why the timeout is the
action that is fair. TopicStream: its generator and timers run, every poll
settles (`EveryCallSettles`), polls that are made for ever do not fail for ever,
and the consumer comes back for the next message or leaves. Only
`EveryReadableMessageArrives` needs the assumption on failing polls. Paginator:
every `get()` settles and the consumer comes back or leaves. Pollers: every poll
settles, continuations and due timers run, time passes; neither consensus nor
ingestion need ever come.

`topic_stream` runs without deadlock check: a stream whose consumer left, over
a topic that has reached its bound, really stops. So do `paginator`, `pollers` and
`schedule_expired`, whose walks and calls end, and `conversions`, where a number
or a rejected value is the end. `rate_limiter` never stops
before its horizon, `HttpClient` has the explicit step `Done`.

## 4. Findings

1. **A waiter overdraws the bucket** (`http/rate-limiter.ts:73`). The timer of
   a waiter takes a token without looking whether one is there. In the run's
   trace two calls empty the bucket and a third waits; at the tick its timer is due a
   newcomer finds the token that was refilled for it and takes it, then the
   timer takes one as well, and the bucket is negative. The comment at line 8
   promises to wait "until a token is available". `rate_limiter` shows that the
   overdraft is bounded. Callers that wait at the same time overdraw it for the same
   reason: they compute the same delay, so 100 simultaneous requests
   at 50 per second are sent as 50 at once and the other 50 together 20 ms later.
2. **A 304 can resolve with null or another body** (`http/client.ts:317`). The
   cache is asked again when the 304 arrives. If the entry has expired since the
   ETag was sent, the caller gets `data: null`; if a POST to the same url was
   answered with an ETag meanwhile, it gets the POST's body.
3. **Retry-After is lost on a 429 that is not JSON** (`http/client.ts:352`).
4. **A schedule is reported expired that is executed**
   (`helpers/scheduled-transactions.ts:123`). The local clock is compared with
   the expiration time of a snapshot that lags behind consensus. A schedule that
   executes when it expires (`wait_for_expiry`) is reported `expired` by a poll
   in the ingestion lag after that.

Met while modelling, without a run of their own: a stream with a configured
`interval` polls every 500 ms after its first page with messages
(`pagination/stream.ts:74`), although the option is documented as the base
interval; after `controller.abort()` a stream still hands out the rest of its
page (README: "Cancel anytime"; `LateDeliveriesAreBounded` gives the bound); a
caller that joins a GET in flight is bound to the owner's signal and timeout;
a network failure surfaces as a raw `TypeError`, although README says all errors
extend `HieroError`; the error of a hook is retried as if the server had failed if it
is a `TypeError` or carries a `statusCode` of 429 or of 500 and more
(`http/client.ts:270-275`, `http/retry.ts:48`), so a bug in a hook costs three
requests; `retryAfter` is in seconds, README prints it as `ms`; a 304
without the `Link` header that its cached page depends on, or with a `null`
body, ends a page walk early and without an error (`cutShort`); `await` on a
paginator does not look at the `Link` header at all; `waitForExecution`
documents adaptive polling that backs off on unchanged polls
(`helpers/scheduled-transactions.ts:78-79`) and always sleeps `interval`, and it
rejects with a 404 for a schedule that is not ingested yet; `waitFor` rejects when a poll is
answered with `null`; `fromDate` of a Date before 1970 gives negative nanoseconds,
which the type rules out ("0–999,999,999"), `toString` prints malformed and
`toDate` turns into a Date a second earlier each time; `hbarToTinybar` takes
numbers, but throws a SyntaxError for those that print with an exponent, such as
`0.0000001`; a field that is missing becomes `''`, which `tinybarToHbar` takes
for `0`; a path of the base URL is dropped, because `new URL` resolves absolute
paths against the origin.

About requests: the list parameters are typed `string | OperatorFilter`, where
an `OperatorFilter` is `{ gt: '1234', lte: '5678' }`
(`types/common.ts:123-145`), but `buildUrl` knows only `{ operator, value }`: such a
filter is sent as `[object Object]` (`http/url-builder.ts:92`), and plain values in an
array are dropped without an error (lines 85 to 89). The mapping of camel-case names
to dotted ones that its comment lists (line 45) is not there. Serial numbers of
`tokens.getNFTBySerial` and `getNFTTransactions` (`resources/tokens.ts:114-128`) and
the sequence number of `topics.getMessageBySequence` (`resources/topics.ts:51-56`)
are `number | string` and go into the path without `encodeURIComponent`:
`getNFTBySerial(id, '1/transactions')` asks another endpoint, and a `?` in one
begins a query. `hedera_list_accounts` is described as filtering "by account ID or
public key" (`mcp/tool-descriptors.ts:68`); its schema has only a limit. An empty id
gives the path of another endpoint, `balances.getForAccount('')` and the balance tool without an
`accountId` ask for any account, and `new URL` resolves the ids `.` and `..`. A
tool's limit that is no number is sent as `NaN`.
`getResultByTransactionIdOrHash('logs')` is `getLogs`. No resource calls a
validator: the `@` form that `hedera_get_transaction` gives as its example is sent
as it is. `listSchedulesByAccount` filters the first page only.

About results: `contracts.getState` is answered with `value`, but the mapper
looks for `value_read` and `value_written` (`mappers/contract.ts:76-84`), so that the
content of the state is lost; `network.getFees` is answered with
`fees`, but the mapper looks for `current` and `next`
(`mappers/network.ts:105-112`), so that the documented
`fees.fees.length` (`resources/network.ts:53`) throws. Logs inside a contract
result, contract results in lists and fallback fees lack fields that their
mappers default, to `''`, 0 or an empty list, as if they had been sent.
`block_number`, `denominator`, `expiration_time`, `node_id`, `nonce`,
`numerator`, `staked_node_id` and `transaction_index` are 64-bit integers that
become numbers, rounded beyond 2^53. Not read at all: `batch_key`, `high_volume`, `max_custom_fees`
and `assessed_custom_fees` of transactions, the fee fields of topics,
`decline_reward` and `grpc_proxy_endpoint` of nodes, `timestamp` of contract
state.

About encodings: `decodeHexString` promises `null` for what is not hex
(`mappers/common.ts:36`) but decodes it to zero bytes, and `hexToBytes` accepts it
too; base64 of a length that leaves one symbol over, or with a wrong number of
pads, is accepted without `atob` and makes `atob` throw a `DOMException` where
there is one (`utils/encoding.ts:77-78`), which `decodeBase64` does not catch;
`validateBlockNumber` and `validateSerialNumber` say that they take integers
(`validation/block.ts:16`, `validation/serial-number.ts:19`), but read `'12abc'` and
`'5.7'` as 12 and 5, and round what is beyond 2^53; `normalizeEntityId` promises
the canonical form, but leaves leading zeros; the pattern
for block hashes rejects the prefix `0X` that a line behind it strips
(`validation/block.ts:58`); EVM addresses and keys keep their case; the example
for `base64ToHex` in README shows a `0x` that is not there.

## 5. What is proved

`RateLimiterProofs`, for every finite set of callers, every rate, clock
resolution and horizon: `TypeCorrect`, `DebtIsBounded`,
`WaitersAreNotOvertaken`, `WindowsConform`. None of the three safety properties
is inductive. The invariant that is has five parts: the types; *solvency* (at
every tick to come the bucket, left alone, covers the callers due by then but
for one token per other caller), which the rounding up of `waitMs` establishes
and every grant preserves; *starvation* (one tick before a waiter's timer the
bucket is still short), which gives `NoOvertaking`; *metering* (what was granted
since grant *i* and what is left came from a full bucket and the refill since),
which closes a window when a grant is added; and `WindowConformance` itself.

`HttpClientProofs`, for every finite set of callers, every set of urls, cache
size, number of retries and whatever the server answers:
`TypeCorrect`, `NobodyAwaitsTheSettled`, `OneFlightPerUrl`, `ResultsAreFresh`,
`AttemptsAreSpentWell`, `AbortedNeverRetries`. The first
invariant has five parts: the *shape* of the bookkeeping; the owner of a running
request awaits it, so an idle caller has none running; `PromisesAreRunning`
itself; until `destroy()` every running GET is the one recorded under its url,
from which `SingleFlight` follows (`SingleFlight` alone is not inductive: it
does not say that `get()` will find the running request); and a request that
sleeps is not aborted, because an abort settles a sleeper in the same step. A
request either *goes on* to another phase or *settles*; one lemma for each
carries most actions. `AbortedNeverRetries` is an action property: only a
sleeper counts another attempt.

`ResultsAreFresh` needs a second invariant, `Knowledge`, on top of the first. A
304 hands out the body that is cached when the answer arrives, not the one whose
ETag was sent. It is fresh because of `TagsAreCached`: while a conditional GET
runs, the cache has the body of its ETag, nothing, or the body of a POST, since
only another GET of the same url could store a newer one, and `RunningIsInFlight`
says that there is none. Together with `AnswersAreKnown` (an answer is an error,
a representation no older than the request, or the confirmation of an ETag that
is not older) this gives `FreshData`. It also shows where `destroy()` breaks it.
`AttemptsAreCounted` says that a sleeper has an attempt to spare; each action is
shown to be one of a few things that a request can do (be admitted, be answered,
sleep over an error, try again, throw, return). `ErrorsHaveTheirCause` goes through
the ways an attempt can fail and what the loop then sees of its cause in the
error's class and status, and `RequestTypesHold` is what the types of the request
under way have to say for that.

`ETagCacheProofs`, for every set of urls and bodies, capacity and time-to-live:
`TypeCorrect`, `RetainsRecentKeys`, `AnswersAreCurrent`, `CacheImplementsLru`.
That recent keys are retained is not inductive; `OrderIsUse` (whatever comes later
in the Map was used after) is what counts the keys behind an evicted one. The
refinement takes each operation to an operation of `LruCache` or a stutter,
by one lemma for each way a store changes: entries go, one becomes the newest,
the oldest go to make room.

`TopicStreamProofs`, for every topic, page size and choice of intervals:
`TypeCorrect`, `CursorIsAccurate`, `CancelIsPrompt`, `StreamImplementsFeed`.
Cursor and deliveries agree only because of what the page in hand looks like:
`PageFollowsCursor` says that it is the run of positions right after the cursor,
which a poll establishes and handing out a message preserves. `CancelBudget`
counts what is left of the page together with what was handed out since the
abort, and bounds the sum by a page. From this invariant each step is shown to
be a step of `TopicFeed` or to leave its variables alone.

`PollersProofs`, for every interval, timeout and bound on a poll, whenever
consensus and ingestion happen: `TypeCorrect`, `ReportsAreTrue`, `TimeoutIsKept`,
`NothingIsMissed`, `EndStatesAreNoticedInTime`, `AbortEndsPolling`. A report is
true because an answer is old but end states are final: `AnswersAreOld` carries
that from consensus through the mirror node to the snapshot. The time bounds
rest on `Schedules`, which relates the clock, the timer and the start of the
poll in each phase. `AnswersAreFair` says that an answer to a poll that began
after an end state became visible shows it unless it was `null`, and `SleepsAreDue`
that no loop sleeps over an end state. For `waitFor`, `NoticeBudget` says how late
the poll or sleep under way may have begun after the transaction became visible:
within one round of sleep and poll. One round and the last poll give the bound.

`PaginatorProofs`, for any number of walks, every page size and however the list
grows: `TypeCorrect`, `ItemsArriveInOrder`, `WalksAreComplete`. Neither property
is inductive. The invariant says in addition that a walk asks for the page
behind everything it has handed out (`FetchesAtItsEnd`); that what it holds
continues what it has handed out, that its link points right behind that, and
that no link means the end of the list, unless a 304 hid something
(`HoldsTheNextItems`); and that a cached response was the page of its path and
links only if it is full (`CachedWasPage`). `Answers` is what every fresh and
every 304 response has in common, and the only thing the three ways of use need
to know of one; a step of one walk leaves the others as they are, by one lemma.

`ConversionsProofs`, for every width of a number, of an hbar, of an amount and of
a second, every number of values that a pair of bits has, and all byte strings,
amounts, Dates and timestamps: `AmountsSurvive`, `InstantsSurvive`,
`ComparisonsAreTrue`, `BytesSurvive`, `HostsAgree`, `SpellingsSurvive`; and for all
ids and parameters, and for all integers that a mirror node may send,
`RequestsAreMeant` and `ResultsAreTrue`. They are theorems of
`ClientSpec`, the specification of the run, whose other steps leave a value
that is being converted alone. Each property of a chain is proved from an
invariant that says what every form on the way stands for.

- *Amounts*: `Kept`. A numeral in the parsed body reads back as the number it
  was written from, whether it stayed a number or became a string; an hbar string
  stands for its tinybars whatever digits are behind the point, which is an
  argument about padding and cutting, in powers of ten.
- *Instants*: `Instants`. From 1970 on each form stands for exactly `meant`;
  before, Dates and timestamps round in different directions, and nothing is
  claimed. `compare()` then orders by seconds first, because nanoseconds are less
  than a second.
- *Bytes*: `HeldBytes`. Hex stands for bytes digit by digit; base64 has the same
  pairs of bits as its bytes, then zeros. `HostsAgree` says more than any chain
  shows: for byte strings and base64 of every length, the encoder that the code brings
  for hosts without `btoa` writes what `btoa` writes, and the decoder reads what
  `atob` reads wherever `atob` does not throw. It throws just at one symbol left
  over and at a wrong number of pads, at which the decoder does not.
- *Paths*: of every length and over every set of names, `PathsAreCleaned` and
  `SpellingsOfPathsAgree`. A cleaned path has no null byte and no slash too many,
  and building it again changes nothing (unless it ends in `:/`, from which a
  second cleaning takes the slash that the first one kept); a null byte anywhere, a
  doubled slash not right behind a colon, and a slash at the end, unless only
  nothing or a `:/` is in front of it, make no difference. Both rest on two lemmas
  about what a replacement leaves of a path: it is chosen part by part, and what is
  in front of a position decides what happens there. By induction along the way in
  which a path came to be spelled, cleaning undoes any number of respellings.
- *Identifiers*: of what has a meaning by `Denoted`, each validator gives that, but
  for zeros in front and for rounding, accepts it again and then leaves it alone; what
  it refuses has none, but for block hashes with a prefix `0X`. The validators of block and serial
  numbers take texts that have none, too. With the paths this is the
  invariant `Canonical`, from which `SpellingsAreCanonical` follows for paths of
  every length and every identifier.

- *Requests*: `Called`. A call conveys what was meant: its arguments are the ids in
  the order of the slots, its parameters the conditions (`MethodsConvey`,
  `ToolsConvey`). Its path falls apart at the mirror node into the segments it was
  joined from (`JoinedFallsApart`), because an escaped id, and one with nothing to escape, has no slash, no colon
  and no null byte, so that cleaning leaves the path alone; unescaping gives the
  id back, since no two tokens are escaped alike. An endpoint that would fit these
  segments as well has an argument where the one meant has a word, and by counting
  words is never preferred (`RouteFinds`). The query has a key for each condition
  of a kind that `buildUrl` declares, with its values, and at most a limit besides,
  whatever path it goes with.
- *Results*: `Answering`, on top of `Called`. Where a request reached the endpoint
  that was meant, what is answered goes to the mapper of that endpoint and is one
  of `ObjectsRead`, and so are its parts. Each way of reading is shown to tell what
  it suits (`ReadingsTell`): an integer becomes a string in the parser or in the
  mapper, in either case that of the same integer, or the closest number, which is
  the same within the safe range; everything else passes, and what is missing becomes a
  blank.

`OperatorProofs` has what the others share: what deletion, re-insertion and
eviction do to an ordered map; that a start and a step make a function on the
naturals; powers; quotient and remainder. The library
proves facts about recursive functions by an induction principle that takes a
predicate, which cannot be cited. `Induction` is its set form, proved from the
fact that a set of naturals has a least member; the predicate is then a subset of
the naturals that is written down where it is used. That is why powers
and what a replacement leaves of a path are recursive functions (`Powers`,
`UrlPaths`) instead of `^` and folds, and why `Encodings` writes its loops as
functions of the position.

The proofs assume the ASSUME statements of the modules and nothing else:
positive rates, capacities and page sizes, finitely many callers, a value `None`
that is none of the values it stands in for; in `ResponsesAssumption`, that an
error reply is no 304 and that an error object does not come with a status of
success; in `ConversionsAssumption`, that the inputs are what they are called:
decimal strings whose fraction has the digits that write it, timestamp strings
without a sign, strings of bytes, hex and base64 given along with the bytes
that they stand for (base64 with any number of pads at its end), identifiers with
the parts of their kind, a `None` that is no identifier, paths with the steps in
which they were respelled; in `ClientCallsAssumption`, that ids are texts, neither
empty nor a word of the api's own paths, made of tokens none of which is an escape
sequence already (a `%` is itself escaped by `encodeURIComponent`), that parameters
are of one of the kinds of section 2, and that mirror nodes send integers where they
should; in `HttpClient`, that what hooks throw is marked as theirs, and a `None` that
is no number. TLC
evaluates them on the instances. `TablesAgree` has no constants: it is about rows
that are written down in the modules, and evaluating it is checking it. The same
goes for `MappersAgree`.

Only model-checked: `EveryWaiterSettles`, `EveryCallSettles`,
`EveryReadableMessageArrives`, `CancellingEnds`, `WalksEnd` and `EveryWaitSettles`,
which follow from fairness: their proofs need ENABLED, which is out of the
prover's reach. Every other property of a passing run is a theorem.

## 6. Plan

Done: the modules above and the proofs of section 5. What could come next is the
liveness properties, once a prover can reason about ENABLED.

## 7. Not modelled

`types/*` and `index.ts` are declarations. `errors/*` are constructors that store
their fields; `RetryPolicy` has what is decided by them. `client.ts` builds one
`HttpClient` and the resource groups, and its `destroy` forwards to the one that
`HttpClient` models. `getSignatureProgress` counts and compares fields of one
answer, `listSchedulesByAccount` filters one page, `getTokenBalance` picks from
one answer: only their requests are modelled. `formatHbar` appends a unit to
what `tinybarToHbar` returns. Not modelled either are connection-level
behaviour of `fetch`, clocks that step back, and rounding errors of the
limiter's floating-point counter.
