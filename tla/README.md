# A TLA+ model of Charter123's booking backend

Charter123 sells charter flights over the phone and the web.  A FastAPI
backend (`apps/api/app`, about 13,800 lines of Python over SQLAlchemy) serves a
Vapi voice assistant, customers' browsers and the staff dashboard, and talks to
an airline and to Stripe.  This directory holds TLA+ modules of its core, the
TLC configurations that check them on small instances, and theorems about them
that TLAPS checks for every size.

## 1. The system

### 1.1 Processes

One uvicorn process.  FastAPI runs every `def` route in a thread pool, so
requests (the Vapi webhook among them) interleave at each database statement,
provider call and commit.  The Stripe webhook is the one `async def` route, with a
synchronous body: it holds the event loop from its first read to its answer, so
Stripe deliveries run one at a time, against requests that do not.  Each request
has a database session of its own (`db/session.py`: `autoflush=False`,
`expire_on_commit=False`, no version columns).  The idempotency store is in memory,
and so are rate limits and lockouts without Redis: a restart forgets them.
`scripts/setup_vapi.py` is a process of its own, started by hand.

### 1.2 Components

| component | state it keeps | operations | who it talks to | what makes it correct |
|---|---|---|---|---|
| payment state machine `core/payments/state_machine.py` | none | which transitions are legal, what an event says | - | a row's end is final |
| payment service `services/payment_service.py` | `payments`, `bookings.payment_status` | create session, refund, handle webhook event | provider, store, database | paid means charged; charges are recorded; refunds stay within the charge; one open session |
| cancellation service `services/cancellation_service.py` | `bookings.status` | cancel, get policy | airline, provider, payment service, store | one refund; never cancelled here and not there |
| idempotency store `core/idempotency.py` | key -> in progress or completed | begin, complete, fail | - | no key stuck |
| Stripe webhook route `api/routes/payments.py` | none | answer a delivery | payment service | what is answered 2xx is done |
| payment provider `providers/payments/` | sessions, refunds by key | create session, refund, events | - (external) | a key acts once |
| airline provider `providers/airline/` | reservations by key, manifests | search, quote, book, update, cancel, passengers | - | a key acts once; an offer is found again; a refund fits the price |
| flight search `services/flight_service.py`, `reference_data.py` | none | search, quote, aircraft, resolve an airport | airline | the voice and the web get the same answers |
| booking and passenger services | `bookings`, `booking_passengers`, `customers` | create, modify, add and remove passengers, passports | airline, store | one row per reservation; columns agree with the airline |
| Vapi webhook `api/routes/vapi.py`, `core/vapi/` | `calls`, `tool_executions` | map arguments, authorize, dispatch a batch of tool calls | every service | one tool call acts once; one outcome per call; none unverified or unconfirmed |
| verification `services/verification_service.py` | `verification_sessions` | start, submit, check | lockout | at most `max_attempts` guesses; scoped to a booking and a purpose |
| rate limits and lockout `core/security/rate_limiter.py` | windows, failures | check, record | Redis or memory | failures are counted; locks end |
| accounts `services/auth_service.py`, `session_service.py`, `middleware/csrf.py` | `users`, `sessions`, reset tokens; the browser's cookies | register, log in, change and reset password, refresh, revoke | lockout | a token is used once; a revoked session stays revoked; no session of an old password |
| authorization `core/security/ownership.py`, `rbac.py`, `vapi_authorization.py`, `api/deps_auth.py` | none | decide | - | nobody but the owner, a verified caller or staff |
| setup script `scripts/setup_vapi.py` | Vapi's tools, assistant, phone number; `.env` | upsert all of them | Vapi (external) | no duplicates; one configuration |
| notifications, customers, calls, admin, headers, web | | | | see section 7 |

### 1.3 What is hard

Requests hold what they read across calls to Stripe and the airline, and write
it back without a version check.  The two external systems and the database
commit apart, and any of the three may succeed while another fails.  Stripe sends
events late, twice and in any order.  Idempotency is kept in three places (the
store, UNIQUE columns, the providers' keys), and a restart empties the first.
The tool calls of one voice message share a database session, so that one's rollback
reaches another's rows.  Guesses, failures and refreshes are read, changed and written
without a lock.  A change of password takes three commits.
`PROJECT.json` lists each hazard at its line with the properties about it.

## 2. The modules

| module | what it is |
|---|---|
| `PaymentStates` | `state_machine.py` as operators: statuses, transitions, events |
| `PaymentLifecycle` | abstract specification: the life of each Payment row, with no service, provider or webhook in sight |
| `OncePerLife` | abstract specification: the life of each idempotency key, begun, acted on, completed or abandoned, and lost in a crash, with no request, delivery or database in sight |
| `Payments` | the payment and cancellation services, the store, the webhook route, and the provider and airline they call |
| `ToolCalls` | the Vapi webhook: batches of tool calls over one database session, the table `tool_executions`, and the two mutating services it reaches that differ most in their protection, `create_booking` and `add_passenger` |
| `Authorization` | actors, roles and permissions, the decisions of `ownership.py`, the routes' dependencies and the voice tools' matrix, as operators |
| `Tools` | the registry of voice tools, argument mapping, and what becomes of a tool call before it reaches a service; extends `Authorization` |
| `Access` | verification sessions and the lockout under concurrent guesses, and what a token then opens; extends `Tools` |
| `Fares` | the arithmetic of quotes, changes and cancellation fees |
| `Catalogue` | flight search, flight ids, lookup, quotes, aircraft, airports; extends `Fares` |
| `Bookings` | creating and changing bookings against the airline's books; extends `Fares` |
| `Accounts` | one account: its password, sessions, reset links and the browsers' cookies; extends `Authorization` |
| `VapiSetup` | runs of the setup script against a Vapi account |
| `MCPayments`, `MCToolCalls`, `MCAccess`, `MCAccounts`, `MCBookings`, `MCVapiSetup` | small instances for TLC; `MCBookings` also evaluates `Fares` and `Catalogue` over a range of values |
| `PaymentsProofs`, `ToolCallsProofs`, `AccessProofs`, `BookingsProofs`, `AccountsProofs`, `VapiSetupProofs`, `FaresProofs`, `AuthorizationProofs` | the theorems |

The state modules share no state.  `Payments` begins with bookings that exist,
`ToolCalls` ends where one is made, and `Bookings` has no payments; what crosses between
them (a price changed while a payment is open, a verification rolled back by a
create) is named in section 3.1.  Each models the idempotency store for its own keys,
which are apart (`derive_idempotency_key` hashes the operation's name).

### 2.1 How the state of `Payments` corresponds to the code

| variable | code |
|---|---|
| `booking` | the columns `status` and `payment_status` of a Booking row |
| `payment` | the Payment row of an idempotency key (UNIQUE): `status`, `refunded_amount`, `refund_status`, and the rows older than it (`created_at`) |
| `store` | `InMemoryIdempotencyStore._entries` |
| `session`, `refund` | at the provider: the Checkout Session of a key with the money returned of it; the refund made under a key |
| `airline` | at the airline: whether a booking is cancelled, what is refundable |
| `sent`, `acked` | events Stripe has emitted; those it has a 2xx for |
| `req` | thread -> the request it serves: program counter and the values it has read |
| `hook` | the webhook delivery in progress |
| `faults` | how many faults so far, at most `MaxFaults` |

An operation is cut at each point where another thread can act in a way it can
notice: after its first read, before and after each provider call, at the commit,
and between the commit and the store's `complete`.  So `create_payment_session` is
`StartCreate` (guards), `BeginCreate` (open payment, `store.begin`), `CallCheckout`,
`CommitCreate`, `FinishCreate`; each has a failing twin (`CallCheckoutFails`,
`CommitCreateFails`, and `CommitCreateConflicts` for the UNIQUE columns) that rolls
back and calls `store.fail` where the code does, and only there
(`CommitRefundFails` does not).  The refund and cancel operations are cut in the
same way; `Deliver*`, `CommitEvent`, `CommitEventFails` and `FinishEvent` are
`handle_webhook_event`; `Crash` is a restart.  `PROJECT.json` maps every definition
to its lines.

`Written(seen, new, current)` is what SQLAlchemy does at a flush: a column set to the
value it was read with is not in the UPDATE.  The counterexample to `OneOpenPayment`
(section 3.1) depends on it.

### 2.2 How the state of `ToolCalls` corresponds to the code

| variable | code |
|---|---|
| `call` | the Call row of the phone call and its `status` |
| `log` | `tool_executions` as committed: a call's row, `claimed` while `outcome` is NULL, `denied` when authorization said so (`outcome` is NULL then too), or its outcome |
| `verified` | VerificationSession rows in the database |
| `booked`, `added` | how many Booking rows a key has made, and passengers a call has added |
| `reserved` | the airline's reservations by key |
| `store` | `InMemoryIdempotencyStore._entries` |
| `delivery` | thread -> the webhook request it serves: the message, the position in its batch, the row found by the lookup, what its transaction has flushed (`written`, `sessions`) and the answers set aside (`answer`) |
| `sent`, `told` | deliveries of a message so far; what Vapi has last been answered about a call |

`vapi_webhook` is `Deliver`, `InsertCall` (or its conflict), the calls of the batch one
after the other, `FinalCommit`, `Respond`.  `_handle_one_tool_call` is `Lookup` (replay,
takeover or claim), `Claim`, then one of `Deny`, `Refuse`, `Read`, `Verify`, `Create...`
and `Add...`, each ending in `Save`, which is `_save_log`.  `create_booking` is cut into
`Create` (`store.begin`), `Reserve` (the airline), `Book` (the commit) and `Complete`, with
failing twins that all lead to `RollBack`; `add_passenger` has its commit and no rollback.

A delivery's transaction is explicit because the hazards live there: what `Save` flushes is
invisible to others and locked (`Free`) until a commit; a service's commit makes the rows
of earlier calls of the batch durable with its own, a service's rollback discards them.
`Overwrite` is an UPDATE that names only the changed columns.

### 2.3 How the state of `Access` corresponds to the code

| variable | code |
|---|---|
| `sessions` | `verification_sessions`: a token's row (`booking_id`, `purpose`, `status`, `attempts`), as committed |
| `ttl` | what is left of its `expires_at` |
| `issued` | the tokens `start` has generated |
| `failures` | the rate limit store's `FailureState` under `verify:{booking}`; `lock` is what is left of `locked_until` |
| `request` | thread -> the submission it serves: the row as loaded and as scored, the failure count as read |
| `earned`, `guesses`, `uncounted`, `misses`, `blurred` | history, for the properties; `misses` counts the failures recorded since a success that no failure under way could still write over |

`submit` is `StartVoice`, `StartWeb` or `LoadSession` (load, lock check), then `Refuse` or
`Score` (state machine, `record_success` or the read of `record_failure`), `RecordFailure`
(its write), and the answer: `AnswerVoice` commits, `AnswerVoiceRolledBack` is a batch whose
later call rolls back, `AnswerWeb` leaves the database as it was, since the route never
commits.  `Tick` is time, `Restart` a restart without Redis.  What a token opens is no
action: `WebEntry` and `VoiceEntry` apply `RequireBookingAccess` of `Authorization` and
`HandleToolCall` of `Tools` to every token in every state.

### 2.4 How the state of `Bookings` corresponds to the code

| variable | code |
|---|---|
| `rows` | `bookings` with `booking_passengers`: the reference, status, flight (for all columns it gives), price, contact, passengers and passports |
| `airline` | `MockAirlineProvider._bookings` |
| `seen` | `_idempotency_seen` |
| `store` | `InMemoryIdempotencyStore._entries` for create and cancel keys |
| `request` | thread -> the request: what it loaded (`old`), what it will write (`new`), where it is |
| `overlapped` | history: bookings that two requests worked on at a time |

A request is `Load`ed, calls the airline (`CreateCall`, `ModifyCall`, `CancelCall`,
`AddCall`, `RemoveCall`; each atomic, as the provider holds its lock), and commits
(`Insert`, `Update`, or `CommitFails`), writing what it changed: `Column` for a column,
`Members` for the passengers, which are rows of their own.  A thread at `held` is a voice
batch between two calls: its next request works on the booking as loaded before.

### 2.5 How the state of `Accounts` corresponds to the code

| variable | code |
|---|---|
| `user` | the account's row: the password its hash is of, whether the hash is outdated (`needs_rehash`), `status` |
| `sessions` | `sessions`: revoked, expired, `rot`: how often its token was replaced |
| `links` | `password_reset_tokens`: unused or used (`used_at`; a newer link marks the older ones used) |
| `browser` | browser -> its session cookie and CSRF cookie |
| `request` | thread -> the request: what it read, and which commit comes next (`at`) |
| the rest | history, for the properties: `crossed` once two requests for a link overlapped, `shared` the links that two resets were about to use at once, `stale` once a rehash wrote over a newer password |

A route with several commits is a chain of actions: `ChangePassword`, `CommitPassword`,
`RevokeAll`, `CreateSession`.  `Crash` ends a request between any two of them.  Only what
passes the CSRF check and finds a live session starts (`PassesCsrf`, `MayAct`).

### 2.6 How the state of `VapiSetup` corresponds to the code

| variable | code |
|---|---|
| `tools`, `assistants`, `phone` | the Vapi account: each tool's name and configuration, each assistant's `toolIds`, the number's `assistantId` |
| `env` | `VAPI_ASSISTANT_ID` in `.env` |
| `run` | runner -> its run: the snapshot `_index_existing_tools` made, the next entry of the plan, the ids collected |
| `created` | assistants whose "ACTION REQUIRED" nobody has followed yet |

### 2.7 Abstractions

Of `Payments`:

- Amounts are small naturals, `Price` the whole; currencies, texts, audit rows and
  timestamps are left out, except `created_at`, which is the order of insertion
  (the flush and the commit that follows it are one step, so two rows inserted at the
  same instant are ordered by their commits).
- One key names one operation on one booking (`BookingOf`): keys are hashes of call,
  operation and payload, or made up by the client for one request.
- A request refused before it changes anything is not a step.  Two reads with
  nothing in between that the request could tell apart are one step: the airline's
  answer and the read of the payment that follows it, and the read of the latest
  payment and `store.begin`.
- `provider_payment_intent_id` is always set on a SUCCEEDED row, since paid sessions have
  one; the guard on it never decides.
- `requires_action` stands with `pending`, and `canceled` with `failed`: no code tells
  them apart.
- The provider, as the services rely on it: the same key returns the same session or
  refund, a refund key with another amount is refused, refunds never exceed the
  charge, a session lasts longer than any request, and the customer has its URL only
  after the row is committed.  A failed or canceled refund returns no money.
- The airline keeps its cancellations and answers a second one with nothing
  refundable, under any key (`providers/airline/mock.py:343-351`).
- A provider call may fail before it acts or after (its answer lost); a commit may
  fail; the process may crash between any two steps.  Each is a fault, and
  `MaxFaults` bounds them.

Of `ToolCalls`:

- The database is PostgreSQL at READ COMMITTED, which `db/session.py` calls
  authoritative: a write of a row that an open transaction has written waits for it; an
  INSERT that turns out a duplicate raises, and the request ends with HTTP 500.
- A tool call is of kind `read` (it writes nothing), `verify` (it flushes a
  VerificationSession, whose own rules are another module's), `create` or `add`.  The
  other mutating tools have one of these two shapes: `cancel_booking` and
  `create_payment_session` that of `create` (a store key, a rollback on error), `modify_booking`
  and `remove_passenger` that of `add`.  Tools declared and not implemented are left out.
- Whether a call is denied or refused is a choice, as rate limits, arguments and
  authorization are not in the state.
- Vapi delivers a message again, also while an earlier delivery is being served, as long
  as some call of it is unanswered, at most `MaxDeliveries` times.  Each tool call
  belongs to one message in the instances; the module and the proofs do not need that.
- A restart rolls back open transactions and empties the store; the airline is a system
  of its own and keeps its reservations.  `MaxRestarts` bounds restarts, `MaxFaults` failed
  commits and airline calls.

Of `Access`, `Tools` and `Authorization`:

- Whether the factors match is a free choice: `submit` compares them with the booking
  that the request names.
- Time is in ticks: a session lives `SessionTTL`, a lock `Backoff`.  `ttl`
  and `lock` count down, so that the states are finite.
- An argument is there or not; what it says matters only for the PNR (missing,
  malformed, unknown, a booking) and the confirmation.  Permissions are the strings of
  `rbac.py`.
- Rate limits by window only refuse, and are left out.

Of `Bookings`, `Fares` and `Catalogue`:

- Money is in cents, and `Money` rounds half up as `ROUND_HALF_UP` does.
- A flight is its route, date, index and cabin; the hour, the aircraft, the number of
  seats and the price's pseudo-random part (`jitter`, in ten-thousandths) are
  generated from those and taken as given.  A flight id is the sequence of its parts between
  underscores, which is what `split("_")` returns.
- A date is a date or the text of one: the difference is what `.isoformat()` notices.
- Contact's two columns are one value.  Callers stand for call ids and clients, which
  are part of every key that is not a create key; a change's key names the booking and
  the change as well.
- A voice batch keeps the booking it dealt with last; that an earlier one of the same
  batch may be kept too is left out.
- The airline's books outlive a restart of the process.  The mock's are in memory, the
  provider it stands for keeps its own.

Of `Accounts`:

- A password is the number of the change that set it, so that two are never equal.
- Only one account is modelled: nothing an account's request does reads another's rows.
- A refused request writes an audit row or counts towards the lockout of `Access`: neither is
  a step.  Suspension happens in no code of the repository; a suspended account is an
  initial state.
- `revoke_all_for_user` lists the live sessions and commits in one step.  A session created
  in between is one whose maker either read the new password or is `late`; for `logout_all`,
  about which no property is stated, the step is an abstraction.
- A browser receives the cookies of an answer with the request's last commit; two
  answers on their way at the same time are `confused` together.

Of `VapiSetup`:

- A configuration is all that a payload takes from the environment, the arguments and
  the registry.  Vapi keeps what it accepted, and may accept a request whose answer is
  lost.  Its list of tools is complete (`setup_vapi.py:357-362` says that paging is not
  verified).

## 3. What is checked

All runs of `Payments` have one booking, which every key names: bookings share nothing but
threads.  Deadlock is not checked, as the system may go idle for good: every
session ended, every booking cancelled.  Symmetry is used in the runs that check
safety alone, over threads and keys of the same kind.

| run | instance | properties |
|---|---|---|
| `PaymentsCreate` | 2 create keys, 2 threads, 1 fault | `PaidIsCharged`: PAID or REFUNDED only with a charge on a row of the booking.  `AckedChargeIsRecorded`: a charge whose event Stripe may forget is on its row.  `PendingIsAlive`: until the fault, a PENDING row has an open session or an event under way |
| `PaymentsRefund` | 1 create, 1 partial staff refund, 2 cancel keys, price 2, 2 threads, 1 fault | `TypeOK`, `RefundWithinCharge`.  `OneRefundPerCancellation`, `CancelledAtAirline`: however many cancellations overlap.  `NoOrphanedKey`: no create, cancel or event key is in progress with nobody working on it.  `ImplementsLifecycle` (the refinement) |
| `PaymentsUndisturbed` | 2 create, 1 refund, 1 cancel key, price 2, 2 threads, no fault, constraint `Undisturbed` | `BooksCoverRefunds`: the rows' totals cover the money returned |
| `PaymentsLive` | 1 create, 1 cancel key, 1 thread, 2 faults, fair | `ChargeIsEventuallyRecorded` |

Why these bounds are enough: every property relates at most two attempts, two refunds or
two cancellations of one booking, and two threads are what it takes for one request to
act between another's read and its commit.  A price of 2 tells a partial refund from
a full one and leaves room for one that exceeds the rest.  One fault separates the
two systems that must agree; the liveness run has two, so that a redelivery may fail
as well.  The next-state relation's every action fires in one passing run or another.

`PaymentsUndisturbed` explores the behaviours in which, of any one booking, at most one request
refunds or cancels at a time: TLC goes no further from a state that breaks its `CONSTRAINT`.
Nothing else is held back: the other thread may create sessions, and webhooks arrive, in
the middle of a refund.  Without the constraint the property is false (section 3.1).

| run | instance | properties |
|---|---|---|
| `ToolCallsBatch` | a batch (add, create), 2 threads, 3 deliveries, 1 fault, 1 restart, fair | `TypeOK`.  `SuccessIsReal`: a success logged or told is in the database.  `NoOrphanedKey`.  `EveryDeliveryEnds`.  `ImplementsOncePerLife` (the refinement): of all that overlaps, one request at a time works on a key, books once and only under a reservation, and gives up no key that has booked |
| `ToolCallsSerial` | batches (add, verify) and (read, create, create) under one key, and the end-of-call report, 1 thread, 2 deliveries each, 1 fault, 1 restart | `BookedOncePerLife`: a key makes one Booking row in each life of the process.  `AddedOncePerFault`: a passenger is added again only after a failed commit or a restart |

The hard cases need a batch of two, so that one call's rollback reaches another's row; two
threads, and a third delivery for what the first two leave behind (a takeover, a conflict,
a key completed or in progress); and two calls under the same key, so that the store and
not the row decides, which the serial run has.  More bookings, passengers or batches
would share nothing more.  Deadlock is not checked: when its deliveries are used up the
system is at rest.

| run | instance | properties |
|---|---|---|
| `Access` | 1 booking guessed at of 2 (one with an account), 1 token for voice and web, 2 threads, 2 attempts, lock from the 2nd failure, 1 fault, fair | `TypeOK`.  `EntitledOnly`, `DispatchedIsVerified`: what a token opens on the web and by voice was earned, for that booking and purpose, in time, and confirmed.  `GuessesAreCounted`: whatever overlaps or is rolled back, no guess is counted that was not made and no session fails before its last attempt; while nothing does, every guess counts.  `FailuresAreCounted`: the same of failures, and of how long they lock.  `LocksEnd` |
| `Accounts` | 2 browsers, 2 threads, 3 sessions, 2 links, 2 new passwords, 2 refreshes each, 4 requests, 1 crash | `TypeOK`.  `SessionsKnowThePassword`: no live session of an older password is left.  `PasswordIsLastSet`.  `ResetLinksAreSingle`: a link that was used stays used, and only requests that read it at once use it twice; one link at most is good, unless two requests for one overlapped.  `BrowserKeepsSession`: cookies that fit each other and a session.  `RevokedForGood` |
| `Bookings` | 1 create key, 2 bookings, 2 flights, a party of 2 and 2 more, 2 threads, 4 requests, 1 failed commit, fair | `TypeOK`.  `BookedOnce`.  `RowFollowsAirline`: unless requests overlapped.  `ManifestIsKnown`, `CancelledAtAirline`: however they overlap.  `KeysAreReleased` |
| `VapiSetup` | 2 function tools and the transfer tool, which one of two configurations has, 2 runners, 3 runs, 1 fault | `TypeOK`, `NoDuplicateTools`, `AssistantsAreComplete`.  `RunsAreUniform`: a run that ends has replaced every server configuration |

`Access`: two attempts are one to fail and one to fail for good; the backoff doubles once
and reaches its cap; the second booking is there to be opened by the wrong token, and needs
no guesses of its own.  `Accounts`: a change of password is three commits, which another
request meets at each gap; with a third session a login, a refresh and a change are all on
their way; two links are what it takes for one to outlive the other.  `Bookings`: a
create, two changes of it and a cancellation are four requests; a second booking row shows
a create that ran twice.  `VapiSetup`: two runs show what a rerun mends, a third what a
failure between them leaves; two tools have a first and a last.  Deadlock is not checked
in these runs: each may come to rest when its bounded requests are served.

`MCBookings` also has TLC evaluate five `ASSUME`s: the fares over prices and times to
departure around the thresholds, quotes against changed bookings for parties of adults,
flight ids for all routes and cabins, and airports.

### 3.1 Where the code and its documents disagree

Each of these runs checks one statement of the documentation and finds it violated;
`PROJECT.json` quotes the lines.

| run | what TLC shows |
|---|---|
| `FalselyRefunded` | The airline's answer to a cancellation is lost; the retry is told that 0 is refundable, takes it for a fee and shows REFUNDED. |
| `WebVerificationLost` | `POST /bookings/{pnr}/verify` answers VERIFIED with a token; neither the route nor `get_db` commits, so that no row has it and no later request accepts it. |

Statements that the models refute without a run of their own.  Those that begin with a name
are operators of the modules: put the name in a configuration to see the counterexample.

- `OneOpenPayment` (`payment_service.py:46-48`: another key "does NOT create a second
  concurrent session").  A request reads the booking PENDING; its open session expires and
  the webhook writes UNPAID; the request finds no open payment, opens a new one and writes
  PENDING over the PENDING it read, so nothing.  The booking is UNPAID with an open payment,
  and the next request opens a second.
- `CancelledStaysUnpaid` (`payment_service.py:132-133`).  Cancelling leaves the Checkout
  Session open; the customer pays; the cancelled booking is PAID.
- `BooksCoverRefunds` without the constraint (`models/payment.py:97-99`: the columns are
  cumulative).  Two partial refunds overlap; the later commit overwrites the earlier total.
- `AddedOnce` (`vapi.py:585-588`: "the worst case here is a confusing ToolExecution log").
  `add_passenger` commits, and with it the claimed row, its outcome still NULL; a second
  delivery finds the row, takes it over and adds the passenger again.
- `VerifiedIsUsable` of `ToolCalls` (`vapi.py:302`).  The second call of a batch is a
  `create_booking` that fails: its rollback takes the VerificationSession of the first call,
  whose caller is told that it is verified.  It takes the ToolExecution rows of the calls
  before it too, against `models/tool_execution.py:28-30`.
- `SomebodyFlies` and `CancelledIsShown` of `Bookings` (`passenger_service.py:61`,
  `cancellation_service.py:77`).  Two removals that each see the other's passenger leave
  none; a change under way when a cancellation commits writes MODIFIED over CANCELLED.
- `UnimplementedIsTold` of `Access` (`tool_schemas.py:475-478`: told "not available yet").
  The tools that need a verified booking and are not implemented are not among
  `_PNR_TOOLS`, so that no booking is loaded for them and a verified caller is refused.
- A refund with status `failed` is added to `refunded_amount` (`payment_service.py:322`):
  nothing remains for staff to return, though `docs/PAYMENTS.md:302-308` says that they can
  "complete it manually".
- `refund_payment`'s commit (`payment_service.py:412`) is outside its try block: when it fails,
  its key stays in progress, against `core/idempotency.py:49-51` ("rather than being
  stuck forever").  `CommitRefundFails` models it, and `NoOrphanedKey` leaves refund keys
  out.
- A denied or rate-limited call leaves a row with no outcome, which its redelivery takes
  over; `vapi.py:562-566` says that this happens only on a real crash.
- `state_machine.py:34-39` describes a `CANCELED` status for a superseded session, which no
  code ever assigns (`PaymentLifecycle` has no action for it, and `ImplementsLifecycle` shows
  that no row gets there).
- Every flight search by voice fails: `map_search_flights` (`argument_mapping.py:98-109`)
  passes the date as text, and `mock.py` calls `.isoformat()` on it (theorem
  `VoiceSearchFails`); `get_aircraft_availability` with a date likewise.
- A premium-economy offer can be neither looked up nor quoted nor booked, since
  `_parse_flight_id` (`mock.py:496-504`) splits `premium_economy` at its underscore, against
  the header of `mock.py` ("always agree"; theorem `PremiumIsLost`).
- The `ADMIN` role lacks `payments.create` and `system.manage`, though `ownership.py:69` has it
  hold every permission.
- `create_booking` is declared `requires_confirmation` and has no argument to confirm with.
- `verify_booking`'s docstring names a rate limit profile `booking_verification` that nothing
  builds; the backoff lockout stands in its place.

What else the models make visible, and no document speaks of:

- A retry of a create request whose first answer was lost may find its session expired; the
  row is then PENDING for a dead session (`PendingIsAlive` speaks of the time before any call has failed).
- The price of a booking may change while a Checkout Session for the old one is open; it is
  then PAID for less.  Children are charged as adults after any change (`ManifestTotal` beside
  `QuoteTotal`), and the party of a quote is not compared with the passengers booked.
- Passengers booked with the booking have no airline id, so that the airline does not hear of
  their removal.  If the commit after an airline removal fails, the passenger cannot be
  removed any more.
- A submission that meets an expired session is answered "didn't match, try again".
- The CSRF cookie is not renewed by a refresh: once it lapses, every POST of the browser is
  refused, refresh and logout among them, while the session lives.  Two refreshes that
  overlap may leave the browser with a token that was replaced.
- A login that rehashes may write back a password changed meanwhile (`stale`); a session that
  a login creates after a change began survives `revoke_all` (`late`), as do the
  sessions of a change whose process dies before `revoke_all`.  A change of password leaves an
  outstanding reset link good; overlapping requests make two good links, and use one twice.
- Booking and payment routes with `get_current_actor` do not ask whether the account is
  suspended (`SECURITY.md:387-390` names it).
- The setup script, run without `--transfer-number`, leaves the transfer tool out of the
  assistant; a run that is interrupted leaves tools of two configurations; a lost answer to
  the creation of the assistant leaves one nobody knows of; runs that overlap make duplicates.
- Seats are neither taken nor checked; `flight_number` comes from a salted hash and changes with a
  restart; search ignores the party's size, `direct_only` and `return_date`; a quote stores
  the cabin it was asked for and charges the id's.

### 3.2 Fairness

`FairSpec` assumes weak fairness of `CommitEvent` and `FinishEvent` (the event loop
runs a delivery that has begun to its end; a failing commit or a crash may
intervene, and faults are bounded), and for each event strong fairness of delivering
it while it is emitted and unanswered (Stripe redelivers until it has a 2xx; strong,
because deliveries of other events disable this one every time they start).  Nothing is
assumed of customers, of requests or of the threads that serve them.

`FairSpec` of `ToolCalls` assumes weak fairness of each thread's step: the thread pool runs
every request it has taken, and PostgreSQL wakes one that waits for a row once that row's
transaction ends.  No fairness is assumed of Vapi.  A thread waits for nothing else, so
`EveryDeliveryEnds` comes down to this: rows are claimed in the order of the
batch, and the row claimed again after a rollback is the only one its transaction then
holds.  It is checked for deliveries of one batch, whose order is the same; two batches with
the same calls in opposite order could wait for each other, and Vapi sends no such thing.

`FairSpec` of `Access` assumes weak fairness of `Tick`: time passes.  Requests have none, so
`LocksEnd` holds against callers who never stop guessing: a locked booking refuses guesses
before they count, and only the few submissions that had passed the lock check before it can
still prolong it, each once.  `FairSpec` of `Bookings` assumes weak fairness of
each thread's `Proceed`: a request that has begun is served to its end.

## 4. What is proved

`PaymentsProofs` proves, for every set of bookings, keys and threads, every price and
any number of faults:

| theorem | statement |
|---|---|
| `Invariance` | `Spec => []IInv` |
| `TypeCorrect` | `Spec => []TypeOK` |
| `PaidAlwaysCharged` | `Spec => []PaidIsCharged` |
| `AckedAlwaysRecorded` | `Spec => []AckedChargeIsRecorded` |
| `RefundAlwaysWithinCharge` | `Spec => []RefundWithinCharge` |
| `LifecycleImplemented` | `Spec => ImplementsLifecycle` |
| `CancelInvariance` | `Spec => []CInv` |
| `KeysAreReleased` | `Spec => []NoOrphanedKey` |
| `OneRefundEach` | `Spec => []OneRefundPerCancellation` |
| `CancelledForGood` | `Spec => []CancelledAtAirline` |
| `PendingIsAliveUnlessFault` | `Spec => []PendingIsAlive` |
| `BooksCoverWhileUndisturbed` | `Spec /\ []Undisturbed => []BooksCoverRefunds` |

The proofs use the four assumptions on the constants that `Payments` declares:
amounts are naturals and the price positive (`AmountsAssumption`), the number of faults
is bounded (`FaultsAssumption`), the kinds of keys and the events do not overlap
(`KeysAssumption`) and `Null` is no row (`NullAssumption`).

None of the invariants is inductive.  `IInv` adds to the first three:

- `RequestsFit`: a request's key is of its operation, the row it refunds is SUCCEEDED, and the
  amount it is about to add fits what remained when it read the row.
- `EventsTrue`: an emitted event that says paid, failed or expired is and stays true of its
  session, and every event but `expired` has its row.
- `SessionsTrue`: a session the customer has acted on has its row.
- `RowsTrue`: a row that ended tells how its session ended, and none is CANCELED.
- `HookFits`: the delivery in progress was emitted; until its commit it applies, and after it
  a charge is on its row.
- `StoreFits`: an event's key is in progress only for the delivery in progress, and completed,
  if the event says the customer was charged, only once the charge is on its row.

The heart of the argument: a paid event moves its row to SUCCEEDED unless the row has
already ended, and a row whose session is paid can have ended no other way
(`EventsTrue` with `RowsTrue`).  It is answered unapplied only if the row has moved
on, or is not there, and the latter is impossible because the customer can pay only
after the commit (`EventsTrue`).  It is dropped as a duplicate only if its key is
known, and then the charge is on its row (`StoreFits`).  Rows are never removed, a SUCCEEDED
row and an ended session stay (`RowsStay`, `SettledStays`: facts about every step, proved
once), so what was true of an answered event stays true.  `PaidIsCharged` follows since only
the commit of a paid event writes PAID, and only a refund of a SUCCEEDED row writes
REFUNDED.  For `RefundWithinCharge` a request's snapshot is what matters: the total it
will write is the snapshot's plus an amount that fitted in the snapshot's rest, whatever
other requests have written since; that is why the bound holds although totals may be
lost (section 3.1, `BooksCoverRefunds`).

The refinement maps `status` to the rows' statuses and `touched` to the rows with a
refund on record; each action of `Payments` is shown to be one action of `PaymentLifecycle`
or to leave both unchanged.

The three theorems about cancellations need a second invariant, `CInv`, which holds on
top of `IInv`:

- `KeysWorked`: a key in progress has a request between its `begin` and its `complete` or
  `fail`, not merely one that holds it.
- `CancelTrue`: a cancellation that has its answer is of a booking cancelled at the
  airline; one about to refund has an amount within that answer, and no cancellation of
  the booking has refunded yet.
- `OneRefunding`: of two overlapping cancellations of a booking, one at most is about to refund.

`OneRefunding` is preserved because the airline answers a positive refund only to the call
that cancels: whoever comes after finds `cancelled` set and is answered zero, and nothing
clears `cancelled`, crash and restart included.  Most steps touch neither refunds nor
the airline; they are `Quiet`, and one lemma covers them all.

`PendingIsAlive` speaks of states before the first fault, and so do the three facts it
follows from: a session is open until its row is committed, by a request that is at its commit
(`RowsFollowSessions`); a session that is no longer open has said so in an event, and no other
has (`EndsAnnounced`); an event that was dealt with has moved its row (`EventsMoveRows`).

`BooksCoverRefunds` is false in general (section 3.1), and its theorem says of which
behaviours it holds: those in which no call fails and, of any one booking, at most one
request is refunding or cancelling at a time (`Undisturbed`).  Creates, webhooks and every
other booking are free to overlap, a webhook in the middle of a refund included.  `RowsFresh` is
what overlap would destroy: the total that a request has read is still the row's at its
commit.  `ReturnedIsBooked` says of the moments in between what `BooksCoverRefunds` says of the
end: money returned is on the row, or a request is about to add it.

`ToolCallsProofs` proves, for every set of calls, keys and threads, every batch and
every bound:

| theorem | statement |
|---|---|
| `TypeCorrect` | `Spec => []TypeOK` |
| `OneBookingPerLife` | `Spec => []BookedOncePerLife` |
| `SuccessHolds` | `Spec => []SuccessIsReal` |
| `KeysAreReleased` | `Spec => []NoOrphanedKey` |
| `AddedOnceUnlessFault` | `AddsAreLast => (Spec /\ []DeliveredApart => []AddedOncePerFault)` |
| `KeysLiveOnce` | `Spec => ImplementsOncePerLife` |
| `LifeActsOnce` | `Once!Spec => []BookedOncePerLife` |

from `BatchesAssumption` (kinds and keys are functions of the calls, a batch is a
non-empty sequence of calls) and `BoundsAssumption`.  Its inductive invariant adds to
these four:

- `Placed`: a delivery that handles a call is at a position of its batch.
- `Held`: what a delivery has flushed or set aside as a success was done, and so was what
  it is about to save.
- `CreateFits`: a delivery inside `create_booking` has its key in progress, and has booked
  under it, if it is past the commit, or nobody has in this life of the process.
- `OneHolder`: no two deliveries are inside `create_booking` with one key.
- `StoreFits`: a key the store does not know has made no booking in this life, a completed
  one has made one.

The argument for `OneBookingPerLife`: `store.begin` lets one request in (`OneHolder`), at a
moment when the key is unknown and so has no booking of this life (`StoreFits`); the
key is cleared only by a rollback, before which nothing was booked (`CreateFits`); and a
restart, which forgets the key, also raises the bound.  For `SuccessHolds`: a success is saved
after the service's own commit, or because the key is completed (`StoreFits`); the flush
that records it may be rolled back but what it speaks of is never undone (`Held`), since
bookings and passengers are only added.

`AddedOncePerFault` does not hold of every behaviour (section 3.1, `AddedOnce`), and its
theorem has two hypotheses.  `AddsAreLast` is about the batches: no `create_booking` follows an
`add_passenger` (its rollback would erase the added passenger's row of the log), and an
`add_passenger` does not come twice; the batches of `ToolCallsSerial` are such.  `DeliveredApart` is about the behaviour: two deliveries at
work do not carry the same call; others overlap as they like.  Then a call has added at most
one passenger more than there were failed commits and crashes, and that one only if its outcome
is on the log or about to be (`AddFits`, `Settled`), in which case it is not dispatched again.
`InOrder` says that a transaction holds outcomes of calls behind it only, so that no later call
of the batch takes one back.

`KeysLiveOnce` maps `phase` to the store's entry, but `acted` for a key whose booking is committed
and whose `store.complete` is still to come, `acts` to the bookings made, `held` to the
airline's reservations and `lives` to the restarts.  Each step of `ToolCalls` is then one of
`OncePerLife`, or changes nothing of it; the rollback of `create_booking` is `Abandon`, which
`OncePerLife` has no step for once the key has acted.  Beside the inductive invariant it needs
`ReservedFirst`: a delivery about to commit its booking has the airline's reservation.
`LifeActsOnce` says of `OncePerLife` alone, under the same mapping, that it keeps a key from
booking twice, so that `OneBookingPerLife` follows from the refinement too.

`AccountsProofs` proves, for any number of browsers, threads, sessions, links, passwords and
requests:

| theorem | statement |
|---|---|
| `Invariance` | `Spec => []IInv` |
| `TypeCorrect` | `Spec => []TypeOK` |
| `LastPasswordStays` | `Spec => []PasswordIsLastSet` |
| `LinksStaySingle` | `Spec => []ResetLinksAreSingle` |
| `NoSessionOfOldPassword` | `Spec => []SessionsKnowThePassword` |
| `RevocationIsFinal` | `Spec => RevokedForGood` |
| `CookiesInvariance` | `Spec => []BInv` |
| `BrowserStaysSignedIn` | `Spec => []BrowserKeepsSession` |

from `AccountsAssumption` (the bounds are naturals, `None` is nothing else).
`SessionsKnowThePassword` speaks of moments at which no request is under way, and so says
nothing of the three commits of a change.  Its strengthening `OlderSessionsEnd` does: a live session
of an older password is there only while some request is about to revoke all sessions.  A
change makes that true by arriving at `revoke_all` with its first commit, and what comes
between, a login or another change, either knows the new password or is late.
`LinkRequestsFit` is about reset links: a request for one knows all the good ones, as long as no
two such requests overlapped (`AskersKnowTheLinks`), and a request that is about to use a link
is alone with it, and the link has set no password yet, unless it is `shared` (`UsersAreAlone`).
`RequestsFit` carries what a request's next step uses, and `AccountFirst` that nothing
precedes the account.

`BrowserKeepsSession` speaks of a browser that waits for nothing; its strengthening `CookiesFit`,
on top of `IInv` in `BInv`, holds in the middle of its requests and beside the crashes too.  A
browser *names* the session of its cookie, and the one a refresh of its own is about to
rotate.  Two browsers never name the same session (`NamesApart`), so that a refresh makes no
other browser's cookie stale; every named session exists (`NamesExist`), so that a new one is
nobody's yet; and a browser whose requests never overlapped has one request at a time
(`OneRequestEach`), so that a refresh still finds the cookie it was sent with (`RefreshesFit`).
Revocation and expiry change nothing of this: they leave the token as it is.

`AuthorizationProofs` and `FaresProofs` are about operators, with no behaviour and no
induction:

| theorem | statement |
|---|---|
| `CustomersKeepToTheirOwn` | an account that is only a customer is let through to a resource only if it owns it |
| `TokensOpenOneBooking` | a token opens no payment, profile or staff list |
| `StrangersNeedAToken` | without a session a booking opens only to a usable token |
| `RefundsAreForFinance` | whoever may refund is FINANCE, ADMIN or SUPER_ADMIN |
| `VoiceIsNeverStaff` | the voice assistant holds little more than a customer, and no staff tool opens to anybody |
| `RefundIsBounded`, `LaterRefundsLess` | fee and refund add up to the total, and neither is negative; a later cancellation returns no more |
| `AdultsPayTheQuote` | a change charges a party of adults what a quote would |
| `OffersAreFoundAgain`, `PremiumIsLost` | every offer is found by its flight id, but the premium-economy ones |
| `VoiceSearchFails` | no search by voice succeeds |
| `CabinsAreOrdered` | a better cabin never costs less |

`VapiSetupProofs` proves, for every registry of tools, any number of people who run the
script, of runs and of failing requests:

| theorem | statement |
|---|---|
| `Invariance` | `Spec => []IInv` |
| `TypeCorrect` | `Spec => []TypeOK` |
| `NoDuplicates` | `Spec => []NoDuplicateTools` |
| `Complete` | `Spec => []AssistantsAreComplete` |
| `Uniform` | `Spec => RunsAreUniform` |

from `SetupAssumption` (the registry names no tool twice, and none as the transfer tool) and
`NoneAssumption`.  The account only grows: no request of the script removes a tool or changes
its name.  So what a run's snapshot says stays true whatever other runs do (`RunsFit`), and
an assistant that had every tool keeps them.  That is enough for `AssistantsAreComplete`, with
overlapping runs too.  The other two need more: a run that nobody overlaps knows every
tool there is (`RunsKnow`), so a name it did not find has no tool until the run itself
creates one, and by the end all it collected is of its own configuration.

`AccessProofs` proves, for any number of bookings, tokens, threads, attempts and faults:

| theorem | statement |
|---|---|
| `Invariance` | `Spec => []IInv` |
| `TypeCorrect` | `Spec => []TypeOK` |
| `OnlyTheEntitled` | `Spec => []EntitledOnly` |
| `OnlyTheVerified` | `Spec => []DispatchedIsVerified` |
| `AttemptsAreCounted` | `Spec => []GuessesAreCounted` |
| `LocksAreMeasured` | `Spec => []FailuresAreCounted` |
| `NothingIsInvented` | `Spec => []NothingInvented` |

from `BookingsAssumption` (the words for "no such booking" name none, and an owner is
known for each) and `BoundsAssumption` (the limits are positive, and `Saturation` is where the
backoff has reached its cap) and `PowersAssumption` (the powers of two that the backoff
takes are naturals and grow: plain arithmetic, but the provers have no definition of `^`; TLC evaluates
it).  A row keeps the booking and the purpose it was started for,
and the step that finds a match notes it in `earned`; so whatever overlapping commits
make of the row, it is verified only if some request had earned it (`RowsFit`,
`RequestsFit`).  The first two theorems follow with the facts about the decisions that
`AuthorizationProofs` has.  A count is exact as long as one request at a time works on it,
because its copy is then what the database, or the store, still holds (`CountsFit`,
`LocksFit`).  `NothingInvented` needs no such condition: overlap, rollback and a lost store can
only lose counts.  A request's copy counts at most what was submitted plus the guess it is
about to add (`CopiesCountAtMost`), so that neither its commit nor its loss makes a row count
more (`RowsCountAtMost`); what a failure has read of the store is at most what was recorded
(`ReadsAtMost`), and since `Backoff` grows with the count no lock outlasts what the
failures ask for (`LocksAtMost`).

`BookingsProofs` proves, for any number of threads, callers, keys, bookings, flights,
passengers and failing commits:

| theorem | statement |
|---|---|
| `Invariance` | `Spec => []IInv` |
| `TypeCorrect` | `Spec => []TypeOK` |
| `CreatedOnce` | `Spec => []BookedOnce` |
| `CancelledForGood` | `Spec => []CancelledAtAirline` |
| `PassengerInvariance` | `Spec => []PInv` |
| `ManifestStaysKnown` | `Spec => []ManifestIsKnown` |
| `RowsInvariance` | `Spec => []FInv` |
| `RowsStayInLine` | `Spec => []RowFollowsAirline` |

from `BookingsAssumption` (a new booking has a passenger, the kinds of keys do not overlap,
people are finitely many and prices are amounts) and `NoneAssumption`.  Three things never change once they are there: the
reference of a row, the key of a booking at the airline, and that it is cancelled there.
So what a request holds of its booking stays true across its call to the airline and up to its
commit, whatever commits in between (`HoldsOld`, `HoldsNew`), and a CANCELLED that a stale
copy writes back is still true at the airline (`CancelledForGood`).  For `CreatedOnce`:
`store.begin` lets one request in for a key, nobody has a row for that key until it inserts
one, and whoever has a row keeps the key from being given out again (`KeysAreHeld`); while no
commit failed, a booking at the airline has its row, or the request that is about to write
it (`NoneIsLost`).

`ManifestIsKnown` is about moments between requests.  In the middle of them the manifest is
ahead of the row, by what requests have told the airline and not committed, and `PInv` says by
how much: whoever is on the manifest is in the row, unless a request is about to remove them, or
is about to be added (`ManifestIsAhead`).  A commit that writes the difference of two
collections then closes exactly the gap of its own request, stale copy or not, because nobody
else is about to write the same passenger (`OneWriter`): the airline gives every added
passenger an id nobody has seen (`AddedUnseen`), and of two removals it refuses the second.

`RowFollowsAirline` holds for a booking that one request at a time works on.  Then what a
request has read is still in the row (`ReadsHold`), what it is about to write is what the
airline has (`WritesAgree`), and the commit, which leaves unchanged columns alone, writes
just that (`WrittenAlone`).  Three facts about single steps complete `FInv`: a key that the
airline has seen from `modify_booking` is of the booking the request is about
(`ChangesAreSeen`), so that the repeated answer is about the same booking; while no commit
has failed the airline never knows the key of a booking still to be made (`StillUnknown`);
and a commit that only adds a passport changes nothing else, so that its failure loses
nothing (`ChecksFit`).

### 4.1 Model-checked only

- Liveness, which is out of the prover's reach: `ChargeIsEventuallyRecorded`,
  `EveryDeliveryEnds`, `LocksEnd`, and `KeysAreReleased` of `Bookings`.
- The hypothesis of `BooksCoverWhileUndisturbed` is the constraint of `PaymentsUndisturbed`.  That of
  `AddedOnceUnlessFault` is built into the instance of `ToolCallsSerial`, which is stricter (one
  thread): the theorem says more than the run.
- What `MCBookings` evaluates over a range of values, save where `FaresProofs` has it for
  all.

## 5. Running

    tlc -config PaymentsCreate.cfg MCPayments     # PaymentsRefund, PaymentsUndisturbed,
                                                  # PaymentsLive, FalselyRefunded
    tlc -config ToolCallsBatch.cfg MCToolCalls    # ToolCallsSerial
    tlc -config Access.cfg MCAccess               # WebVerificationLost
    tlc -config Accounts.cfg MCAccounts
    tlc -config Bookings.cfg MCBookings
    tlc -config VapiSetup.cfg MCVapiSetup
    tlapm PaymentsProofs.tla                      # and the other modules named *Proofs

Each run ends within five minutes, each proof module within ten.

## 6. What is left

In the order of what it would add:

1. `Payments` and `Bookings` composed, so that a price changes while a Checkout Session is
   open.
2. The other mutating tools inside the batch of `ToolCalls`.
3. `FixedWindowRateLimiter`: a refusal of it changes nothing else, so that only its own count
   could be wrong.

## 7. Not modelled

- The Stripe SDK adapter's request building and error translation, webhook signatures, and the
  real airline adapters (stubs).
- `FixedWindowRateLimiter`.  In `ToolCalls` a refused call is a free choice.
- Notifications: best effort after the commit; nothing reads their outcome.
- Customers' profiles, call records, analytics: reads and aggregates, with no protocol.
- Security headers, encryption, redaction: stateless, cryptographic, or formatting.
- The web dashboard: a client of the API.
