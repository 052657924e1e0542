------------------------------- MODULE Access ------------------------------
(***************************************************************************)
(* Proving to be the holder of a booking, and what the proof opens.        *)
(*                                                                         *)
(* A request loads or starts a VerificationSession and submits one guess   *)
(* of the factors to it: VerificationSessionService.submit, called by the  *)
(* voice tool verify_booking_customer and by the route verify_booking.     *)
(* The guess is scored by the session's state machine (verification.py)    *)
(* and counted by BackoffLockout (rate_limiter.py), whose store is read    *)
(* and written in separate calls.  The voice webhook commits; the route    *)
(* never does, so what it did to the database is gone when it answers.     *)
(*                                                                         *)
(* Whether the factors match is a free choice: submit compares them with   *)
(* the booking the request names, which it does not require to be the      *)
(* session's own.  Time is counted down: ttl is what is left of a          *)
(* session's expires_at, lock what is left of a locked_until.              *)
(***************************************************************************)
EXTENDS Integers, FiniteSets, Tools

CONSTANTS
  Bookings,
  Looked,         \* bound: bookings that requests try to verify
  Owner,          \* booking -> its customer, or Nobody
  Tokens,         \* raw tokens that generate_token may return
  WebPurposes,    \* purposes the web asks for
  Threads,        \* threads that serve requests
  MaxAttempts,    \* DEFAULT_MAX_ATTEMPTS
  Threshold,      \* BackoffLockout.threshold
  BaseBackoff,    \* ... base_backoff_seconds, in ticks
  MaxBackoff,     \* ... max_backoff_seconds, in ticks
  Saturation,     \* bound: failures beyond which the backoff no longer grows
  SessionTTL,     \* DEFAULT_TTL, in ticks
  MaxFaults       \* bound: batches rolled back, and restarts without Redis

ASSUME BookingsAssumption ==
  /\ Bookings \cap {Nobody, "malformed", "unknown"} = {}
  /\ DOMAIN Owner = Bookings
  /\ "lost" \notin Tokens
  /\ Looked \subseteq Bookings

ASSUME BoundsAssumption ==
  /\ MaxAttempts \in Nat \ {0}
  /\ Threshold \in Nat \ {0}
  /\ BaseBackoff \in Nat \ {0}
  /\ MaxBackoff \in Nat \ {0}
  /\ Saturation \in Nat
  /\ Saturation >= Threshold
  /\ BaseBackoff * 2 ^ (Saturation - Threshold) >= MaxBackoff
  /\ SessionTTL \in Nat \ {0}
  /\ MaxFaults \in Nat

(* Arithmetic, which the provers have no definition of ^ to find out.      *)
ASSUME PowersAssumption ==
  \A m, n \in 0..(Saturation - Threshold) :
    2 ^ n \in Nat /\ (m <= n => 2 ^ m <= 2 ^ n)

VARIABLES
  sessions,   \* verification_sessions: token -> its row
  ttl,        \* token -> ticks until its row's expires_at
  issued,     \* tokens that were generated
  failures,   \* RateLimitStore, key verify:{booking} -> its FailureState
  request,    \* thread -> the verification request it serves
  earned,     \* history: <<token, booking, purpose>> of sessions matched in time
  guesses,    \* history: token -> submissions scored and committed
  uncounted,  \* history: tokens with a submission that overlapped or was lost
  misses,     \* history: booking -> failures recorded since the last reset
              \* that met no failure on its way
  blurred,    \* history: bookings with a failure that overlapped another
  faults

vars == <<sessions, ttl, issued, failures, request, earned, guesses, uncounted,
          misses, blurred, faults>>

history == <<earned, guesses, uncounted, misses, blurred>>

-----------------------------------------------------------------------------
(* Types.                                                                  *)

Statuses == {"ABSENT", "VERIFICATION_PENDING", "VERIFIED", "FAILED", "EXPIRED"}
Purposes == WebPurposes \cup {VoicePurpose}

Rows == [booking : Bookings \cup {Nobody}, purpose : Purposes \cup {Nobody},
         status : Statuses, attempts : 0..MaxAttempts]

NoRow == [booking |-> Nobody, purpose |-> Nobody, status |-> "ABSENT", attempts |-> 0]

Channels == {"voice", "web"}

(* The token of a session the web started: no commit ever writes its row.  *)
Lost == "lost"

(* loaded: the row is read and the key is not locked; failing: a failure   *)
(* has been read from the store; scored: the store has been updated.       *)
Requests ==
  [at : {"loaded", "failing", "scored"}, channel : Channels,
   token : Tokens \cup {Lost}, old : Rows, new : Rows,
   read : 0..Saturation]

Idle == [at |-> "idle"]

TypeOK ==
  /\ sessions \in [Tokens -> Rows]
  /\ ttl \in [Tokens -> 0..SessionTTL]
  /\ issued \subseteq Tokens
  /\ failures \in [Bookings -> [count : 0..Saturation, lock : 0..MaxBackoff]]
  /\ request \in [Threads -> Requests \cup {Idle}]
  /\ earned \subseteq issued \X Bookings \X Purposes
  /\ guesses \in [Tokens -> 0..MaxAttempts + 1]
  /\ uncounted \subseteq issued
  /\ misses \in [Bookings -> 0..Saturation]
  /\ blurred \subseteq Bookings
  /\ faults \in 0..MaxFaults

Init ==
  /\ sessions = [token \in Tokens |-> NoRow]
  /\ ttl = [token \in Tokens |-> 0]
  /\ issued = {}
  /\ failures = [b \in Bookings |-> [count |-> 0, lock |-> 0]]
  /\ request = [t \in Threads |-> Idle]
  /\ earned = {}
  /\ guesses = [token \in Tokens |-> 0]
  /\ uncounted = {}
  /\ misses = [b \in Bookings |-> 0]
  /\ blurred = {}
  /\ faults = 0

-----------------------------------------------------------------------------
(* VerificationSessionState.                                               *)

FreshRow(b, purpose) ==
  [booking |-> b, purpose |-> purpose, status |-> "VERIFICATION_PENDING",
   attempts |-> 0]

EffectiveStatus(row, left) ==
  IF row.status = "VERIFICATION_PENDING" /\ left = 0 THEN "EXPIRED" ELSE row.status

(* Mutant: the expiry is forgotten.                                        *)
IsUsableForever(row, left) == row.status = "VERIFIED"

IsUsable(row, left) == row.status = "VERIFIED" /\ left > 0

ScopedTo(row, b, purpose) == row.booking = b /\ row.purpose = purpose

(* Mutant: only a wrong guess counts as an attempt.                        *)
SubmitWrongFactors(row, left, matched) ==
  IF EffectiveStatus(row, left) = "EXPIRED" THEN [row EXCEPT !.status = "EXPIRED"]
  ELSE IF matched THEN [row EXCEPT !.status = "VERIFIED"]
  ELSE [row EXCEPT !.attempts = row.attempts + 1,
                   !.status = IF row.attempts + 1 >= MaxAttempts THEN "FAILED" ELSE @]

(* Mutant: one attempt too many before the session fails.                  *)
SubmitOnceMore(row, left, matched) ==
  IF EffectiveStatus(row, left) = "EXPIRED"
  THEN [row EXCEPT !.status = "EXPIRED"]
  ELSE [row EXCEPT !.attempts = row.attempts + 1,
                   !.status = IF matched THEN "VERIFIED"
                              ELSE IF row.attempts >= MaxAttempts THEN "FAILED"
                              ELSE "VERIFICATION_PENDING"]

(* submit_factor_result, of a row that is not VERIFIED or FAILED.          *)
SubmitFactorResult(row, left, matched) ==
  IF EffectiveStatus(row, left) = "EXPIRED"
  THEN [row EXCEPT !.status = "EXPIRED"]
  ELSE [row EXCEPT !.attempts = row.attempts + 1,
                   !.status = IF matched THEN "VERIFIED"
                              ELSE IF row.attempts + 1 >= MaxAttempts THEN "FAILED"
                              ELSE "VERIFICATION_PENDING"]

(* VerificationSessionService.check.                                       *)
Check(token, b, purpose) ==
  /\ IsUsable(sessions[token], ttl[token])
  /\ ScopedTo(sessions[token], b, purpose)

-----------------------------------------------------------------------------
(* BackoffLockout.                                                         *)

Least(m, n) == IF m <= n THEN m ELSE n

Backoff(count) ==
  IF count < Threshold THEN 0
  ELSE Least(BaseBackoff * 2 ^ (count - Threshold), MaxBackoff)

(* Mutant: a key with enough failures is locked whatever the time.         *)
IsLockedByCount(b) == failures[b].count >= Threshold

IsLocked(b) == failures[b].lock > 0

(* Mutant: the exponent is one too large.                                  *)
AfterFailureDoubled(read) ==
  LET count == Least(read + 1, Saturation)
  IN  [count |-> count, lock |-> Backoff(count + 1)]

AfterFailure(read) ==
  LET count == Least(read + 1, Saturation)
  IN  [count |-> count, lock |-> Backoff(count)]

-----------------------------------------------------------------------------
(* A request.  One that is refused because its token has no row or its key *)
(* is locked changes nothing the model keeps: a row it may have started is *)
(* one whose token nobody was told.                                        *)

InFlight(token) == {t \in Threads : request[t] # Idle /\ request[t].token = token}

Begin(t, channel, token, row) ==
  /\ request[t] = Idle
  /\ ~IsLocked(row.booking)
  /\ request' = [request EXCEPT ![t] =
       [at |-> "loaded", channel |-> channel, token |-> token,
        old |-> IF token \in issued THEN row ELSE NoRow, new |-> row, read |-> 0]]
  /\ uncounted' = IF channel = "web" \/ InFlight(token) # {}
                  THEN uncounted \cup ({token} \ {Lost}) ELSE uncounted

(* start, then the first half of submit.                                   *)
StartVoice(t, token, b) ==
  /\ token \notin issued
  /\ Begin(t, "voice", token, FreshRow(b, VoicePurpose))
  /\ issued' = issued \cup {token}
  /\ ttl' = [ttl EXCEPT ![token] = SessionTTL]
  /\ UNCHANGED <<sessions, failures, earned, guesses, misses, blurred, faults>>

StartWeb(t, b, purpose) ==
  /\ Begin(t, "web", Lost, FreshRow(b, purpose))
  /\ UNCHANGED <<sessions, ttl, issued, failures, earned, guesses, misses,
                 blurred, faults>>

(* The first half of submit, with the token of an earlier answer.          *)
LoadSession(t, channel, token) ==
  /\ sessions[token].status # "ABSENT"
  /\ Begin(t, channel, token, sessions[token])
  /\ UNCHANGED <<sessions, ttl, issued, failures, earned, guesses, misses,
                 blurred, faults>>

(* The rest of submit.  A session that is over is not scored again.        *)
Refuse(t) ==
  /\ request[t].at = "loaded"
  /\ request[t].new.status \in {"VERIFIED", "FAILED"}
  /\ request' = [request EXCEPT ![t] = Idle]
  /\ UNCHANGED <<sessions, ttl, issued, failures, history, faults>>

FailingOn(u, b) == request[u].at = "failing" /\ request[u].new.booking = b

Left(token) == IF token = Lost THEN SessionTTL ELSE ttl[token]

Score(t, matched) ==
  LET r == request[t]
      b == r.new.booking
  IN  /\ r.at = "loaded"
      /\ r.new.status \notin {"VERIFIED", "FAILED"}
      /\ request' = [request EXCEPT
           ![t].at = IF matched THEN "scored" ELSE "failing",
           ![t].new = SubmitFactorResult(r.new, Left(r.token), matched),
           ![t].read = IF matched THEN 0 ELSE failures[b].count]
      /\ failures' = IF matched
                     THEN [failures EXCEPT ![b] = [count |-> 0, lock |-> 0]]
                     ELSE failures
      /\ misses' = IF matched /\ ~\E u \in Threads : FailingOn(u, b)
                   THEN [misses EXCEPT ![b] = 0] ELSE misses
      /\ earned' = IF /\ matched
                      /\ r.token # Lost
                      /\ EffectiveStatus(r.new, Left(r.token)) # "EXPIRED"
                   THEN earned \cup {<<r.token, b, r.new.purpose>>}
                   ELSE earned
      /\ blurred' = IF \E u \in Threads \ {t} : FailingOn(u, b)
                    THEN blurred \cup {b} ELSE blurred
      /\ UNCHANGED <<sessions, ttl, issued, guesses, uncounted, faults>>

RecordFailure(t) ==
  LET b == request[t].new.booking
  IN  /\ request[t].at = "failing"
      /\ failures' = [failures EXCEPT ![b] = AfterFailure(request[t].read)]
      /\ request' = [request EXCEPT ![t].at = "scored", ![t].read = 0]
      /\ misses' = [misses EXCEPT ![b] = Least(@ + 1, Saturation)]
      /\ UNCHANGED <<sessions, ttl, issued, earned, guesses, uncounted, blurred,
                     faults>>

(* What a commit writes: a new row, or the columns that were changed.      *)
Written(current, old, new) ==
  IF old = NoRow THEN new
  ELSE [current EXCEPT
         !.status = IF new.status # old.status THEN new.status ELSE @,
         !.attempts = IF new.attempts # old.attempts THEN new.attempts ELSE @]

(* The answer of a request, which the holder of the token hears.           *)
Answer(t) ==
  /\ request[t].at = "scored"
  /\ request' = [request EXCEPT ![t] = Idle]
  /\ UNCHANGED <<ttl, issued, failures, earned, misses, blurred>>

AnswerVoice(t) ==
  LET r == request[t]
  IN  /\ Answer(t)
      /\ r.channel = "voice"
      /\ sessions' = [sessions EXCEPT ![r.token] = Written(@, r.old, r.new)]
      /\ guesses' = IF r.new.status = "EXPIRED" THEN guesses
                    ELSE [guesses EXCEPT ![r.token] = Least(@ + 1, MaxAttempts + 1)]
      /\ UNCHANGED <<uncounted, faults>>

(* A later call of the batch rolls the database session back, or the       *)
(* commit fails.                                                           *)
AnswerVoiceRolledBack(t) ==
  /\ Answer(t)
  /\ request[t].channel = "voice"
  /\ faults < MaxFaults
  /\ faults' = faults + 1
  /\ uncounted' = uncounted \cup {request[t].token}
  /\ UNCHANGED <<sessions, guesses>>

(* get_db closes the session without a commit.                             *)
AnswerWeb(t) ==
  /\ Answer(t)
  /\ request[t].channel = "web"
  /\ UNCHANGED <<sessions, guesses, uncounted, faults>>

-----------------------------------------------------------------------------
(* The surroundings.                                                       *)

Tick ==
  /\ ttl' = [token \in Tokens |-> IF ttl[token] = 0 THEN 0 ELSE ttl[token] - 1]
  /\ failures' = [b \in Bookings |->
       [failures[b] EXCEPT !.lock = IF @ = 0 THEN 0 ELSE @ - 1]]
  /\ UNCHANGED <<sessions, issued, request, history, faults>>

(* The store forgets a key after a day, which is longer than any lock.     *)
Forget(b) ==
  /\ ~IsLocked(b)
  /\ \A t \in Threads : request[t] = Idle
  /\ failures' = [failures EXCEPT ![b].count = 0]
  /\ misses' = [misses EXCEPT ![b] = 0]
  /\ blurred' = blurred \ {b}
  /\ UNCHANGED <<sessions, ttl, issued, request, earned, guesses, uncounted,
                 faults>>

(* A crash.  Without REDIS_URL the store is the process's own memory.      *)
Restart ==
  /\ faults < MaxFaults
  /\ faults' = faults + 1
  /\ request' = [t \in Threads |-> Idle]
  /\ failures' = [b \in Bookings |-> [count |-> 0, lock |-> 0]]
  /\ misses' = [b \in Bookings |-> 0]
  /\ blurred' = {}
  /\ uncounted' = uncounted \cup {token \in issued : InFlight(token) # {}}
  /\ UNCHANGED <<sessions, ttl, issued, earned, guesses>>

Step(t) ==
  \/ \E token \in Tokens, b \in Looked : StartVoice(t, token, b)
  \/ \E b \in Looked, purpose \in WebPurposes : StartWeb(t, b, purpose)
  \/ \E channel \in Channels, token \in Tokens : LoadSession(t, channel, token)
  \/ Refuse(t)
  \/ \E matched \in BOOLEAN : Score(t, matched)
  \/ RecordFailure(t)
  \/ AnswerVoice(t)
  \/ AnswerVoiceRolledBack(t)
  \/ AnswerWeb(t)

Next ==
  \/ \E t \in Threads : Step(t)
  \/ Tick
  \/ \E b \in Looked : Forget(b)
  \/ Restart

Spec == Init /\ [][Next]_vars

(* Time passes.  Nothing else needs to happen.                             *)
FairSpec == Spec /\ WF_vars(Tick)

-----------------------------------------------------------------------------
(* Properties.                                                             *)

(* What a request without an account may do, as a function of whether its  *)
(* token passes check().                                                   *)
WebEntry == [b \in Bookings |-> [purpose \in Purposes |-> [usable \in BOOLEAN |->
  \/ RequireBookingAccess(Anonymous, Owner[b], b, "bookings.cancel", purpose,
                          usable) = "allow"
  \/ RequirePassengerAccess(Anonymous, Owner[b], b, "passengers.manage", purpose,
                            usable) = "allow"]]]

VoiceCall(tool, b, confirmed) ==
  [tool |-> tool, args |-> SchemaRequired[tool] \cup Alternatives(tool), pnr |-> b,
   confirmed |-> confirmed]

VoiceEntry == [b \in Bookings |-> [confirmed \in BOOLEAN |-> [usable \in BOOLEAN |->
  {tool \in VerifiedTools :
     HandleToolCall(VoiceCall(tool, b, confirmed), Owner[b], usable) = "dispatched"}]]]

CountsAtMost(row, n) == row.attempts <= n /\ (row.status = "FAILED" => MaxAttempts <= n)

EarnedFor(token, b, purpose) == <<token, b, purpose>> \in earned /\ ttl[token] > 0

(* ownership.py and verification_service.py: a request without an account  *)
(* reaches a booking, for a purpose, only with a token whose session was   *)
(* started for that booking and that purpose and matched while it was      *)
(* pending and in time, and only until the session's end.                  *)
EntitledOnly ==
  \A token \in Tokens, b \in Bookings, purpose \in Purposes :
    WebEntry[b][purpose][Check(token, b, purpose)] => EarnedFor(token, b, purpose)

(* vapi.py: of the tools that need a verified booking, one is dispatched   *)
(* only with a token earned for that booking on the voice channel, and one *)
(* whose schema requires a confirmation only with a confirmation.          *)
DispatchedIsVerified ==
  \A token \in Tokens, b \in Bookings, confirmed \in BOOLEAN :
    LET tools == VoiceEntry[b][confirmed][Check(token, b, VoicePurpose)]
    IN  /\ tools # {} => EarnedFor(token, b, VoicePurpose)
        /\ tools \cap RequiresConfirmation # {} => confirmed

(* schemas/booking.py: retries with the same token accumulate on one       *)
(* session.  However submissions overlap and whatever is rolled back, a row*)
(* counts no guess that was not made, and no session fails before its      *)
(* MaxAttempts.  While the submissions of a session neither overlap nor are*)
(* lost, each is in its row and there are at most MaxAttempts of them.     *)
GuessesAreCounted ==
  /\ \A token \in issued : CountsAtMost(sessions[token], guesses[token])
  /\ \A token \in issued \ uncounted :
       /\ sessions[token].attempts = guesses[token]
       /\ guesses[token] <= MaxAttempts

(* rate_limiter.py: however failures and successes overlap, a booking is   *)
(* locked for no longer than the failures recorded for it ask for, and     *)
(* failures that do not overlap are all counted.                           *)
FailuresAreCounted ==
  \A b \in Bookings :
    /\ failures[b].count <= misses[b]
    /\ failures[b].lock <= Backoff(misses[b])
    /\ b \notin blurred /\ (\A t \in Threads : request[t] # Idle => request[t].new.booking # b)
         => failures[b].count = misses[b]

(* rate_limiter.py:150 "Never permanent": whatever requests do, a booking  *)
(* accepts a guess again and again.                                        *)
LocksEnd == \A b \in Bookings : []<>~IsLocked(b)

(* verification_service.py:64 has cancel and modify requests present "a    *)
(* token from a *completed* submit() call": a request whose answer is      *)
(* VERIFIED leaves a VERIFIED row behind for the token it answers with.    *)
VerifiedIsUsable ==
  [][\A t \in Threads :
       LET r == request[t]
       IN  r.at = "scored" /\ request'[t] = Idle /\ faults' = faults
             => \/ r.new.status # "VERIFIED"
                \/ r.token # Lost /\ sessions'[r.token].status = "VERIFIED"]_vars

(* tool_schemas.py:475 "an unimplemented tool still needs to exist ... so  *)
(* the LLM can call it and be told 'not available yet'": a caller whose    *)
(* booking is verified is told so.                                         *)
UnimplementedIsTold ==
  \A tool \in NotImplemented \cap VerifiedTools, token \in Tokens, b \in Bookings :
    Check(token, b, VoicePurpose)
      => HandleToolCall(VoiceCall(tool, b, TRUE), Owner[b], TRUE) = "not_implemented"

=============================================================================
