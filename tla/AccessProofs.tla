---------------------------- MODULE AccessProofs ----------------------------
(***************************************************************************)
(* Proofs about verification and lockout: for any number of bookings,      *)
(* tokens, threads, attempts and faults.                                   *)
(*                                                                         *)
(* The argument.  A row keeps the booking and the purpose it was started   *)
(* for, and a request that goes from pending to matched notes so at that   *)
(* moment: what a commit later makes of the row, overlapping commits       *)
(* included, is verified only if some request had earned it.  A count is   *)
(* exact as long as one request at a time works on it, because that        *)
(* request's copy is then what the database, or the store, still holds.    *)
(***************************************************************************)
EXTENDS Access, AuthorizationProofs

-----------------------------------------------------------------------------
(* The inductive invariant.                                                *)

Busy == {t \in Threads : request[t] # Idle}

Unfinished(row) == row.status = "VERIFICATION_PENDING" => row.attempts < MaxAttempts
Started(row) == row.status # "ABSENT" /\ row.booking \in Bookings /\ row.purpose \in Purposes

RowFits(token) ==
  /\ sessions[token] = NoRow \/ (Started(sessions[token]) /\ token \in issued)
  /\ Unfinished(sessions[token])
  /\ sessions[token].status = "VERIFIED" =>
       <<token, sessions[token].booking, sessions[token].purpose>> \in earned

RowsFit == \A token \in Tokens : RowFits(token)

RequestFits(t) ==
  LET r == request[t]
  IN  /\ r.token \in issued \cup {Lost}
      /\ r.channel = "voice" => r.token \in issued
      /\ Started(r.new) /\ Unfinished(r.new)
      /\ r.new.status = "VERIFIED" /\ r.token # Lost =>
           <<r.token, r.new.booking, r.new.purpose>> \in earned
      /\ r.old # NoRow /\ r.new.status # r.old.status =>
           r.new.status # "VERIFICATION_PENDING"
      /\ r.old # NoRow /\ r.new.attempts # r.old.attempts =>
           r.old.status = "VERIFICATION_PENDING"
      /\ r.token # Lost /\ r.old = NoRow =>
           /\ sessions[r.token] = NoRow
           /\ \A u \in Busy : request[u].token = r.token => u = t
      /\ r.token # Lost /\ r.old # NoRow =>
           /\ sessions[r.token] # NoRow
           /\ sessions[r.token].booking = r.new.booking
           /\ sessions[r.token].purpose = r.new.purpose

(* Until it is scored, a copy is the row that was read.                    *)
LoadedFits(t) ==
  LET r == request[t]
  IN  r.at = "loaded" /\ r.old # NoRow => r.new = r.old

RequestsFit == \A t \in Busy : RequestFits(t) /\ LoadedFits(t)

(* A count of guesses.                                                     *)
CopyFits(t) ==
  LET r == request[t]
  IN  /\ r.old = sessions[r.token]
      /\ r.at = "loaded" => r.new.attempts = r.old.attempts
      /\ r.at # "loaded" /\ r.new.status = "EXPIRED" => r.new.attempts = r.old.attempts
      /\ r.at # "loaded" /\ r.new.status # "EXPIRED" => r.new.attempts = r.old.attempts + 1
      /\ r.channel = "voice"

CountFits(token) ==
  /\ sessions[token].attempts = guesses[token]
  /\ \A t \in Busy : request[t].token = token => CopyFits(t)
  /\ \A t, u \in Busy : request[t].token = token /\ request[u].token = token => t = u

CountsFit ==
  /\ \A token \in Tokens \ issued : guesses[token] = 0
  /\ \A token \in issued \ uncounted : CountFits(token)

(* A count of failures.                                                    *)
Failing(b) == {t \in Busy : request[t].at = "failing" /\ request[t].new.booking = b}

LockFits(b) ==
  /\ failures[b].count = misses[b]
  /\ failures[b].lock <= Backoff(misses[b])
  /\ \A t \in Failing(b) : request[t].read = misses[b]
  /\ \A t, u \in Failing(b) : t = u

LocksFit == \A b \in Bookings \ blurred : LockFits(b)

IInv == TypeOK /\ RowsFit /\ RequestsFit /\ CountsFit /\ LocksFit

-----------------------------------------------------------------------------
(* Operators.                                                              *)

LEMMA Tokenless == Lost \notin Tokens /\ NoRow \in Rows /\ Nobody \notin Bookings
BY BookingsAssumption, BoundsAssumption DEF Lost, NoRow, Rows, Statuses

LEMMA BackoffFacts ==
  /\ \A count \in 0..Saturation : Backoff(count) \in 0..MaxBackoff
  /\ Backoff(0) = 0
<1>1. /\ Threshold \in Nat \ {0} /\ BaseBackoff \in Nat /\ MaxBackoff \in Nat
      /\ Saturation \in Nat
  BY BoundsAssumption
<1>2. ASSUME NEW count \in 0..Saturation, count >= Threshold
      PROVE  BaseBackoff * 2 ^ (count - Threshold) \in Nat
  <2>1. count - Threshold \in 0..(Saturation - Threshold)
    BY <1>1, <1>2
  <2>2. 2 ^ (count - Threshold) \in Nat
    BY <2>1, PowersAssumption
  <2> QED
    BY <1>1, <2>2
<1>3. Backoff(0) = 0
  BY <1>1 DEF Backoff
<1>4. ASSUME NEW count \in 0..Saturation PROVE Backoff(count) \in 0..MaxBackoff
  <2>1. CASE count < Threshold
    BY <1>1, <2>1 DEF Backoff
  <2>2. CASE count >= Threshold
    <3> DEFINE power == BaseBackoff * 2 ^ (count - Threshold)
    <3>1. power \in Nat
      BY <1>2, <2>2
    <3>2. Backoff(count) = IF power <= MaxBackoff THEN power ELSE MaxBackoff
      BY <1>1, <2>2 DEF Backoff, Least
    <3> HIDE DEF power
    <3> QED
      BY <1>1, <3>1, <3>2
  <2> QED
    BY <1>1, <2>1, <2>2
<1> QED
  BY <1>3, <1>4

LEMMA LeastFacts ==
  ASSUME NEW m \in Nat, NEW n \in Nat
  PROVE  /\ Least(m, n) \in Nat /\ Least(m, n) <= m /\ Least(m, n) <= n
         /\ m <= n => Least(m, n) = m
BY DEF Least

(* What becomes of a row that is scored.                                   *)
LEMMA SubmitFacts ==
  ASSUME NEW row \in Rows, Started(row), Unfinished(row),
         row.status \notin {"VERIFIED", "FAILED"}, NEW left, NEW matched \in BOOLEAN
  PROVE  LET new == SubmitFactorResult(row, left, matched)
         IN  /\ new \in Rows /\ Started(new) /\ Unfinished(new)
             /\ new.booking = row.booking /\ new.purpose = row.purpose
             /\ new.status = "VERIFIED" =>
                  matched /\ EffectiveStatus(row, left) # "EXPIRED"
             /\ new.status # "EXPIRED" =>
                  new.attempts = row.attempts + 1 /\ row.status = "VERIFICATION_PENDING"
             /\ new.status = "EXPIRED" => new.attempts = row.attempts
<1>1. row.status \in {"VERIFICATION_PENDING", "EXPIRED"} /\ row.attempts \in 0..MaxAttempts
  BY DEF Rows, Statuses, Started
<1>2. MaxAttempts \in Nat
  BY BoundsAssumption
<1>3. CASE EffectiveStatus(row, left) = "EXPIRED"
  <2>1. SubmitFactorResult(row, left, matched) = [row EXCEPT !.status = "EXPIRED"]
    BY <1>3 DEF SubmitFactorResult
  <2> QED
    BY <2>1 DEF Rows, Statuses, Started, Unfinished
<1>4. CASE EffectiveStatus(row, left) # "EXPIRED"
  <2>1. row.status = "VERIFICATION_PENDING" /\ row.attempts < MaxAttempts
    BY <1>1, <1>4 DEF EffectiveStatus, Unfinished
  <2> DEFINE status == IF matched THEN "VERIFIED"
                       ELSE IF row.attempts + 1 >= MaxAttempts THEN "FAILED"
                       ELSE "VERIFICATION_PENDING"
             new == [row EXCEPT !.attempts = row.attempts + 1, !.status = status]
  <2>2. SubmitFactorResult(row, left, matched) = new
    BY <1>4 DEF SubmitFactorResult
  <2>3. /\ status \in Statuses \ {"ABSENT", "EXPIRED"}
        /\ status = "VERIFIED" => matched
        /\ status = "VERIFICATION_PENDING" => row.attempts + 1 < MaxAttempts
    BY <1>1, <1>2 DEF Statuses
  <2>4. row.attempts + 1 \in 0..MaxAttempts
    BY <1>1, <1>2, <2>1
  <2> HIDE DEF status
  <2>5. /\ new \in Rows /\ new.status = status /\ new.attempts = row.attempts + 1
        /\ new.booking = row.booking /\ new.purpose = row.purpose
    BY <2>3, <2>4 DEF Rows
  <2> HIDE DEF new
  <2> QED
    BY <1>4, <2>1, <2>2, <2>3, <2>5 DEF Started, Unfinished
<1> QED
  BY <1>3, <1>4

-----------------------------------------------------------------------------
(* Beginnings and ends of requests.                                        *)

LEMMA InitInv == Init => IInv
<1> SUFFICES ASSUME Init PROVE IInv
  OBVIOUS
<1>1. TypeOK
  <2>1. /\ MaxAttempts \in Nat /\ Saturation \in Nat /\ SessionTTL \in Nat
        /\ MaxFaults \in Nat /\ MaxBackoff \in Nat
    BY BoundsAssumption
  <2>2. sessions \in [Tokens -> Rows]
    BY Tokenless DEF Init
  <2> QED
    BY <2>1, <2>2 DEF Init, TypeOK
<1>2. Busy = {}
  BY DEF Init, Busy
<1>3. RowsFit
  BY DEF Init, RowsFit, RowFits, NoRow, Unfinished
<1>4. RequestsFit /\ CountsFit
  BY <1>2 DEF Init, RequestsFit, CountsFit
<1>5. LocksFit
  <2>1. \A b \in Bookings : Failing(b) = {}
    BY <1>2 DEF Failing
  <2> QED
    BY <2>1, BackoffFacts DEF Init, LocksFit, LockFits
<1> QED
  BY <1>1, <1>3, <1>4, <1>5 DEF IInv

(* A request that ends and leaves everything but its count alone.          *)
LEMMA EndInv ==
  ASSUME IInv, NEW t \in Threads, request[t] # Idle,
         request' = [request EXCEPT ![t] = Idle],
         UNCHANGED <<sessions, ttl, issued, failures, earned, guesses, misses, blurred>>,
         uncounted \subseteq uncounted', uncounted' \subseteq issued,
         faults' \in 0..MaxFaults
  PROVE  IInv'
<1>1. TypeOK
  BY DEF IInv
<1>2. /\ request'[t] = Idle
      /\ \A u \in Threads : u # t => request'[u] = request[u]
      /\ request' \in [Threads -> Requests \cup {Idle}]
  BY <1>1 DEF TypeOK
<1>3. Busy' = Busy \ {t}
  BY <1>2 DEF Busy
<1>4. TypeOK'
  BY <1>1, <1>2 DEF TypeOK
<1>5. RowsFit'
  BY DEF IInv, RowsFit, RowFits
<1>6. RequestsFit'
  <2>1. ASSUME NEW u \in Busy, u # t PROVE RequestFits(u)' /\ LoadedFits(u)'
    <3>1. RequestFits(u) /\ LoadedFits(u) /\ request'[u] = request[u]
      BY <1>2, <2>1 DEF IInv, RequestsFit, Busy
    <3>2. \A v \in Busy' : v \in Busy /\ request'[v] = request[v]
      BY <1>2, <1>3 DEF Busy
    <3>3. RequestFits(u)'
      BY <3>1, <3>2 DEF RequestFits
    <3> QED
      BY <3>1, <3>3 DEF LoadedFits
  <2> QED
    BY <1>3, <2>1 DEF RequestsFit
<1>7. CountsFit'
  <2>1. \A v \in Busy' : v \in Busy /\ request'[v] = request[v]
    BY <1>2, <1>3 DEF Busy
  <2>2. ASSUME NEW token \in issued \ uncounted' PROVE CountFits(token)'
    <3>1. CountFits(token)
      BY <2>2 DEF IInv, CountsFit
    <3> QED
      BY <2>1, <3>1 DEF CountFits, CopyFits
  <2> QED
    BY <2>2 DEF IInv, CountsFit
<1>8. LocksFit'
  <2>1. \A b \in Bookings : \A u \in Failing(b)' : u \in Failing(b) /\ request'[u] = request[u]
    BY <1>2, <1>3 DEF Failing, Busy
  <2>2. ASSUME NEW b \in Bookings \ blurred PROVE LockFits(b)'
    <3>1. LockFits(b)
      BY <2>2 DEF IInv, LocksFit
    <3> QED
      BY <2>1, <3>1 DEF LockFits
  <2> QED
    BY <2>2 DEF LocksFit
<1> QED
  BY <1>4, <1>5, <1>6, <1>7, <1>8 DEF IInv

(* A request begins with a row of its own, or with the row of its token.   *)
LEMMA BeginInv ==
  ASSUME IInv, NEW t \in Threads, NEW channel \in Channels, NEW token, NEW row \in Rows,
         Begin(t, channel, token, row),
         UNCHANGED <<sessions, failures, earned, guesses, misses, blurred, faults>>,
         ttl' \in [Tokens -> 0..SessionTTL],
         token \in Tokens \cup {Lost},
         issued' = issued \cup ({token} \ {Lost}),
         channel = "voice" => token # Lost,
         IF token \in issued THEN row = sessions[token] /\ row # NoRow
         ELSE row.status = "VERIFICATION_PENDING" /\ row.attempts = 0 /\ Started(row),
         channel = "voice" \/ token \in issued \cup {Lost}
  PROVE  IInv'
<1> DEFINE begun == [at |-> "loaded", channel |-> channel, token |-> token,
                     old |-> IF token \in issued THEN row ELSE NoRow, new |-> row,
                     read |-> 0]
<1>1. TypeOK
  BY DEF IInv
<1>2. /\ request[t] = Idle
      /\ request' = [request EXCEPT ![t] = begun]
      /\ uncounted' = IF channel = "web" \/ InFlight(token) # {}
                      THEN uncounted \cup ({token} \ {Lost}) ELSE uncounted
  BY DEF Begin
<1>3. /\ begun \in Requests
      /\ begun.at = "loaded" /\ begun.channel = channel /\ begun.token = token
      /\ begun.old = (IF token \in issued THEN row ELSE NoRow) /\ begun.new = row
  <2>1. 0 \in 0..Saturation
    BY BoundsAssumption
  <2>2. (IF token \in issued THEN row ELSE NoRow) \in Rows
    BY Tokenless
  <2> QED
    BY <2>1, <2>2 DEF Requests
<1> HIDE DEF begun
<1>4. /\ request'[t] = begun
      /\ \A u \in Threads : u # t => request'[u] = request[u]
      /\ request' \in [Threads -> Requests \cup {Idle}]
  BY <1>1, <1>2, <1>3 DEF TypeOK
<1>5. begun # Idle
  BY <1>3 DEF Requests, Idle
<1>6. /\ Busy' = Busy \cup {t} /\ t \notin Busy
      /\ \A u \in Busy : request'[u] = request[u]
  BY <1>2, <1>4, <1>5 DEF Busy
<1>7. TypeOK'
  <2>1. /\ issued' \subseteq Tokens
        /\ uncounted' \subseteq issued'
        /\ earned' \subseteq issued' \X Bookings \X Purposes
    BY <1>1, <1>2 DEF TypeOK
  <2> QED
    BY <1>1, <1>4, <2>1 DEF TypeOK
<1>8. RowsFit'
  BY DEF IInv, RowsFit, RowFits
<1>9. Started(row) /\ Unfinished(row)
  <2>1. CASE token \in issued
    BY <1>1, <2>1 DEF IInv, RowsFit, RowFits, TypeOK
  <2>2. CASE token \notin issued
    BY <2>2, BoundsAssumption DEF Unfinished
  <2> QED
    BY <2>1, <2>2
<1>10. token \notin issued /\ token # Lost =>
         /\ sessions[token] = NoRow
         /\ \A u \in Busy : request[u].token # token
  <2>1. \A u \in Busy : request[u].token \in issued \cup {Lost}
    BY DEF IInv, RequestsFit, RequestFits
  <2> QED
    BY <2>1 DEF IInv, RowsFit, RowFits
<1>11. RequestsFit'
  <2>1. RequestFits(t)'
    <3>1. \A u \in Busy' : request'[u].token = token /\ token \notin issued /\ token # Lost
            => u = t
      BY <1>6, <1>10
    <3>2. token \in issued => token \in Tokens /\ token # Lost /\ RowFits(token)
      BY <1>1, Tokenless DEF TypeOK, IInv, RowsFit
    <3>3. token \in issued' \cup {Lost} /\ (channel = "voice" => token \in issued')
      OBVIOUS
    <3>4. CASE token \in issued
      BY <1>3, <1>4, <1>9, <3>1, <3>2, <3>3, <3>4 DEF RequestFits, RowFits
    <3>5. CASE token \notin issued
      BY <1>3, <1>4, <1>9, <1>10, <3>1, <3>3, <3>5 DEF RequestFits
    <3> QED
      BY <3>4, <3>5
  <2>2. LoadedFits(t)'
    BY <1>3, <1>4 DEF LoadedFits
  <2>3. ASSUME NEW u \in Busy PROVE RequestFits(u)' /\ LoadedFits(u)'
    <3>1. RequestFits(u) /\ LoadedFits(u) /\ request'[u] = request[u] /\ u # t
      BY <1>6, <2>3 DEF IInv, RequestsFit
    <3>2. request[u].old = NoRow /\ request[u].token # Lost => request[u].token # token
      <4>1. SUFFICES ASSUME request[u].old = NoRow, request[u].token # Lost,
                            request[u].token = token
                     PROVE  FALSE
        OBVIOUS
      <4>2. token \in issued /\ sessions[token] = NoRow
        BY <3>1, <4>1 DEF RequestFits
      <4> QED
        BY <4>2
    <3>3. request[u].old = NoRow /\ request[u].token # Lost =>
            \A v \in Busy' : request'[v].token = request[u].token => v = u
      BY <1>3, <1>4, <1>6, <3>1, <3>2 DEF RequestFits
    <3>4. RequestFits(u)'
      BY <3>1, <3>3 DEF RequestFits
    <3> QED
      BY <3>1, <3>4 DEF LoadedFits
  <2> QED
    BY <1>6, <2>1, <2>2, <2>3 DEF RequestsFit
<1>12. CountsFit'
  <2>1. \A other \in Tokens \ issued' : guesses'[other] = 0
    BY DEF IInv, CountsFit
  <2>2. ASSUME NEW other \in issued' \ uncounted' PROVE CountFits(other)'
    <3>1. other \in Tokens /\ other # Lost
      BY <1>1, <2>2, Tokenless DEF TypeOK
    <3>2. CASE other = token
      <4>1. channel = "voice" /\ InFlight(token) = {}
        BY <1>2, <2>2, <3>1, <3>2 DEF Channels
      <4>2. \A u \in Busy : request[u].token # token
        BY <4>1 DEF InFlight, Busy
      <4>3. \A u \in Busy' : request'[u].token = token => u = t
        BY <1>6, <4>2
      <4>4. sessions[token].attempts = guesses[token]
        <5>1. CASE token \in issued
          <6>1. token \notin uncounted
            BY <1>2, <2>2, <3>2
          <6> QED
            BY <5>1, <6>1 DEF IInv, CountsFit, CountFits
        <5>2. CASE token \notin issued
          BY <1>10, <3>1, <3>2, <5>2 DEF IInv, CountsFit, NoRow
        <5> QED
          BY <5>1, <5>2
      <4>5. CopyFits(t)'
        <5>1. begun.old = sessions[token]
          BY <1>3, <1>10, <3>1, <3>2
        <5>2. begun.new.attempts = begun.old.attempts
          BY <1>3, <1>10, <3>1, <3>2 DEF NoRow
        <5> QED
          BY <1>3, <1>4, <4>1, <5>1, <5>2 DEF CopyFits
      <4> QED
        BY <3>2, <4>3, <4>4, <4>5 DEF CountFits
    <3>3. CASE other # token
      <4>1. other \in issued \ uncounted
        BY <1>2, <2>2, <3>3
      <4>2. CountFits(other)
        BY <4>1 DEF IInv, CountsFit
      <4>3. \A u \in Busy' : request'[u].token = other => u \in Busy /\ request'[u] = request[u]
        BY <1>3, <1>4, <1>6, <3>3
      <4> QED
        BY <4>2, <4>3 DEF CountFits, CopyFits
    <3> QED
      BY <3>2, <3>3
  <2> QED
    BY <2>1, <2>2 DEF CountsFit
<1>13. LocksFit'
  <2>1. \A b \in Bookings : \A u \in Failing(b)' : u \in Failing(b) /\ request'[u] = request[u]
    BY <1>3, <1>4, <1>6 DEF Failing
  <2>2. ASSUME NEW b \in Bookings \ blurred PROVE LockFits(b)'
    <3>1. LockFits(b)
      BY <2>2 DEF IInv, LocksFit
    <3> QED
      BY <2>1, <3>1 DEF LockFits
  <2> QED
    BY <2>2 DEF LocksFit
<1> QED
  BY <1>7, <1>8, <1>11, <1>12, <1>13 DEF IInv

LEMMA StartVoiceInv ==
  ASSUME IInv, NEW t \in Threads, NEW token \in Tokens, NEW b \in Looked,
         StartVoice(t, token, b)
  PROVE  IInv'
<1>1. /\ FreshRow(b, VoicePurpose) \in Rows
      /\ FreshRow(b, VoicePurpose).status = "VERIFICATION_PENDING"
      /\ FreshRow(b, VoicePurpose).attempts = 0
      /\ Started(FreshRow(b, VoicePurpose))
  BY BookingsAssumption, BoundsAssumption
  DEF FreshRow, Rows, Statuses, Purposes, Started
<1>2. ttl' \in [Tokens -> 0..SessionTTL]
  <2>1. SessionTTL \in 0..SessionTTL
    BY BoundsAssumption
  <2> QED
    BY <2>1 DEF StartVoice, IInv, TypeOK
<1>3. /\ token \notin issued /\ token # Lost
      /\ Begin(t, "voice", token, FreshRow(b, VoicePurpose))
      /\ issued' = issued \cup ({token} \ {Lost})
      /\ UNCHANGED <<sessions, failures, earned, guesses, misses, blurred, faults>>
  BY Tokenless DEF StartVoice
<1> HIDE DEF FreshRow
<1> QED
  BY <1>1, <1>2, <1>3, BeginInv DEF Channels

LEMMA StartWebInv ==
  ASSUME IInv, NEW t \in Threads, NEW b \in Looked, NEW purpose \in WebPurposes,
         StartWeb(t, b, purpose)
  PROVE  IInv'
<1>1. /\ FreshRow(b, purpose) \in Rows
      /\ FreshRow(b, purpose).status = "VERIFICATION_PENDING"
      /\ FreshRow(b, purpose).attempts = 0
      /\ Started(FreshRow(b, purpose))
  BY BookingsAssumption, BoundsAssumption
  DEF FreshRow, Rows, Statuses, Purposes, Started
<1>2. Lost \notin issued
  BY Tokenless DEF IInv, TypeOK
<1>3. /\ Begin(t, "web", Lost, FreshRow(b, purpose))
      /\ issued' = issued \cup ({Lost} \ {Lost})
      /\ ttl' \in [Tokens -> 0..SessionTTL]
      /\ UNCHANGED <<sessions, failures, earned, guesses, misses, blurred, faults>>
  BY DEF StartWeb, IInv, TypeOK
<1> QED
  BY <1>1, <1>2, <1>3, BeginInv DEF Channels

LEMMA LoadSessionInv ==
  ASSUME IInv, NEW t \in Threads, NEW channel \in Channels, NEW token \in Tokens,
         LoadSession(t, channel, token)
  PROVE  IInv'
<1>1. /\ sessions[token] \in Rows /\ sessions[token] # NoRow /\ token \in issued
      /\ token # Lost
  <2>1. sessions[token] \in Rows /\ token # Lost
    BY Tokenless DEF IInv, TypeOK
  <2>2. sessions[token] # NoRow
    BY DEF LoadSession, NoRow
  <2>3. RowFits(token)
    BY DEF IInv, RowsFit
  <2> QED
    BY <2>1, <2>2, <2>3 DEF RowFits
<1>2. /\ Begin(t, channel, token, sessions[token])
      /\ issued' = issued \cup ({token} \ {Lost})
      /\ ttl' \in [Tokens -> 0..SessionTTL]
      /\ UNCHANGED <<sessions, failures, earned, guesses, misses, blurred, faults>>
  BY <1>1 DEF LoadSession, IInv, TypeOK
<1> QED
  BY <1>1, <1>2, BeginInv

LEMMA RefuseInv ==
  ASSUME IInv, NEW t \in Threads, Refuse(t)
  PROVE  IInv'
<1>1. /\ request[t] # Idle
      /\ request' = [request EXCEPT ![t] = Idle]
      /\ UNCHANGED <<sessions, ttl, issued, failures, earned, guesses, misses, blurred,
                     uncounted, faults>>
  BY DEF Refuse, history, Idle
<1>2. uncounted \subseteq issued /\ faults \in 0..MaxFaults
  BY DEF IInv, TypeOK
<1> QED
  BY <1>1, <1>2, EndInv

LEMMA AnswerVoiceRolledBackInv ==
  ASSUME IInv, NEW t \in Threads, AnswerVoiceRolledBack(t)
  PROVE  IInv'
<1>1. /\ request[t] # Idle
      /\ request' = [request EXCEPT ![t] = Idle]
      /\ UNCHANGED <<sessions, ttl, issued, failures, earned, guesses, misses, blurred>>
      /\ request[t].channel = "voice"
      /\ uncounted' = uncounted \cup {request[t].token}
      /\ faults < MaxFaults /\ faults' = faults + 1
  BY DEF AnswerVoiceRolledBack, Answer, Idle
<1>2. request[t].token \in issued
  BY <1>1 DEF IInv, RequestsFit, RequestFits, Busy
<1>3. uncounted' \subseteq issued /\ faults' \in 0..MaxFaults
  BY <1>1, <1>2, BoundsAssumption DEF IInv, TypeOK
<1> QED
  BY <1>1, <1>3, EndInv

LEMMA AnswerWebInv ==
  ASSUME IInv, NEW t \in Threads, AnswerWeb(t)
  PROVE  IInv'
<1>1. /\ request[t] # Idle
      /\ request' = [request EXCEPT ![t] = Idle]
      /\ UNCHANGED <<sessions, ttl, issued, failures, earned, guesses, misses, blurred,
                     uncounted, faults>>
  BY DEF AnswerWeb, Answer, Idle
<1>2. uncounted \subseteq issued /\ faults \in 0..MaxFaults
  BY DEF IInv, TypeOK
<1> QED
  BY <1>1, <1>2, EndInv

-----------------------------------------------------------------------------
(* The commit.                                                             *)

LEMMA AnswerVoiceInv ==
  ASSUME IInv, NEW t \in Threads, AnswerVoice(t)
  PROVE  IInv'
<1> DEFINE r == request[t]
           k == r.token
           row == Written(sessions[k], r.old, r.new)
<1>1. TypeOK
  BY DEF IInv
<1>2. /\ r.at = "scored" /\ r # Idle /\ r.channel = "voice"
      /\ request' = [request EXCEPT ![t] = Idle]
      /\ sessions' = [sessions EXCEPT ![k] = row]
      /\ guesses' = IF r.new.status = "EXPIRED" THEN guesses
                    ELSE [guesses EXCEPT ![k] = Least(@ + 1, MaxAttempts + 1)]
      /\ UNCHANGED <<ttl, issued, failures, earned, misses, blurred, uncounted, faults>>
  BY DEF AnswerVoice, Answer, Idle
<1>3. t \in Busy /\ RequestFits(t) /\ r \in Requests
  BY <1>1, <1>2 DEF IInv, RequestsFit, Busy, TypeOK
<1>4. /\ k \in issued /\ k \in Tokens /\ k # Lost
      /\ r.old \in Rows /\ r.new \in Rows /\ sessions[k] \in Rows
      /\ RowFits(k)
  BY <1>1, <1>2, <1>3, Tokenless DEF RequestFits, TypeOK, Requests, IInv, RowsFit
<1>5. /\ request'[t] = Idle
      /\ \A u \in Threads : u # t => request'[u] = request[u]
      /\ request' \in [Threads -> Requests \cup {Idle}]
  BY <1>1, <1>2 DEF TypeOK
<1>6. /\ Busy' = Busy \ {t}
      /\ \A u \in Busy' : u \in Busy /\ u # t /\ request'[u] = request[u]
  BY <1>5 DEF Busy
<1>7. /\ row \in Rows /\ Started(row) /\ Unfinished(row)
      /\ row.booking = r.new.booking /\ row.purpose = r.new.purpose
      /\ row.status = "VERIFIED" => <<k, row.booking, row.purpose>> \in earned
      /\ r.old = sessions[k] => row.attempts = r.new.attempts
  <2>1. CASE r.old = NoRow
    <3>1. row = r.new
      BY <2>1 DEF Written
    <3> QED
      BY <1>3, <1>4, <3>1 DEF RequestFits
  <2>2. CASE r.old # NoRow
    <3> DEFINE status == IF r.new.status # r.old.status THEN r.new.status
                         ELSE sessions[k].status
               attempts == IF r.new.attempts # r.old.attempts THEN r.new.attempts
                           ELSE sessions[k].attempts
    <3>1. /\ row \in Rows /\ row.status = status /\ row.attempts = attempts
          /\ row.booking = sessions[k].booking /\ row.purpose = sessions[k].purpose
      BY <1>4, <2>2 DEF Written, Rows
    <3>2. /\ sessions[k] # NoRow /\ Started(sessions[k]) /\ Unfinished(sessions[k])
          /\ sessions[k].booking = r.new.booking /\ sessions[k].purpose = r.new.purpose
          /\ Started(r.new) /\ Unfinished(r.new)
      BY <1>3, <1>4, <2>2 DEF RequestFits, RowFits
    <3>3. Started(row)
      BY <3>1, <3>2 DEF Started
    <3>4. Unfinished(row)
      <4>1. SUFFICES ASSUME status = "VERIFICATION_PENDING" PROVE attempts < MaxAttempts
        BY <3>1 DEF Unfinished
      <4>2. r.new.status = r.old.status /\ sessions[k].status = "VERIFICATION_PENDING"
        BY <1>3, <2>2, <4>1 DEF RequestFits
      <4>3. CASE r.new.attempts # r.old.attempts
        BY <1>3, <2>2, <3>2, <4>2, <4>3 DEF RequestFits, Unfinished
      <4>4. CASE r.new.attempts = r.old.attempts
        BY <3>2, <4>2, <4>4 DEF Unfinished
      <4> QED
        BY <4>3, <4>4
    <3>5. row.status = "VERIFIED" => <<k, row.booking, row.purpose>> \in earned
      BY <1>3, <1>4, <3>1, <3>2 DEF RequestFits, RowFits
    <3>6. r.old = sessions[k] => row.attempts = r.new.attempts
      BY <3>1
    <3> QED
      BY <3>1, <3>2, <3>3, <3>4, <3>5, <3>6
  <2> QED
    BY <2>1, <2>2
<1> HIDE DEF row
<1>8. /\ sessions' \in [Tokens -> Rows]
      /\ sessions'[k] = row /\ row # NoRow
      /\ \A token \in Tokens : token # k => sessions'[token] = sessions[token]
  BY <1>1, <1>2, <1>4, <1>7 DEF TypeOK, Started, NoRow
<1>9. /\ guesses' \in [Tokens -> 0..MaxAttempts + 1]
      /\ \A token \in Tokens : token # k => guesses'[token] = guesses[token]
      /\ guesses[k] \in 0..MaxAttempts + 1
      /\ guesses'[k] = IF r.new.status = "EXPIRED" THEN guesses[k]
                       ELSE Least(guesses[k] + 1, MaxAttempts + 1)
  <2>1. guesses[k] \in 0..MaxAttempts + 1 /\ MaxAttempts \in Nat
    BY <1>1, <1>4, BoundsAssumption DEF TypeOK
  <2>2. Least(guesses[k] + 1, MaxAttempts + 1) \in 0..MaxAttempts + 1
    BY <2>1, LeastFacts
  <2> QED
    BY <1>1, <1>2, <1>4, <2>1, <2>2 DEF TypeOK
<1> HIDE DEF r, k
<1>10. TypeOK'
  BY <1>1, <1>2, <1>5, <1>8, <1>9 DEF TypeOK
<1>11. RowsFit'
  <2>1. ASSUME NEW token \in Tokens PROVE RowFits(token)'
    <3>1. CASE token = k
      BY <1>2, <1>4, <1>7, <1>8, <3>1 DEF RowFits
    <3>2. CASE token # k
      <4>1. RowFits(token)
        BY <2>1 DEF IInv, RowsFit
      <4> QED
        BY <1>2, <1>8, <3>2, <4>1 DEF RowFits
    <3> QED
      BY <3>1, <3>2
  <2> QED
    BY <2>1 DEF RowsFit
<1>12. RequestsFit'
  <2>1. ASSUME NEW u \in Busy' PROVE RequestFits(u)'
    <3>1. RequestFits(u) /\ u # t /\ u \in Busy /\ request'[u] = request[u]
      BY <1>6, <2>1 DEF IInv, RequestsFit
    <3>2. request[u].token # Lost => request[u].token \in Tokens
      BY <1>1, <3>1 DEF RequestFits, TypeOK
    <3>3. CASE request[u].token = k
      <4>1. r.old # NoRow
        BY <1>3, <1>4, <3>1, <3>3 DEF RequestFits, r, k
      <4>2. request[u].old # NoRow
        BY <1>3, <1>4, <3>1, <3>3 DEF RequestFits, r, k
      <4>3. /\ row.booking = request[u].new.booking
            /\ row.purpose = request[u].new.purpose
        BY <1>3, <1>4, <1>7, <3>1, <3>3, <4>1, <4>2 DEF RequestFits, r, k
      <4> QED
        BY <1>2, <1>8, <3>1, <3>3, <4>2, <4>3 DEF RequestFits
    <3>4. CASE request[u].token # k
      <4>1. request[u].token # Lost =>
              sessions'[request[u].token] = sessions[request[u].token]
        BY <1>8, <3>2, <3>4
      <4>2. \A v \in Busy' : v \in Busy /\ request'[v] = request[v]
        BY <1>6
      <4> QED
        BY <1>2, <3>1, <4>1, <4>2 DEF RequestFits
    <3> QED
      BY <3>3, <3>4
  <2>2. ASSUME NEW u \in Busy' PROVE LoadedFits(u)'
    BY <1>6, <2>2 DEF IInv, RequestsFit, LoadedFits
  <2> QED
    BY <2>1, <2>2 DEF RequestsFit
<1>13. CountsFit'
  <2>1. \A other \in Tokens \ issued' : guesses'[other] = 0
    BY <1>2, <1>4, <1>9 DEF IInv, CountsFit
  <2>2. ASSUME NEW other \in issued \ uncounted PROVE CountFits(other)'
    <3>1. CountFits(other) /\ other \in Tokens
      BY <1>1, <2>2 DEF IInv, CountsFit, TypeOK
    <3>2. CASE other = k
      <4>1. \A u \in Busy' : request'[u].token # k
        BY <1>3, <1>6, <3>1, <3>2 DEF CountFits, k, r
      <4>2. CopyFits(t)
        BY <1>3, <3>1, <3>2 DEF CountFits, k, r
      <4>3. /\ r.old = sessions[k]
            /\ r.new.attempts = IF r.new.status = "EXPIRED" THEN guesses[k] ELSE guesses[k] + 1
        BY <1>2, <3>1, <3>2, <4>2 DEF CopyFits, CountFits, k, r
      <4>4. r.new.attempts \in 0..MaxAttempts /\ MaxAttempts \in Nat
        BY <1>4, BoundsAssumption DEF Rows
      <4>5. r.new.status # "EXPIRED" => Least(guesses[k] + 1, MaxAttempts + 1) = guesses[k] + 1
        BY <1>9, <4>3, <4>4, LeastFacts
      <4>6. sessions'[k].attempts = guesses'[k]
        BY <1>7, <1>8, <1>9, <4>3, <4>5
      <4> QED
        BY <3>2, <4>1, <4>6 DEF CountFits
    <3>3. CASE other # k
      <4>1. sessions'[other] = sessions[other] /\ guesses'[other] = guesses[other]
        BY <1>8, <1>9, <3>1, <3>3
      <4>2. \A v \in Busy' : v \in Busy /\ request'[v] = request[v]
        BY <1>6
      <4> QED
        BY <3>1, <4>1, <4>2 DEF CountFits, CopyFits
    <3> QED
      BY <3>2, <3>3
  <2> QED
    BY <1>2, <2>1, <2>2 DEF CountsFit
<1>14. LocksFit'
  <2>1. \A b \in Bookings : \A u \in Failing(b)' : u \in Failing(b) /\ request'[u] = request[u]
    BY <1>6 DEF Failing
  <2>2. ASSUME NEW b \in Bookings \ blurred PROVE LockFits(b)'
    <3>1. LockFits(b)
      BY <2>2 DEF IInv, LocksFit
    <3> QED
      BY <1>2, <2>1, <3>1 DEF LockFits
  <2> QED
    BY <1>2, <2>2 DEF LocksFit
<1> QED
  BY <1>10, <1>11, <1>12, <1>13, <1>14 DEF IInv

-----------------------------------------------------------------------------
(* The rest of submit.                                                     *)

LEMMA ScoreInv ==
  ASSUME IInv, NEW t \in Threads, NEW matched \in BOOLEAN, Score(t, matched)
  PROVE  IInv'
<1> DEFINE r == request[t]
           b == r.new.booking
           new == SubmitFactorResult(r.new, Left(r.token), matched)
           scored == [r EXCEPT !.at = IF matched THEN "scored" ELSE "failing",
                               !.new = new,
                               !.read = IF matched THEN 0 ELSE failures[b].count]
<1>1. TypeOK
  BY DEF IInv
<1>2. /\ r.at = "loaded" /\ r # Idle
      /\ r.new.status \notin {"VERIFIED", "FAILED"}
      /\ UNCHANGED <<sessions, ttl, issued, guesses, uncounted, faults>>
  BY DEF Score, Idle
<1>3. t \in Busy /\ RequestFits(t) /\ LoadedFits(t) /\ r \in Requests
  BY <1>1, <1>2 DEF IInv, RequestsFit, Busy, TypeOK
<1>4. r.old \in Rows /\ r.new \in Rows /\ Started(r.new) /\ Unfinished(r.new) /\ b \in Bookings
  BY <1>3 DEF RequestFits, Requests, Started
<1>5. /\ new \in Rows /\ Started(new) /\ Unfinished(new)
      /\ new.booking = b /\ new.purpose = r.new.purpose
      /\ new.status = "VERIFIED" =>
           matched /\ EffectiveStatus(r.new, Left(r.token)) # "EXPIRED"
      /\ new.status # "EXPIRED" =>
           new.attempts = r.new.attempts + 1 /\ r.new.status = "VERIFICATION_PENDING"
      /\ new.status = "EXPIRED" => new.attempts = r.new.attempts
  BY <1>2, <1>4, SubmitFacts
<1>6. /\ failures' = IF matched THEN [failures EXCEPT ![b] = [count |-> 0, lock |-> 0]]
                     ELSE failures
      /\ misses' = IF matched /\ ~\E u \in Threads : FailingOn(u, b)
                   THEN [misses EXCEPT ![b] = 0] ELSE misses
      /\ earned' = IF /\ matched
                      /\ r.token # Lost
                      /\ EffectiveStatus(r.new, Left(r.token)) # "EXPIRED"
                   THEN earned \cup {<<r.token, b, r.new.purpose>>}
                   ELSE earned
      /\ blurred' = IF \E u \in Threads \ {t} : FailingOn(u, b)
                    THEN blurred \cup {b} ELSE blurred
      /\ request' = [request EXCEPT
           ![t].at = IF matched THEN "scored" ELSE "failing",
           ![t].new = new,
           ![t].read = IF matched THEN 0 ELSE failures[b].count]
  BY DEF Score
<1>7. request' = [request EXCEPT ![t] = scored]
  BY <1>6
<1> HIDE DEF new
<1>8. /\ scored \in Requests
      /\ scored.at = (IF matched THEN "scored" ELSE "failing")
      /\ scored.new = new /\ scored.old = r.old /\ scored.token = r.token
      /\ scored.channel = r.channel
      /\ scored.read = (IF matched THEN 0 ELSE failures[b].count)
  <2>1. (IF matched THEN 0 ELSE failures[b].count) \in 0..Saturation
    BY <1>1, <1>4, BoundsAssumption DEF TypeOK
  <2> QED
    BY <1>3, <1>5, <2>1 DEF Requests
<1> HIDE DEF scored
<1>9. /\ request'[t] = scored /\ scored # Idle
      /\ \A u \in Threads : u # t => request'[u] = request[u]
      /\ request' \in [Threads -> Requests \cup {Idle}]
  BY <1>1, <1>7, <1>8 DEF TypeOK, Requests, Idle
<1>10. Busy' = Busy
  BY <1>3, <1>9 DEF Busy
<1>11. /\ failures' \in [Bookings -> [count : 0..Saturation, lock : 0..MaxBackoff]]
       /\ misses' \in [Bookings -> 0..Saturation]
       /\ \A c \in Bookings : c # b => failures'[c] = failures[c] /\ misses'[c] = misses[c]
       /\ matched => failures'[b].count = 0 /\ failures'[b].lock = 0
       /\ matched /\ ~(\E u \in Threads : FailingOn(u, b)) => misses'[b] = 0
       /\ ~matched => failures' = failures /\ misses' = misses
  <2>1. 0 \in 0..Saturation /\ 0 \in 0..MaxBackoff
    BY BoundsAssumption
  <2>2. [count |-> 0, lock |-> 0] \in [count : 0..Saturation, lock : 0..MaxBackoff]
    BY <2>1
  <2>3. /\ failures \in [Bookings -> [count : 0..Saturation, lock : 0..MaxBackoff]]
        /\ misses \in [Bookings -> 0..Saturation]
    BY <1>1 DEF TypeOK
  <2>4. CASE matched
    <3>1. /\ failures' = [failures EXCEPT ![b] = [count |-> 0, lock |-> 0]]
          /\ misses' = IF ~\E u \in Threads : FailingOn(u, b)
                       THEN [misses EXCEPT ![b] = 0] ELSE misses
      BY <1>6, <2>4
    <3> HIDE DEF b
    <3> QED
      BY <1>4, <2>1, <2>2, <2>3, <2>4, <3>1
  <2>5. CASE ~matched
    BY <1>6, <2>3, <2>5
  <2> QED
    BY <2>4, <2>5
<1>12. /\ earned \subseteq earned'
       /\ earned' \subseteq issued \X Bookings \X Purposes
       /\ new.status = "VERIFIED" /\ r.token # Lost =>
            <<r.token, new.booking, new.purpose>> \in earned'
  <2>1. r.token # Lost => <<r.token, b, r.new.purpose>> \in issued \X Bookings \X Purposes
    BY <1>3, <1>4 DEF RequestFits, Started
  <2>2. earned \subseteq issued \X Bookings \X Purposes
    BY <1>1 DEF TypeOK
  <2> QED
    BY <1>5, <1>6, <2>1, <2>2
<1>13. blurred' \subseteq Bookings /\ blurred \subseteq blurred'
  BY <1>1, <1>4, <1>6 DEF TypeOK
<1>14. TypeOK'
  BY <1>1, <1>2, <1>9, <1>11, <1>12, <1>13 DEF TypeOK
<1>15. RowsFit'
  <2>1. ASSUME NEW token \in Tokens PROVE RowFits(token)'
    <3>1. RowFits(token)
      BY <2>1 DEF IInv, RowsFit
    <3> QED
      BY <1>2, <1>12, <3>1 DEF RowFits
  <2> QED
    BY <2>1 DEF RowsFit
<1>16. RequestsFit'
  <2>1. \A v \in Busy : request'[v].token = request[v].token
    BY <1>8, <1>9 DEF Busy
  <2>2. RequestFits(t)'
    <3>1. r.old # NoRow => /\ new.status # r.old.status => new.status # "VERIFICATION_PENDING"
                           /\ new.attempts # r.old.attempts =>
                                r.old.status = "VERIFICATION_PENDING"
      BY <1>2, <1>3, <1>5 DEF LoadedFits
    <3>2. /\ scored.token \in issued \cup {Lost}
          /\ scored.channel = "voice" => scored.token \in issued
          /\ scored.token # Lost /\ scored.old = NoRow =>
               /\ sessions[scored.token] = NoRow
               /\ \A u \in Busy : request[u].token = scored.token => u = t
          /\ scored.token # Lost /\ scored.old # NoRow =>
               /\ sessions[scored.token] # NoRow
               /\ sessions[scored.token].booking = new.booking
               /\ sessions[scored.token].purpose = new.purpose
      BY <1>3, <1>5, <1>8 DEF RequestFits
    <3> QED
      BY <1>2, <1>5, <1>8, <1>9, <1>10, <1>12, <2>1, <3>1, <3>2 DEF RequestFits
  <2>3. ASSUME NEW u \in Busy, u # t PROVE RequestFits(u)'
    <3>1. RequestFits(u) /\ request'[u] = request[u]
      BY <1>9, <2>3 DEF IInv, RequestsFit, Busy
    <3> QED
      BY <1>2, <1>10, <1>12, <2>1, <3>1 DEF RequestFits
  <2>4. ASSUME NEW u \in Busy PROVE LoadedFits(u)'
    <3>1. CASE u = t
      BY <1>8, <1>9, <3>1 DEF LoadedFits
    <3>2. CASE u # t
      <4>1. LoadedFits(u) /\ request'[u] = request[u]
        BY <1>9, <2>4, <3>2 DEF IInv, RequestsFit, Busy
      <4> QED
        BY <4>1 DEF LoadedFits
    <3> QED
      BY <3>1, <3>2
  <2> QED
    BY <1>10, <2>2, <2>3, <2>4 DEF RequestsFit
<1>17. CountsFit'
  <2>1. \A v \in Busy : request'[v].token = request[v].token
    BY <1>8, <1>9 DEF Busy
  <2>2. ASSUME NEW token \in issued \ uncounted PROVE CountFits(token)'
    <3>1. CountFits(token)
      BY <2>2 DEF IInv, CountsFit
    <3>2. ASSUME NEW u \in Busy, request'[u].token = token
          PROVE  CopyFits(u)'
      <4>1. CopyFits(u)
        BY <2>1, <3>1, <3>2 DEF CountFits
      <4>2. CASE u = t
        BY <1>2, <1>5, <1>8, <1>9, <4>1, <4>2 DEF CopyFits
      <4>3. CASE u # t
        BY <1>2, <1>9, <4>1, <4>3 DEF CopyFits, Busy
      <4> QED
        BY <4>2, <4>3
    <3> QED
      BY <1>2, <1>10, <2>1, <3>1, <3>2 DEF CountFits
  <2> QED
    BY <1>2, <2>2 DEF IInv, CountsFit
<1>18. LocksFit'
  <2>1. ASSUME NEW c \in Bookings \ blurred' PROVE LockFits(c)'
    <3>1. LockFits(c)
      BY <1>13, <2>1 DEF IInv, LocksFit
    <3>2. CASE c # b
      <4>1. \A u \in Failing(c)' : u \in Failing(c) /\ request'[u] = request[u]
        BY <1>5, <1>8, <1>9, <1>10, <3>2 DEF Failing, Busy
      <4>2. failures'[c] = failures[c] /\ misses'[c] = misses[c]
        BY <1>11, <2>1, <3>2
      <4> QED
        BY <3>1, <4>1, <4>2 DEF LockFits
    <3>3. CASE c = b
      <4>1. \A u \in Threads : ~(request[u].at = "failing" /\ request[u].new.booking = c)
        BY <1>2, <1>6, <2>1, <3>3 DEF FailingOn
      <4>2. \A u \in Failing(c)' : u = t
        BY <1>9, <1>10, <4>1 DEF Failing, Busy
      <4>3. ~matched => scored.read = misses[c]
        BY <1>8, <3>1, <3>3 DEF LockFits
      <4>4. matched => t \notin Failing(c)'
        BY <1>8, <1>9 DEF Failing
      <4>5. /\ failures'[c].count = misses'[c]
            /\ failures'[c].lock <= Backoff(misses'[c])
        <5>1. matched => misses'[c] = 0
          BY <1>11, <3>3, <4>1 DEF FailingOn
        <5> QED
          BY <1>4, <1>11, <3>1, <3>3, <5>1, BackoffFacts DEF LockFits
      <4>6. \A u \in Failing(c)' : request'[u].read = misses'[c]
        BY <1>9, <1>11, <3>3, <4>2, <4>3, <4>4
      <4> QED
        BY <4>2, <4>5, <4>6 DEF LockFits
    <3> QED
      BY <3>2, <3>3
  <2> QED
    BY <2>1 DEF LocksFit
<1> QED
  BY <1>14, <1>15, <1>16, <1>17, <1>18 DEF IInv

LEMMA RecordFailureInv ==
  ASSUME IInv, NEW t \in Threads, RecordFailure(t)
  PROVE  IInv'
<1> DEFINE r == request[t]
           recorded == [r EXCEPT !.at = "scored", !.read = 0]
<1>1. TypeOK
  BY DEF IInv
<1>2. /\ r.at = "failing" /\ r # Idle
      /\ request' = [request EXCEPT ![t] = recorded]
      /\ UNCHANGED <<sessions, ttl, issued, earned, guesses, uncounted, blurred, faults>>
  <2>1. /\ r.at = "failing"
        /\ request' = [request EXCEPT ![t].at = "scored", ![t].read = 0]
        /\ UNCHANGED <<sessions, ttl, issued, earned, guesses, uncounted, blurred, faults>>
    BY DEF RecordFailure
  <2>2. request' = [request EXCEPT ![t] = recorded]
    BY <2>1
  <2>3. r # Idle
    BY <2>1 DEF Idle
  <2> HIDE DEF recorded
  <2> QED
    BY <2>1, <2>2, <2>3
<1>3. /\ t \in Busy /\ RequestFits(t) /\ LoadedFits(t) /\ r \in Requests
      /\ r.new.booking \in Bookings
  BY <1>1, <1>2 DEF IInv, RequestsFit, Busy, TypeOK, RequestFits, Started
<1>4. PICK b \in Bookings : b = r.new.booking
  BY <1>3
<1>5. /\ failures' = [failures EXCEPT ![b] = AfterFailure(r.read)]
      /\ misses' = [misses EXCEPT ![b] = Least(@ + 1, Saturation)]
  BY <1>4 DEF RecordFailure
<1>6. /\ recorded \in Requests
      /\ recorded.at = "scored" /\ recorded.new = r.new /\ recorded.old = r.old
      /\ recorded.token = r.token /\ recorded.channel = r.channel
  <2>1. 0 \in 0..Saturation
    BY BoundsAssumption
  <2> QED
    BY <1>3, <2>1 DEF Requests
<1> HIDE DEF recorded
<1>7. /\ request'[t] = recorded /\ recorded # Idle
      /\ \A u \in Threads : u # t => request'[u] = request[u]
      /\ request' \in [Threads -> Requests \cup {Idle}]
  BY <1>1, <1>2, <1>6 DEF TypeOK, Requests, Idle
<1>8. Busy' = Busy
  BY <1>3, <1>7 DEF Busy
<1>9. r.read \in 0..Saturation /\ misses[b] \in 0..Saturation /\ Saturation \in Nat
  BY <1>1, <1>3, BoundsAssumption DEF Requests, TypeOK
<1>10. /\ Least(r.read + 1, Saturation) \in 0..Saturation
       /\ Least(misses[b] + 1, Saturation) \in 0..Saturation
  BY <1>9 DEF Least
<1>11. /\ AfterFailure(r.read).count = Least(r.read + 1, Saturation)
       /\ AfterFailure(r.read).lock = Backoff(Least(r.read + 1, Saturation))
       /\ AfterFailure(r.read) \in [count : 0..Saturation, lock : 0..MaxBackoff]
  BY <1>10, BackoffFacts DEF AfterFailure
<1> HIDE DEF r
<1>12. /\ failures' \in [Bookings -> [count : 0..Saturation, lock : 0..MaxBackoff]]
       /\ misses' \in [Bookings -> 0..Saturation]
       /\ failures'[b] = AfterFailure(r.read)
       /\ misses'[b] = Least(misses[b] + 1, Saturation)
       /\ \A c \in Bookings : c # b => failures'[c] = failures[c] /\ misses'[c] = misses[c]
  BY <1>1, <1>5, <1>10, <1>11 DEF TypeOK
<1>13. TypeOK'
  BY <1>1, <1>2, <1>7, <1>12 DEF TypeOK
<1>14. RowsFit'
  BY <1>2 DEF IInv, RowsFit, RowFits
<1>15. RequestsFit'
  <2>1. \A v \in Busy : request'[v].token = request[v].token
    BY <1>6, <1>7 DEF Busy, r
  <2>2. RequestFits(t)' /\ LoadedFits(t)'
    <3>1. LoadedFits(t)'
      BY <1>6, <1>7 DEF LoadedFits
    <3>2. RequestFits(t)'
      BY <1>2, <1>3, <1>6, <1>7, <1>8, <2>1 DEF RequestFits, r
    <3> QED
      BY <3>1, <3>2
  <2>3. ASSUME NEW u \in Busy, u # t PROVE RequestFits(u)' /\ LoadedFits(u)'
    <3>1. RequestFits(u) /\ LoadedFits(u) /\ request'[u] = request[u]
      BY <1>7, <2>3 DEF IInv, RequestsFit, Busy
    <3>2. RequestFits(u)'
      BY <1>2, <1>8, <2>1, <3>1 DEF RequestFits
    <3> QED
      BY <3>1, <3>2 DEF LoadedFits
  <2> QED
    BY <1>8, <2>2, <2>3 DEF RequestsFit
<1>16. CountsFit'
  <2>1. \A v \in Busy : request'[v].token = request[v].token
    BY <1>6, <1>7 DEF Busy, r
  <2>2. ASSUME NEW token \in issued \ uncounted PROVE CountFits(token)'
    <3>1. CountFits(token)
      BY <2>2 DEF IInv, CountsFit
    <3>2. ASSUME NEW u \in Busy, request'[u].token = token
          PROVE  CopyFits(u)'
      <4>1. CopyFits(u)
        BY <2>1, <3>1, <3>2 DEF CountFits
      <4>2. CASE u = t
        BY <1>2, <1>6, <1>7, <4>1, <4>2 DEF CopyFits, r
      <4>3. CASE u # t
        BY <1>2, <1>7, <4>1, <4>3 DEF CopyFits, Busy
      <4> QED
        BY <4>2, <4>3
    <3> QED
      BY <1>2, <1>8, <2>1, <3>1, <3>2 DEF CountFits
  <2> QED
    BY <1>2, <2>2 DEF IInv, CountsFit
<1>17. LocksFit'
  <2>1. \A c \in Bookings : \A u \in Failing(c)' :
          u \in Failing(c) /\ u # t /\ request'[u] = request[u]
    BY <1>6, <1>7, <1>8 DEF Failing, Busy
  <2>2. ASSUME NEW c \in Bookings \ blurred PROVE LockFits(c)'
    <3>1. LockFits(c)
      BY <2>2 DEF IInv, LocksFit
    <3>2. CASE c # b
      BY <1>12, <2>1, <2>2, <3>1, <3>2 DEF LockFits
    <3>3. CASE c = b
      <4>1. t \in Failing(b)
        BY <1>2, <1>3, <1>4 DEF Failing, r
      <4>2. r.read = misses[b] /\ \A u \in Failing(b) : u = t
        BY <3>1, <3>3, <4>1 DEF LockFits, r
      <4>3. \A u \in Failing(c)' : FALSE
        BY <2>1, <3>3, <4>2
      <4>4. failures'[c].count = misses'[c] /\ failures'[c].lock = Backoff(misses'[c])
        BY <1>11, <1>12, <3>3, <4>2
      <4>5. Backoff(misses'[c]) \in Int
        BY <1>10, <1>12, <3>3, BackoffFacts
      <4> QED
        BY <4>3, <4>4, <4>5 DEF LockFits
    <3> QED
      BY <3>2, <3>3
  <2> QED
    BY <1>2, <2>2 DEF LocksFit
<1> QED
  BY <1>13, <1>14, <1>15, <1>16, <1>17 DEF IInv

-----------------------------------------------------------------------------
(* The surroundings.                                                       *)

(* Only the clock and the locks move.                                      *)
LEMMA TickInv == IInv /\ Tick => IInv'
<1> SUFFICES ASSUME IInv, Tick PROVE IInv'
  OBVIOUS
<1>1. TypeOK /\ UNCHANGED <<sessions, issued, request, earned, guesses, uncounted,
                               misses, blurred, faults>>
  BY DEF IInv, Tick, history
<1>2. ttl' \in [Tokens -> 0..SessionTTL]
  <2>1. \A token \in Tokens : ttl[token] \in 0..SessionTTL
    BY <1>1 DEF TypeOK
  <2>2. \A token \in Tokens :
          (IF ttl[token] = 0 THEN 0 ELSE ttl[token] - 1) \in 0..SessionTTL
    BY <2>1, BoundsAssumption
  <2> QED
    BY <2>2 DEF Tick
<1>3. /\ failures' \in [Bookings -> [count : 0..Saturation, lock : 0..MaxBackoff]]
      /\ \A b \in Bookings : /\ failures'[b].count = failures[b].count
                             /\ failures'[b].lock <= failures[b].lock
                             /\ failures[b].lock \in Int /\ failures'[b].lock \in Int
  <2> DEFINE next(f) == [f EXCEPT !.lock = IF @ = 0 THEN 0 ELSE @ - 1]
             States == [count : 0..Saturation, lock : 0..MaxBackoff]
  <2>1. \A b \in Bookings : failures[b] \in States
    BY <1>1 DEF TypeOK
  <2>2. MaxBackoff \in Nat
    BY BoundsAssumption
  <2>3. ASSUME NEW f \in States
        PROVE  /\ next(f) \in States
               /\ next(f).count = f.count
               /\ next(f).lock <= f.lock
               /\ f.lock \in Int /\ next(f).lock \in Int
    BY <2>2
  <2>4. failures' = [b \in Bookings |-> next(failures[b])]
    BY DEF Tick
  <2> HIDE DEF next, States
  <2>5. \A b \in Bookings : failures'[b] = next(failures[b])
    BY <2>4
  <2>6. failures' \in [Bookings -> States]
    BY <2>1, <2>3, <2>4
  <2> QED
    BY <2>1, <2>3, <2>5, <2>6 DEF States
<1>4. TypeOK'
  BY <1>1, <1>2, <1>3 DEF TypeOK
<1>5. RowsFit'
  BY <1>1 DEF IInv, RowsFit, RowFits
<1>6. RequestsFit'
  <2>1. ASSUME NEW t \in Busy PROVE RequestFits(t)' /\ LoadedFits(t)'
    BY <1>1 DEF IInv, RequestsFit, RequestFits, LoadedFits, Busy
  <2> QED
    BY <1>1, <2>1 DEF RequestsFit, Busy
<1>7. CountsFit'
  <2>1. ASSUME NEW token \in issued \ uncounted PROVE CountFits(token)'
    <3>1. CountFits(token)
      BY <2>1 DEF IInv, CountsFit
    <3> QED
      BY <1>1, <3>1 DEF CountFits, CopyFits, Busy
  <2> QED
    BY <1>1, <2>1 DEF IInv, CountsFit
<1>8. LocksFit'
  <2>1. ASSUME NEW b \in Bookings \ blurred PROVE LockFits(b)'
    <3>1. LockFits(b)
      BY <2>1 DEF IInv, LocksFit
    <3>2. Backoff(misses[b]) \in Int
      BY <1>1, BackoffFacts DEF TypeOK
    <3>3. Failing(b)' = Failing(b)
      BY <1>1 DEF Failing, Busy
    <3> QED
      BY <1>1, <1>3, <3>1, <3>2, <3>3 DEF LockFits
  <2> QED
    BY <1>1, <2>1 DEF LocksFit
<1> QED
  BY <1>4, <1>5, <1>6, <1>7, <1>8 DEF IInv

LEMMA ForgetInv ==
  ASSUME IInv, NEW b \in Looked, Forget(b)
  PROVE  IInv'
<1>1. /\ TypeOK /\ b \in Bookings
      /\ UNCHANGED <<sessions, ttl, issued, request, earned, guesses, uncounted, faults>>
      /\ failures' = [failures EXCEPT ![b].count = 0]
      /\ misses' = [misses EXCEPT ![b] = 0]
      /\ blurred' = blurred \ {b}
      /\ ~(failures[b].lock > 0)
  BY BookingsAssumption DEF IInv, Forget, IsLocked
<1>2. Busy = {} /\ Busy' = {}
  BY <1>1 DEF Forget, Busy
<1>3. /\ failures' \in [Bookings -> [count : 0..Saturation, lock : 0..MaxBackoff]]
      /\ misses' \in [Bookings -> 0..Saturation]
      /\ failures'[b].count = 0 /\ failures'[b].lock <= 0 /\ misses'[b] = 0
      /\ \A c \in Bookings : c # b => failures'[c] = failures[c] /\ misses'[c] = misses[c]
  BY <1>1, BoundsAssumption DEF TypeOK
<1>4. TypeOK'
  BY <1>1, <1>3 DEF TypeOK
<1>5. RowsFit'
  BY <1>1 DEF IInv, RowsFit, RowFits
<1>6. RequestsFit'
  BY <1>2 DEF RequestsFit
<1>7. CountsFit'
  BY <1>1, <1>2 DEF IInv, CountsFit, CountFits
<1>8. LocksFit'
  <2>1. ASSUME NEW c \in Bookings \ blurred' PROVE LockFits(c)'
    <3>1. Failing(c)' = {}
      BY <1>2 DEF Failing
    <3>2. CASE c = b
      BY <1>3, <3>1, <3>2, BackoffFacts DEF LockFits
    <3>3. CASE c # b
      BY <1>1, <1>3, <2>1, <3>1, <3>3 DEF LockFits, IInv, LocksFit
    <3> QED
      BY <3>2, <3>3
  <2> QED
    BY <2>1 DEF LocksFit
<1> QED
  BY <1>4, <1>5, <1>6, <1>7, <1>8 DEF IInv

LEMMA RestartInv == IInv /\ Restart => IInv'
<1> SUFFICES ASSUME IInv, Restart PROVE IInv'
  OBVIOUS
<1>1. /\ TypeOK
      /\ UNCHANGED <<sessions, ttl, issued, earned, guesses>>
      /\ request' = [t \in Threads |-> Idle]
      /\ failures' = [b \in Bookings |-> [count |-> 0, lock |-> 0]]
      /\ misses' = [b \in Bookings |-> 0]
      /\ blurred' = {}
      /\ uncounted' = uncounted \cup {token \in issued : InFlight(token) # {}}
      /\ faults < MaxFaults /\ faults' = faults + 1
  BY DEF IInv, Restart
<1>2. Busy' = {}
  BY <1>1 DEF Busy
<1>3. TypeOK'
  <2>1. /\ failures' \in [Bookings -> [count : 0..Saturation, lock : 0..MaxBackoff]]
        /\ misses' \in [Bookings -> 0..Saturation]
    BY <1>1, BoundsAssumption
  <2>2. faults' \in 0..MaxFaults
    BY <1>1, BoundsAssumption DEF TypeOK
  <2>3. uncounted' \subseteq issued
    BY <1>1 DEF TypeOK
  <2> QED
    BY <1>1, <2>1, <2>2, <2>3 DEF TypeOK
<1>4. RowsFit'
  BY <1>1 DEF IInv, RowsFit, RowFits
<1>5. RequestsFit'
  BY <1>2 DEF RequestsFit
<1>6. CountsFit'
  BY <1>1, <1>2 DEF IInv, CountsFit, CountFits
<1>7. LocksFit'
  <2>1. ASSUME NEW b \in Bookings PROVE LockFits(b)'
    <3>1. Failing(b)' = {}
      BY <1>2 DEF Failing
    <3> QED
      BY <1>1, <3>1, BackoffFacts DEF LockFits
  <2> QED
    BY <2>1 DEF LocksFit
<1> QED
  BY <1>3, <1>4, <1>5, <1>6, <1>7 DEF IInv

LEMMA StutterInv == IInv /\ UNCHANGED vars => IInv'
<1> SUFFICES ASSUME IInv, UNCHANGED vars PROVE IInv'
  OBVIOUS
<1>1. UNCHANGED <<sessions, ttl, issued, failures, request, earned, guesses, uncounted,
                  misses, blurred, faults>>
  BY DEF vars
<1>2. TypeOK'
  BY <1>1 DEF IInv, TypeOK
<1>3. RowsFit'
  BY <1>1 DEF IInv, RowsFit, RowFits
<1>4. RequestsFit'
  <2>1. ASSUME NEW t \in Busy PROVE RequestFits(t)' /\ LoadedFits(t)'
    BY <1>1 DEF IInv, RequestsFit, RequestFits, LoadedFits, Busy
  <2> QED
    BY <1>1, <2>1 DEF RequestsFit, Busy
<1>5. CountsFit'
  <2>1. ASSUME NEW token \in issued \ uncounted PROVE CountFits(token)'
    <3>1. CountFits(token)
      BY <2>1 DEF IInv, CountsFit
    <3> QED
      BY <1>1, <3>1 DEF CountFits, CopyFits, Busy
  <2> QED
    BY <1>1, <2>1 DEF IInv, CountsFit
<1>6. LocksFit'
  <2>1. ASSUME NEW b \in Bookings \ blurred PROVE LockFits(b)'
    <3>1. LockFits(b)
      BY <2>1 DEF IInv, LocksFit
    <3> QED
      BY <1>1, <3>1 DEF LockFits, Failing, Busy
  <2> QED
    BY <1>1, <2>1 DEF LocksFit
<1> QED
  BY <1>2, <1>3, <1>4, <1>5, <1>6 DEF IInv

LEMMA NextInv == IInv /\ [Next]_vars => IInv'
<1> SUFFICES ASSUME IInv, [Next]_vars PROVE IInv'
  OBVIOUS
<1>1. ASSUME NEW t \in Threads, Step(t) PROVE IInv'
  <2>1. ASSUME NEW token \in Tokens, NEW b \in Looked, StartVoice(t, token, b) PROVE IInv'
    BY <2>1, StartVoiceInv
  <2>2. ASSUME NEW b \in Looked, NEW purpose \in WebPurposes, StartWeb(t, b, purpose)
        PROVE  IInv'
    BY <2>2, StartWebInv
  <2>3. ASSUME NEW channel \in Channels, NEW token \in Tokens, LoadSession(t, channel, token)
        PROVE  IInv'
    BY <2>3, LoadSessionInv
  <2>4. ASSUME NEW matched \in BOOLEAN, Score(t, matched) PROVE IInv'
    BY <2>4, ScoreInv
  <2> QED
    BY <1>1, <2>1, <2>2, <2>3, <2>4, RefuseInv, RecordFailureInv, AnswerVoiceInv,
       AnswerVoiceRolledBackInv, AnswerWebInv DEF Step
<1> QED
  BY <1>1, TickInv, ForgetInv, RestartInv, StutterInv DEF Next

-----------------------------------------------------------------------------
(* Whatever overlaps, nothing is counted that did not happen.              *)

(* What a request's copy will be worth when its guess has been committed.  *)
CopyCountsAtMost(t) ==
  LET r == request[t]
  IN  IF r.at = "loaded" \/ r.new.status = "EXPIRED"
      THEN CountsAtMost(r.new, guesses[r.token])
      ELSE CountsAtMost(r.new, guesses[r.token] + 1)

RowsCountAtMost == \A token \in issued : CountsAtMost(sessions[token], guesses[token])
CopiesCountAtMost == \A t \in Busy : request[t].token # Lost => CopyCountsAtMost(t)

LocksAtMost ==
  \A b \in Bookings : /\ failures[b].count <= misses[b]
                      /\ failures[b].lock <= Backoff(misses[b])

ReadsAtMost ==
  \A t \in Busy : request[t].at = "failing" => request[t].read <= misses[request[t].new.booking]

NothingInvented == RowsCountAtMost /\ CopiesCountAtMost /\ LocksAtMost /\ ReadsAtMost

LEMMA LongerBackoff ==
  ASSUME NEW m \in 0..Saturation, NEW n \in 0..Saturation, m <= n
  PROVE  Backoff(m) <= Backoff(n)
<1>1. /\ Threshold \in Nat \ {0} /\ BaseBackoff \in Nat /\ MaxBackoff \in Nat
      /\ Saturation \in Nat
  BY BoundsAssumption
<1>2. Backoff(n) \in 0..MaxBackoff
  BY BackoffFacts
<1>3. CASE m < Threshold
  BY <1>1, <1>2, <1>3 DEF Backoff
<1>4. CASE m >= Threshold
  <2>1. m - Threshold \in 0..(Saturation - Threshold) /\ n - Threshold \in 0..(Saturation - Threshold)
        /\ m - Threshold <= n - Threshold
    BY <1>1, <1>4
  <2>2. PICK p \in Nat : p = 2 ^ (m - Threshold)
    BY <2>1, PowersAssumption
  <2>3. PICK q \in Nat : q = 2 ^ (n - Threshold)
    BY <2>1, PowersAssumption
  <2>4. p <= q
    BY <2>1, <2>2, <2>3, PowersAssumption
  <2>5. BaseBackoff * p \in Nat /\ BaseBackoff * q \in Nat /\ BaseBackoff * p <= BaseBackoff * q
    BY <1>1, <2>4
  <2>6. /\ Backoff(m) = Least(BaseBackoff * p, MaxBackoff)
        /\ Backoff(n) = Least(BaseBackoff * q, MaxBackoff)
    BY <1>1, <1>4, <2>2, <2>3 DEF Backoff
  <2>7. \A i, j \in Nat : i <= j => Least(i, MaxBackoff) <= Least(j, MaxBackoff)
    BY <1>1 DEF Least
  <2> QED
    BY <2>5, <2>6, <2>7
<1> QED
  BY <1>1, <1>3, <1>4

(* More guesses leave what was counted at most as it was.                  *)
LEMMA CountsGrow ==
  ASSUME NEW row \in Rows, NEW m \in Nat, NEW n \in Nat, m <= n, CountsAtMost(row, m)
  PROVE  CountsAtMost(row, n)
BY BoundsAssumption DEF CountsAtMost, Rows

(* The bookings' part of the state is left alone, and requests only end or *)
(* have just begun.                                                        *)
LEMMA LocksKept ==
  ASSUME LocksAtMost, ReadsAtMost, UNCHANGED <<failures, misses>>,
         \A t \in Busy' : \/ request'[t].at = "loaded"
                          \/ t \in Busy /\ request'[t] = request[t]
  PROVE  LocksAtMost' /\ ReadsAtMost'
<1>1. LocksAtMost'
  BY DEF LocksAtMost
<1>2. ReadsAtMost'
  BY DEF ReadsAtMost
<1> QED
  BY <1>1, <1>2

LEMMA NothingInventedInitially == Init => NothingInvented
<1> SUFFICES ASSUME Init PROVE NothingInvented
  OBVIOUS
<1>1. issued = {} /\ Busy = {}
  BY DEF Init, Busy
<1>2. LocksAtMost
  BY BackoffFacts DEF Init, LocksAtMost
<1> QED
  BY <1>1, <1>2 DEF NothingInvented, RowsCountAtMost, CopiesCountAtMost, ReadsAtMost

(* A request that ends without a commit.                                   *)
LEMMA NothingInventedByAnEnd ==
  ASSUME IInv, NothingInvented, NEW t \in Threads,
         request' = [request EXCEPT ![t] = Idle],
         UNCHANGED <<sessions, issued, failures, guesses, misses>>
  PROVE  NothingInvented'
<1>1. \A u \in Busy' : u \in Busy /\ request'[u] = request[u]
  BY DEF IInv, TypeOK, Busy
<1>2. RowsCountAtMost'
  BY DEF NothingInvented, RowsCountAtMost
<1>3. CopiesCountAtMost'
  BY <1>1 DEF NothingInvented, CopiesCountAtMost, CopyCountsAtMost
<1>4. LocksAtMost' /\ ReadsAtMost'
  BY <1>1, LocksKept DEF NothingInvented
<1> QED
  BY <1>2, <1>3, <1>4 DEF NothingInvented

LEMMA NothingInventedByABeginning ==
  ASSUME IInv, NothingInvented, NEW t \in Threads, NEW channel, NEW token, NEW row,
         Begin(t, channel, token, row),
         UNCHANGED <<sessions, failures, guesses, misses>>,
         token \in Tokens \cup {Lost},
         issued' = issued \cup ({token} \ {Lost}),
         IF token \in issued THEN row = sessions[token]
         ELSE row.status = "VERIFICATION_PENDING" /\ row.attempts = 0
  PROVE  NothingInvented'
<1>1. TypeOK
  BY DEF IInv
<1>2. /\ \A u \in Busy' : u # t => u \in Busy /\ request'[u] = request[u]
      /\ request'[t].at = "loaded" /\ request'[t].token = token /\ request'[t].new = row
  <2>1. request' = [request EXCEPT ![t] =
          [at |-> "loaded", channel |-> channel, token |-> token,
           old |-> IF token \in issued THEN row ELSE NoRow, new |-> row, read |-> 0]]
    BY DEF Begin
  <2> QED
    BY <1>1, <2>1 DEF TypeOK, Busy
<1>3. token # Lost => CountsAtMost(row, guesses[token])
  <2>1. CASE token \in issued
    BY <2>1 DEF NothingInvented, RowsCountAtMost
  <2>2. CASE token \notin issued
    BY <1>1, <2>2 DEF CountsAtMost, TypeOK
  <2> QED
    BY <2>1, <2>2
<1>4. RowsCountAtMost'
  <2>1. ASSUME NEW other \in issued' PROVE CountsAtMost(sessions[other], guesses[other])
    <3>1. CASE other \in issued
      BY <3>1 DEF NothingInvented, RowsCountAtMost
    <3>2. CASE other \notin issued
      <4>1. other \in Tokens /\ RowFits(other)
        BY <2>1, <3>2 DEF IInv, RowsFit
      <4>2. sessions[other] = NoRow
        BY <3>2, <4>1 DEF RowFits
      <4> QED
        BY <1>1, <4>1, <4>2 DEF CountsAtMost, NoRow, TypeOK
    <3> QED
      BY <3>1, <3>2
  <2> QED
    BY <2>1 DEF RowsCountAtMost
<1>5. CopiesCountAtMost'
  <2>1. ASSUME NEW u \in Busy', request'[u].token # Lost PROVE CopyCountsAtMost(u)'
    <3>1. CASE u = t
      BY <1>2, <1>3, <2>1, <3>1 DEF CopyCountsAtMost
    <3>2. CASE u # t
      BY <1>2, <2>1, <3>2 DEF NothingInvented, CopiesCountAtMost, CopyCountsAtMost
    <3> QED
      BY <3>1, <3>2
  <2> QED
    BY <2>1 DEF CopiesCountAtMost
<1>6. LocksAtMost' /\ ReadsAtMost'
  BY <1>2, LocksKept DEF NothingInvented
<1> QED
  BY <1>4, <1>5, <1>6 DEF NothingInvented

(* A commit writes what was counted in the copy or before it.              *)
LEMMA NothingInventedByACommit ==
  ASSUME IInv, NothingInvented, NEW t \in Threads, AnswerVoice(t)
  PROVE  NothingInvented'
<1> DEFINE r == request[t]
           k == r.token
           row == Written(sessions[k], r.old, r.new)
<1>1. TypeOK
  BY DEF IInv
<1>2. /\ r.at = "scored" /\ r # Idle /\ r.channel = "voice"
      /\ request' = [request EXCEPT ![t] = Idle]
      /\ sessions' = [sessions EXCEPT ![k] = row]
      /\ guesses' = IF r.new.status = "EXPIRED" THEN guesses
                    ELSE [guesses EXCEPT ![k] = Least(@ + 1, MaxAttempts + 1)]
      /\ UNCHANGED <<issued, failures, misses>>
  BY DEF AnswerVoice, Answer, Idle
<1>3. t \in Busy /\ RequestFits(t) /\ r \in Requests
  BY <1>1, <1>2 DEF IInv, RequestsFit, Busy, TypeOK
<1>4. /\ k \in issued /\ k \in Tokens /\ k # Lost
      /\ r.old \in Rows /\ r.new \in Rows /\ sessions[k] \in Rows
  BY <1>1, <1>2, <1>3, Tokenless DEF RequestFits, TypeOK, Requests
<1>5. \A u \in Busy' : u \in Busy /\ request'[u] = request[u]
  BY <1>1, <1>2 DEF Busy, TypeOK
<1>6. PICK before \in 0..MaxAttempts + 1 : before = guesses[k]
  BY <1>1, <1>4 DEF TypeOK
<1>7. PICK after \in 0..MaxAttempts + 1 :
        /\ after = guesses'[k] /\ before <= after
        /\ after = IF r.new.status = "EXPIRED" THEN before ELSE Least(before + 1, MaxAttempts + 1)
  <2>1. MaxAttempts \in Nat
    BY BoundsAssumption
  <2>2. /\ Least(before + 1, MaxAttempts + 1) \in 0..MaxAttempts + 1
        /\ before <= Least(before + 1, MaxAttempts + 1)
    BY <2>1 DEF Least
  <2>3. guesses'[k] = IF r.new.status = "EXPIRED" THEN before ELSE Least(before + 1, MaxAttempts + 1)
    BY <1>1, <1>2, <1>4, <1>6 DEF TypeOK
  <2>4. guesses'[k] \in 0..MaxAttempts + 1 /\ before <= guesses'[k]
    BY <2>1, <2>2, <2>3
  <2> QED
    BY <2>3, <2>4
<1>8. \A token \in Tokens : token # k => /\ sessions'[token] = sessions[token]
                                         /\ guesses'[token] = guesses[token]
  BY <1>1, <1>2 DEF TypeOK
<1>9. sessions'[k] = row
  BY <1>1, <1>2, <1>4 DEF TypeOK
<1>10. CountsAtMost(sessions[k], after)
  <2>1. CountsAtMost(sessions[k], before)
    BY <1>4, <1>6 DEF NothingInvented, RowsCountAtMost
  <2>2. before \in Nat /\ after \in Nat
    BY BoundsAssumption
  <2> QED
    BY <1>4, <1>7, <2>1, <2>2, CountsGrow
<1>11. CountsAtMost(r.new, after)
  <2>1. CopyCountsAtMost(t)
    BY <1>3, <1>4 DEF NothingInvented, CopiesCountAtMost
  <2>2. CASE r.new.status = "EXPIRED"
    BY <1>6, <1>7, <2>1, <2>2 DEF CopyCountsAtMost
  <2>3. CASE r.new.status # "EXPIRED"
    <3>1. CountsAtMost(r.new, before + 1)
      BY <1>2, <1>6, <2>1, <2>3 DEF CopyCountsAtMost
    <3>2. r.new.attempts \in 0..MaxAttempts /\ MaxAttempts \in Nat
      BY <1>4, BoundsAssumption DEF Rows
    <3> QED
      BY <1>7, <2>3, <3>1, <3>2 DEF CountsAtMost, Least
  <2> QED
    BY <2>2, <2>3
<1>12. CountsAtMost(row, after)
  <2>1. row.attempts \in {r.new.attempts, sessions[k].attempts}
        /\ row.status \in {r.new.status, sessions[k].status}
    BY <1>4 DEF Written, Rows
  <2> QED
    BY <1>10, <1>11, <2>1 DEF CountsAtMost
<1> HIDE DEF row, r, k
<1>13. RowsCountAtMost'
  <2>1. ASSUME NEW token \in issued PROVE CountsAtMost(sessions'[token], guesses'[token])
    <3>1. CASE token = k
      BY <1>7, <1>9, <1>12, <3>1
    <3>2. CASE token # k
      BY <1>1, <1>8, <2>1, <3>2 DEF NothingInvented, RowsCountAtMost, TypeOK
    <3> QED
      BY <3>1, <3>2
  <2> QED
    BY <1>2, <2>1 DEF RowsCountAtMost
<1>14. CopiesCountAtMost'
  <2>1. ASSUME NEW u \in Busy', request'[u].token # Lost PROVE CopyCountsAtMost(u)'
    <3>1. /\ u \in Busy /\ request'[u] = request[u] /\ request[u] \in Requests
          /\ CopyCountsAtMost(u) /\ request[u].token \in Tokens
      BY <1>1, <1>5, <2>1 DEF NothingInvented, CopiesCountAtMost, Busy, TypeOK, Requests
    <3>2. CASE request[u].token # k
      BY <1>8, <3>1, <3>2 DEF CopyCountsAtMost
    <3>3. CASE request[u].token = k
      <4>1. request[u].new \in Rows
        BY <3>1 DEF Requests
      <4>2. before \in Nat /\ after \in Nat /\ before + 1 \in Nat /\ after + 1 \in Nat
            /\ before + 1 <= after + 1
        BY <1>7, BoundsAssumption
      <4>3. CountsAtMost(request[u].new, before) => CountsAtMost(request[u].new, after)
        BY <1>7, <4>1, <4>2, CountsGrow
      <4>4. CountsAtMost(request[u].new, before + 1) => CountsAtMost(request[u].new, after + 1)
        BY <4>1, <4>2, CountsGrow
      <4> QED
        BY <1>6, <1>7, <3>1, <3>3, <4>3, <4>4 DEF CopyCountsAtMost
    <3> QED
      BY <3>2, <3>3
  <2> QED
    BY <2>1 DEF CopiesCountAtMost
<1>15. LocksAtMost' /\ ReadsAtMost'
  BY <1>2, <1>5, LocksKept DEF NothingInvented
<1> QED
  BY <1>13, <1>14, <1>15 DEF NothingInvented

(* Scoring a guess counts it once in the copy, and reads the failures that *)
(* were recorded.  A reset waits in misses for the failures under way.     *)
LEMMA NothingInventedByAScore ==
  ASSUME IInv, NothingInvented, NEW t \in Threads, NEW matched \in BOOLEAN, Score(t, matched)
  PROVE  NothingInvented'
<1>1. TypeOK
  BY DEF IInv
<1>2. PICK r \in Requests : r = request[t]
  BY <1>1 DEF Score, TypeOK, Idle
<1>3. /\ r.at = "loaded" /\ r # Idle /\ r.new.status \notin {"VERIFIED", "FAILED"}
      /\ UNCHANGED <<sessions, ttl, issued, guesses, uncounted, faults>>
  BY <1>2 DEF Score, Idle
<1>4. t \in Busy /\ RequestFits(t)
  BY <1>2, <1>3 DEF IInv, RequestsFit, Busy
<1>5. r.new \in Rows /\ Started(r.new) /\ Unfinished(r.new)
  BY <1>2, <1>4 DEF RequestFits, Requests
<1>6. PICK b \in Bookings : b = r.new.booking
  BY <1>5 DEF Started
<1>7. PICK new \in Rows :
        /\ new = SubmitFactorResult(r.new, Left(r.token), matched)
        /\ new.booking = b
        /\ new.status # "EXPIRED" => new.attempts = r.new.attempts + 1
        /\ new.status = "EXPIRED" => new.attempts = r.new.attempts
  BY <1>3, <1>5, <1>6, SubmitFacts
<1>8. new.status = "FAILED" => MaxAttempts <= new.attempts
  BY <1>3, <1>5, <1>7 DEF SubmitFactorResult, Rows
<1>9. PICK scored : /\ request' = [request EXCEPT ![t] = scored]
                    /\ scored.at = (IF matched THEN "scored" ELSE "failing")
                    /\ scored.new = new /\ scored.token = r.token
                    /\ ~matched => scored.read = failures[b].count
  <2> DEFINE copy == [r EXCEPT !.at = IF matched THEN "scored" ELSE "failing", !.new = new,
                               !.read = IF matched THEN 0 ELSE failures[b].count]
  <2>1. request' = [request EXCEPT ![t] = copy]
    BY <1>2, <1>6, <1>7 DEF Score
  <2>2. /\ copy.at = (IF matched THEN "scored" ELSE "failing")
        /\ copy.new = new /\ copy.token = r.token
        /\ ~matched => copy.read = failures[b].count
    BY <1>2 DEF Requests
  <2> QED
    BY <2>1, <2>2
<1>10. /\ request'[t] = scored
       /\ \A u \in Busy' : u # t => u \in Busy /\ request'[u] = request[u]
  BY <1>1, <1>9 DEF TypeOK, Busy
<1>11. RowsCountAtMost'
  BY <1>3 DEF NothingInvented, RowsCountAtMost
<1>12. CopiesCountAtMost'
  <2>1. ASSUME r.token # Lost PROVE CopyCountsAtMost(t)'
    <3>1. guesses[r.token] \in Nat
      BY <1>1, <1>2, <2>1, BoundsAssumption DEF Requests, TypeOK
    <3>2. CountsAtMost(r.new, guesses[r.token])
      BY <1>2, <1>3, <1>4, <2>1 DEF NothingInvented, CopiesCountAtMost, CopyCountsAtMost
    <3>3. r.new.attempts \in Nat /\ new.attempts \in Nat /\ MaxAttempts \in Nat
      BY <1>5, BoundsAssumption DEF Rows
    <3>4. CASE new.status = "EXPIRED"
      <4>1. CountsAtMost(new, guesses[r.token])
        BY <1>7, <3>2, <3>4 DEF CountsAtMost
      <4> QED
        BY <1>3, <1>9, <1>10, <3>4, <4>1 DEF CopyCountsAtMost
    <3>5. CASE new.status # "EXPIRED"
      <4>1. CountsAtMost(new, guesses[r.token] + 1)
        BY <1>7, <1>8, <3>1, <3>2, <3>3, <3>5 DEF CountsAtMost
      <4> QED
        BY <1>3, <1>9, <1>10, <3>5, <4>1 DEF CopyCountsAtMost
    <3> QED
      BY <3>4, <3>5
  <2>2. ASSUME NEW u \in Busy', request'[u].token # Lost PROVE CopyCountsAtMost(u)'
    <3>1. CASE u = t
      BY <1>9, <1>10, <2>1, <2>2, <3>1
    <3>2. CASE u # t
      BY <1>3, <1>10, <2>2, <3>2 DEF NothingInvented, CopiesCountAtMost, CopyCountsAtMost
    <3> QED
      BY <3>1, <3>2
  <2> QED
    BY <2>2 DEF CopiesCountAtMost
<1>13. /\ \A c \in Bookings : c # b => failures'[c] = failures[c] /\ misses'[c] = misses[c]
       /\ ~matched => failures' = failures /\ misses' = misses
       /\ matched => failures'[b].count = 0 /\ failures'[b].lock = 0
       /\ misses'[b] \in 0..Saturation
       /\ (\E u \in Threads : FailingOn(u, b)) => misses'[b] = misses[b]
  <2>1. /\ failures' = IF matched THEN [failures EXCEPT ![b] = [count |-> 0, lock |-> 0]]
                       ELSE failures
        /\ misses' = IF matched /\ ~\E u \in Threads : FailingOn(u, b)
                     THEN [misses EXCEPT ![b] = 0] ELSE misses
    BY <1>2, <1>6 DEF Score
  <2> QED
    BY <1>1, <2>1, BoundsAssumption DEF TypeOK
<1>14. LocksAtMost'
  <2>1. ASSUME NEW c \in Bookings
        PROVE  failures'[c].count <= misses'[c] /\ failures'[c].lock <= Backoff(misses'[c])
    <3>1. CASE c = b /\ matched
      <4>1. Backoff(misses'[b]) \in 0..MaxBackoff
        BY <1>13, BackoffFacts
      <4> QED
        BY <1>13, <3>1, <4>1, BoundsAssumption
    <3>2. CASE ~(c = b /\ matched)
      BY <1>13, <2>1, <3>2 DEF NothingInvented, LocksAtMost
    <3> QED
      BY <3>1, <3>2
  <2> QED
    BY <2>1 DEF LocksAtMost
<1>15. ReadsAtMost'
  <2>1. ASSUME NEW u \in Busy', request'[u].at = "failing"
        PROVE  request'[u].read <= misses'[request'[u].new.booking]
    <3>1. CASE u = t
      <4>1. ~matched
        BY <1>9, <1>10, <2>1, <3>1
      <4> QED
        BY <1>7, <1>9, <1>10, <1>13, <3>1, <4>1 DEF NothingInvented, LocksAtMost
    <3>2. CASE u # t
      <4>1. /\ u \in Busy /\ request'[u] = request[u] /\ request[u].at = "failing"
            /\ request[u].read <= misses[request[u].new.booking]
            /\ request[u].new.booking \in Bookings
        BY <1>10, <2>1, <3>2
        DEF NothingInvented, ReadsAtMost, IInv, RequestsFit, RequestFits, Started
      <4>2. misses'[request[u].new.booking] = misses[request[u].new.booking]
        BY <1>13, <4>1 DEF FailingOn, Busy
      <4> QED
        BY <4>1, <4>2
    <3> QED
      BY <3>1, <3>2
  <2> QED
    BY <2>1 DEF ReadsAtMost
<1> QED
  BY <1>11, <1>12, <1>14, <1>15 DEF NothingInvented

(* A failure that is recorded adds one to what was read, which is at most  *)
(* what was there.                                                         *)
LEMMA NothingInventedByAFailure ==
  ASSUME IInv, NothingInvented, NEW t \in Threads, RecordFailure(t)
  PROVE  NothingInvented'
<1>1. TypeOK
  BY DEF IInv
<1>2. PICK r \in Requests : r = request[t]
  BY <1>1 DEF RecordFailure, TypeOK, Idle
<1>3. /\ r.at = "failing" /\ r # Idle
      /\ UNCHANGED <<sessions, issued, guesses>>
  BY <1>2 DEF RecordFailure, Idle
<1>4. t \in Busy /\ r.new.booking \in Bookings
  BY <1>2, <1>3 DEF Busy, IInv, RequestsFit, RequestFits, Started
<1>5. PICK b \in Bookings : b = r.new.booking
  BY <1>4
<1>6. PICK scored : /\ request' = [request EXCEPT ![t] = scored]
                    /\ scored.at = "scored" /\ scored.new = r.new /\ scored.token = r.token
  <2> DEFINE copy == [r EXCEPT !.at = "scored", !.read = 0]
  <2>1. request' = [request EXCEPT ![t] = copy]
    BY <1>2 DEF RecordFailure
  <2>2. copy.at = "scored" /\ copy.new = r.new /\ copy.token = r.token
    BY <1>2 DEF Requests
  <2> QED
    BY <2>1, <2>2
<1>7. /\ request'[t] = scored
      /\ \A u \in Busy' : u # t => u \in Busy /\ request'[u] = request[u]
  BY <1>1, <1>6 DEF TypeOK, Busy
<1>8. RowsCountAtMost'
  BY <1>3 DEF NothingInvented, RowsCountAtMost
<1>9. CopiesCountAtMost'
  <2>1. ASSUME NEW u \in Busy', request'[u].token # Lost PROVE CopyCountsAtMost(u)'
    <3>1. CASE u = t
      <4>1. CopyCountsAtMost(t)
        BY <1>2, <1>4, <1>6, <1>7, <2>1, <3>1 DEF NothingInvented, CopiesCountAtMost
      <4> QED
        BY <1>2, <1>3, <1>6, <1>7, <3>1, <4>1 DEF CopyCountsAtMost
    <3>2. CASE u # t
      BY <1>3, <1>7, <2>1, <3>2 DEF NothingInvented, CopiesCountAtMost, CopyCountsAtMost
    <3> QED
      BY <3>1, <3>2
  <2> QED
    BY <2>1 DEF CopiesCountAtMost
<1>10. /\ r.read \in 0..Saturation /\ misses[b] \in 0..Saturation /\ Saturation \in Nat
       /\ r.read <= misses[b]
  BY <1>1, <1>2, <1>3, <1>4, <1>5, BoundsAssumption
  DEF NothingInvented, ReadsAtMost, Requests, TypeOK
<1>11. PICK count \in 0..Saturation : count = Least(r.read + 1, Saturation)
  BY <1>10 DEF Least
<1>12. PICK number \in 0..Saturation : number = Least(misses[b] + 1, Saturation)
  BY <1>10 DEF Least
<1>13. count <= number /\ misses[b] <= number
  BY <1>10, <1>11, <1>12 DEF Least
<1>14. /\ failures'[b] = [count |-> count, lock |-> Backoff(count)]
       /\ misses'[b] = number
       /\ \A c \in Bookings : c # b => failures'[c] = failures[c] /\ misses'[c] = misses[c]
  <2>1. /\ failures' = [failures EXCEPT ![b] = AfterFailure(r.read)]
        /\ misses' = [misses EXCEPT ![b] = Least(@ + 1, Saturation)]
    BY <1>2, <1>5 DEF RecordFailure
  <2>2. AfterFailure(r.read) = [count |-> count, lock |-> Backoff(count)]
    BY <1>11 DEF AfterFailure
  <2> QED
    BY <1>1, <1>12, <2>1, <2>2 DEF TypeOK
<1>15. LocksAtMost'
  <2>1. Backoff(count) <= Backoff(number)
    BY <1>13, LongerBackoff
  <2>2. ASSUME NEW c \in Bookings
        PROVE  failures'[c].count <= misses'[c] /\ failures'[c].lock <= Backoff(misses'[c])
    <3>1. CASE c = b
      BY <1>13, <1>14, <2>1, <3>1
    <3>2. CASE c # b
      BY <1>14, <2>2, <3>2 DEF NothingInvented, LocksAtMost
    <3> QED
      BY <3>1, <3>2
  <2> QED
    BY <2>2 DEF LocksAtMost
<1>16. ReadsAtMost'
  <2>1. ASSUME NEW u \in Busy', request'[u].at = "failing"
        PROVE  request'[u].read <= misses'[request'[u].new.booking]
    <3>1. u # t
      BY <1>6, <1>7, <2>1
    <3>2. /\ request'[u] = request[u] /\ request[u] \in Requests
          /\ request[u].read <= misses[request[u].new.booking]
          /\ request[u].new.booking \in Bookings
      BY <1>1, <1>7, <2>1, <3>1
      DEF NothingInvented, ReadsAtMost, IInv, RequestsFit, RequestFits, Started, Busy, TypeOK
    <3>3. CASE request[u].new.booking = b
      <4>1. request[u].read \in Int
        BY <3>2 DEF Requests
      <4> QED
        BY <1>10, <1>13, <1>14, <3>2, <3>3, <4>1
    <3>4. CASE request[u].new.booking # b
      BY <1>14, <3>2, <3>4
    <3> QED
      BY <3>3, <3>4
  <2> QED
    BY <2>1 DEF ReadsAtMost
<1> QED
  BY <1>8, <1>9, <1>15, <1>16 DEF NothingInvented

(* Time shortens locks; forgetting and restarting need no request to wait. *)
LEMMA NothingInventedByTheSurroundings ==
  ASSUME IInv, NothingInvented, Tick \/ (\E b \in Looked : Forget(b)) \/ Restart
  PROVE  NothingInvented'
<1>1. TypeOK /\ UNCHANGED <<sessions, issued, guesses>>
  BY DEF IInv, Tick, Forget, Restart, history
<1>2. RowsCountAtMost'
  BY <1>1 DEF NothingInvented, RowsCountAtMost
<1>3. CASE Tick
  <2>1. UNCHANGED <<request, misses>>
    BY <1>3 DEF Tick, history
  <2>2. CopiesCountAtMost' /\ ReadsAtMost'
    BY <1>1, <2>1 DEF NothingInvented, CopiesCountAtMost, CopyCountsAtMost, ReadsAtMost, Busy
  <2>3. ASSUME NEW b \in Bookings
        PROVE  failures'[b].count <= misses[b] /\ failures'[b].lock <= Backoff(misses[b])
    <3>1. PICK f \in [count : 0..Saturation, lock : 0..MaxBackoff] : f = failures[b]
      BY <1>1 DEF TypeOK
    <3>2. failures'[b] = [f EXCEPT !.lock = IF @ = 0 THEN 0 ELSE @ - 1]
      BY <1>3, <3>1 DEF Tick
    <3>3. failures'[b].count = f.count /\ failures'[b].lock <= f.lock
          /\ f.lock \in Int /\ failures'[b].lock \in Int
      BY <3>2, BoundsAssumption
    <3>4. Backoff(misses[b]) \in Int
      BY <1>1, BackoffFacts DEF TypeOK
    <3>5. f.count <= misses[b] /\ f.lock <= Backoff(misses[b])
      BY <3>1 DEF NothingInvented, LocksAtMost
    <3> QED
      BY <3>3, <3>4, <3>5
  <2>4. LocksAtMost'
    BY <2>1, <2>3 DEF LocksAtMost
  <2> QED
    BY <1>2, <2>2, <2>4 DEF NothingInvented
<1>4. ASSUME NEW b \in Looked, Forget(b) PROVE NothingInvented'
  <2>1. /\ b \in Bookings
        /\ failures' = [failures EXCEPT ![b].count = 0]
        /\ misses' = [misses EXCEPT ![b] = 0]
        /\ ~(failures[b].lock > 0)
    BY <1>4, BookingsAssumption DEF Forget, IsLocked
  <2>2. Busy' = {}
    BY <1>4 DEF Forget, Busy
  <2>3. /\ failures'[b].count = 0 /\ failures'[b].lock <= 0 /\ misses'[b] = 0
        /\ \A c \in Bookings : c # b => failures'[c] = failures[c] /\ misses'[c] = misses[c]
    BY <1>1, <2>1, BoundsAssumption DEF TypeOK
  <2>4. LocksAtMost'
    BY <2>3, BackoffFacts DEF NothingInvented, LocksAtMost
  <2> QED
    BY <1>2, <2>2, <2>4 DEF NothingInvented, CopiesCountAtMost, ReadsAtMost
<1>5. CASE Restart
  <2>1. Busy' = {}
    BY <1>5 DEF Restart, Busy
  <2>2. LocksAtMost'
    BY <1>5, BackoffFacts DEF Restart, LocksAtMost
  <2> QED
    BY <1>2, <2>1, <2>2 DEF NothingInvented, CopiesCountAtMost, ReadsAtMost
<1> QED
  BY <1>3, <1>4, <1>5

LEMMA NothingInventedNext == IInv /\ NothingInvented /\ [Next]_vars => NothingInvented'
<1> SUFFICES ASSUME IInv, NothingInvented, [Next]_vars PROVE NothingInvented'
  OBVIOUS
<1>1. ASSUME NEW t \in Threads, Step(t) PROVE NothingInvented'
  <2>1. ASSUME NEW token \in Tokens, NEW b \in Looked, StartVoice(t, token, b)
        PROVE  NothingInvented'
    <3>1. /\ FreshRow(b, VoicePurpose).status = "VERIFICATION_PENDING"
          /\ FreshRow(b, VoicePurpose).attempts = 0
      BY DEF FreshRow
    <3>2. /\ token \notin issued /\ token # Lost
          /\ Begin(t, "voice", token, FreshRow(b, VoicePurpose))
          /\ issued' = issued \cup ({token} \ {Lost})
          /\ UNCHANGED <<sessions, failures, guesses, misses>>
      BY <2>1, Tokenless DEF StartVoice
    <3> QED
      BY <3>1, <3>2, NothingInventedByABeginning
  <2>2. ASSUME NEW b \in Looked, NEW purpose \in WebPurposes, StartWeb(t, b, purpose)
        PROVE  NothingInvented'
    <3>1. /\ FreshRow(b, purpose).status = "VERIFICATION_PENDING"
          /\ FreshRow(b, purpose).attempts = 0
      BY DEF FreshRow
    <3>2. /\ Lost \notin issued
          /\ Begin(t, "web", Lost, FreshRow(b, purpose))
          /\ issued' = issued \cup ({Lost} \ {Lost})
          /\ UNCHANGED <<sessions, failures, guesses, misses>>
      BY <2>2, Tokenless DEF StartWeb, IInv, TypeOK
    <3> QED
      BY <3>1, <3>2, NothingInventedByABeginning
  <2>3. ASSUME NEW channel \in Channels, NEW token \in Tokens, LoadSession(t, channel, token)
        PROVE  NothingInvented'
    <3>1. token \in issued /\ token # Lost
      <4>1. sessions[token] # NoRow
        BY <2>3 DEF LoadSession, NoRow
      <4>2. RowFits(token)
        BY DEF IInv, RowsFit
      <4> QED
        BY <4>1, <4>2, Tokenless DEF RowFits
    <3>2. /\ Begin(t, channel, token, sessions[token])
          /\ issued' = issued \cup ({token} \ {Lost})
          /\ UNCHANGED <<sessions, failures, guesses, misses>>
      BY <2>3, <3>1 DEF LoadSession
    <3> QED
      BY <3>1, <3>2, NothingInventedByABeginning
  <2>4. CASE Refuse(t)
    BY <2>4, NothingInventedByAnEnd DEF Refuse, history
  <2>5. CASE AnswerVoiceRolledBack(t)
    BY <2>5, NothingInventedByAnEnd DEF AnswerVoiceRolledBack, Answer
  <2>6. CASE AnswerWeb(t)
    BY <2>6, NothingInventedByAnEnd DEF AnswerWeb, Answer
  <2>7. ASSUME NEW matched \in BOOLEAN, Score(t, matched) PROVE NothingInvented'
    BY <2>7, NothingInventedByAScore
  <2> QED
    BY <1>1, <2>1, <2>2, <2>3, <2>4, <2>5, <2>6, <2>7, NothingInventedByACommit,
       NothingInventedByAFailure DEF Step
<1>2. CASE UNCHANGED vars
  BY <1>2 DEF vars, NothingInvented, RowsCountAtMost, CopiesCountAtMost, CopyCountsAtMost,
              LocksAtMost, ReadsAtMost, Busy
<1> QED
  BY <1>1, <1>2, NothingInventedByTheSurroundings DEF Next

-----------------------------------------------------------------------------
(* The theorems.                                                           *)

LEMMA StrangersNeedATokenForPassengers ==
  ASSUME NEW owner, NEW booking, NEW permission, NEW purpose,
         booking # Nobody, NEW usable \in BOOLEAN,
         RequirePassengerAccess(Anonymous, owner, booking, permission, purpose,
                                usable) = "allow"
  PROVE  usable
<1>1. RequireBookingAccess(Anonymous, owner, booking, permission, purpose, usable) = "allow"
  BY DEF RequireBookingAccess, RequirePassengerAccess, AuthorizeBooking, AuthorizePassenger
<1> QED
  BY <1>1, StrangersNeedAToken

(* Every row, copy and count is what the requests so far have made it.     *)
THEOREM Invariance == Spec => []IInv
BY InitInv, NextInv, PTL DEF Spec

(* Every variable keeps its type: no count passes its bound, and no lock   *)
(* that BackoffLockout sets is longer than max_backoff_seconds.            *)
THEOREM TypeCorrect == Spec => []TypeOK
<1>1. IInv => TypeOK
  BY DEF IInv
<1> QED
  BY <1>1, Invariance, PTL

(* ownership.py and verification_service.py: whatever requests overlap,    *)
(* fail or are lost, a request without an account reaches a booking only   *)
(* with a token earned for that booking and that purpose.                  *)
THEOREM OnlyTheEntitled == Spec => []EntitledOnly
<1>1. ASSUME IInv PROVE EntitledOnly
  <2>1. SUFFICES ASSUME NEW token \in Tokens, NEW b \in Bookings, NEW purpose \in Purposes,
                        WebEntry[b][purpose][Check(token, b, purpose)]
                 PROVE  EarnedFor(token, b, purpose)
    BY DEF EntitledOnly
  <2>2. Check(token, b, purpose) \in BOOLEAN
    BY DEF Check, IsUsable, ScopedTo
  <2>3. \/ RequireBookingAccess(Anonymous, Owner[b], b, "bookings.cancel", purpose,
                                Check(token, b, purpose)) = "allow"
        \/ RequirePassengerAccess(Anonymous, Owner[b], b, "passengers.manage", purpose,
                                  Check(token, b, purpose)) = "allow"
    BY <2>1, <2>2 DEF WebEntry
  <2>4. b # Nobody
    BY Tokenless
  <2>5. Check(token, b, purpose)
    BY <2>2, <2>3, <2>4, StrangersNeedAToken, StrangersNeedATokenForPassengers
  <2>6. RowFits(token)
    BY <1>1 DEF IInv, RowsFit
  <2> QED
    BY <2>5, <2>6 DEF Check, IsUsable, ScopedTo, RowFits, EarnedFor
<1> QED
  BY <1>1, Invariance, PTL

(* A tool of a verified booking asks for a confirmation in its mapper if   *)
(* its schema requires one.                                                *)
LEMMA ConfirmedTools ==
  ASSUME NEW tool \in (VerifiedTools \ NotImplemented) \cap RequiresConfirmation
  PROVE  tool \in ConfirmedByMapper
<1>1. tool \in {"modify_booking", "cancel_booking", "remove_passenger",
                "create_payment_session"}
  BY DEF VerifiedTools, NotImplemented, RequiresConfirmation
<1>2. tool \in SchemaTools /\ "customer_confirmed" \in SchemaRequired[tool]
  BY <1>1 DEF SchemaTools, SchemaRequired, ReadOnlySchemas, MutatingSchemas, LaterSchemas
<1> QED
  BY <1>1, <1>2 DEF ConfirmedByMapper, Mapped, NotImplemented

LEMMA NoDecisionDispatches ==
  ASSUME NEW actor, NEW tool, NEW booking, NEW owner
  PROVE  AuthorizeTool(actor, tool, booking, owner) # "dispatched"
<1>1. \A permission, purpose :
        AuthorizeBooking(actor, owner, booking, permission, purpose) # "dispatched"
  <2>1. \A permission : HumanDecision(actor, owner, permission) # "dispatched"
    BY DEF HumanDecision
  <2>2. \A purpose : TokenDecision(actor, booking, purpose) # "dispatched"
    BY DEF TokenDecision
  <2> QED
    BY <2>1, <2>2 DEF AuthorizeBooking, AuthorizeResource
<1> QED
  BY <1>1 DEF AuthorizeTool

(* vapi.py: the voice assistant's tool calls reach a booking on the same   *)
(* terms, and those that need a confirmation only with one.                *)
THEOREM OnlyTheVerified == Spec => []DispatchedIsVerified
<1>1. ASSUME IInv, NEW token \in Tokens, NEW b \in Bookings, NEW confirmed \in BOOLEAN,
             NEW tool \in VoiceEntry[b][confirmed][Check(token, b, VoicePurpose)]
      PROVE  EarnedFor(token, b, VoicePurpose) /\ (tool \in RequiresConfirmation => confirmed)
  <2> DEFINE usable == Check(token, b, VoicePurpose)
             call == VoiceCall(tool, b, confirmed)
  <2>1. usable \in BOOLEAN /\ b # Nobody
    BY Tokenless DEF Check, IsUsable, ScopedTo
  <2> HIDE DEF usable
  <2>2. /\ tool \in VerifiedTools
        /\ HandleToolCall(call, Owner[b], usable) = "dispatched"
        /\ call.tool = tool /\ call.pnr = b /\ call.confirmed = confirmed
    BY <1>1, <2>1 DEF VoiceEntry, VoiceCall, usable
  <2> HIDE DEF call
  <2>3. /\ ToolDecision(call, Owner[b], usable) = "allow"
        /\ tool \notin NotImplemented
        /\ MapArguments(call) = "mapped"
    <3>1. MapArguments(call) # "dispatched"
      BY DEF MapArguments
    <3>2. ToolDecision(call, Owner[b], usable) # "dispatched"
      BY NoDecisionDispatches DEF ToolDecision
    <3> QED
      BY <2>2, <3>1, <3>2 DEF HandleToolCall
  <2>4. usable
    <3> SUFFICES ASSUME ~usable PROVE FALSE
      OBVIOUS
    <3>1. CallActor(call, usable) = VapiActor
      BY DEF CallActor, Redeem
    <3>2. AuthorizeTool(VapiActor, tool, BookingOf(call), Owner[b]) = "allow"
      BY <2>2, <2>3, <3>1 DEF ToolDecision
    <3>3. VapiActor.kind = "vapi_agent" /\ VapiActor.booking = Nobody
      BY DEF VapiActor, Anonymous
    <3>4. BookingOf(call) \in {b, Nobody}
      BY <2>2 DEF BookingOf
    <3>5. tool \notin PublicTools
      BY <2>2 DEF VerifiedTools, PublicTools
    <3>6. /\ BookingOf(call) = b
          /\ AuthorizeBooking(VapiActor, Owner[b], b, ToolPermission[tool],
                              VoicePurpose) = "allow"
      BY <3>2, <3>4, <3>5 DEF AuthorizeTool
    <3>7. ~HasValidBookingVerification(VapiActor, b, VoicePurpose)
      BY <2>1, <3>3 DEF HasValidBookingVerification
    <3>8. TokenDecision(VapiActor, b, VoicePurpose) = "allow"
      BY <3>3, <3>6 DEF AuthorizeBooking, AuthorizeResource
    <3> QED
      BY <3>7, <3>8 DEF TokenDecision
  <2>5. EarnedFor(token, b, VoicePurpose)
    BY <1>1, <2>4 DEF usable, IInv, RowsFit, RowFits, Check, IsUsable, ScopedTo, EarnedFor
  <2>6. ASSUME tool \in RequiresConfirmation PROVE confirmed
    <3>1. call.tool \in ConfirmedByMapper
      BY <2>2, <2>3, <2>6, ConfirmedTools
    <3> QED
      BY <2>2, <2>3, <3>1 DEF MapArguments
  <2> QED
    BY <2>5, <2>6
<1>2. ASSUME IInv PROVE DispatchedIsVerified
  BY <1>1, <1>2 DEF DispatchedIsVerified
<1> QED
  BY <1>2, Invariance, PTL

(* However requests overlap, fail or are lost, no count is larger than     *)
(* what happened, and no lock longer.                                      *)
THEOREM NothingIsInvented == Spec => []NothingInvented
<1>1. Spec => [](IInv /\ NothingInvented)
  BY InitInv, NextInv, NothingInventedInitially, NothingInventedNext, PTL DEF Spec
<1> QED
  BY <1>1, PTL

(* schemas/booking.py: whatever goes on, a session's row never counts more *)
(* guesses than were made and never fails before its MaxAttempts, and a    *)
(* session whose submissions neither overlap nor are lost takes            *)
(* MaxAttempts of them and no more.                                        *)
THEOREM AttemptsAreCounted == Spec => []GuessesAreCounted
<1>1. ASSUME IInv, NothingInvented PROVE GuessesAreCounted
  <2>1. ASSUME NEW token \in issued \ uncounted
        PROVE  sessions[token].attempts = guesses[token] /\ guesses[token] <= MaxAttempts
    <3>1. CountFits(token)
      BY <1>1, <2>1 DEF IInv, CountsFit
    <3>2. sessions[token].attempts \in 0..MaxAttempts
      BY <1>1, <2>1 DEF IInv, TypeOK, Rows
    <3> QED
      BY <3>1, <3>2, BoundsAssumption DEF CountFits
  <2> QED
    BY <1>1, <2>1 DEF GuessesAreCounted, NothingInvented, RowsCountAtMost
<1> QED
  BY <1>1, Invariance, NothingIsInvented, PTL

(* rate_limiter.py: for every threshold and backoff, and however failures  *)
(* overlap, a booking is locked for no longer than the failures recorded   *)
(* for it ask for, and failures that do not overlap are all counted.       *)
THEOREM LocksAreMeasured == Spec => []FailuresAreCounted
<1>1. ASSUME IInv, NothingInvented PROVE FailuresAreCounted
  BY <1>1 DEF IInv, LocksFit, LockFits, NothingInvented, LocksAtMost, FailuresAreCounted
<1> QED
  BY <1>1, Invariance, NothingIsInvented, PTL
=============================================================================
