----------------------------- MODULE ToolCalls -----------------------------
(***************************************************************************)
(* The voice channel: vapi_webhook, _handle_one_tool_call and the two      *)
(* mutating services that differ in how they are protected,                *)
(* BookingService.create_booking (idempotency store, rollback on error)    *)
(* and PassengerService.add_passenger (neither).                           *)
(*                                                                         *)
(* A webhook delivery carries a batch of tool calls and handles them one   *)
(* after the other over ONE database session.  A service's commit or       *)
(* rollback therefore commits or discards what the earlier calls of the    *)
(* batch only flushed.  The table tool_executions is what makes a          *)
(* redelivery harmless: a call whose row has an outcome is not run again.  *)
(*                                                                         *)
(* The database is PostgreSQL at READ COMMITTED: a flushed write is seen   *)
(* by others once committed, and a write of a row another transaction has  *)
(* written and not yet committed waits for it (the operator Free).         *)
(*                                                                         *)
(* Every other tool is of kind "read" here, which stands for the tools     *)
(* that write nothing, or "verify", which flushes a VerificationSession.   *)
(* Tools that are declared and not implemented are left out.               *)
(* Booking rows, passengers and reservations are counted, not described.   *)
(***************************************************************************)
EXTENDS Naturals, Sequences, FiniteSets

CONSTANTS
  Calls,         \* vapi_tool_call_ids
  Keys,          \* idempotency keys derived from a call's arguments
  Messages,      \* webhook messages of one phone call
  Report,        \* ... of which this one is the end-of-call report
  CallsOf,       \* the tool calls of every other message
  Kind,          \* what each tool call asks for
  KeyOf,         \* the key of each "create" call
  Threads,       \* threads that serve deliveries
  MaxDeliveries, \* bound: deliveries of one message
  MaxFaults,     \* bound: failed commits and airline calls
  MaxRestarts    \* bound: crashes of the process

Batches == Messages \ {Report}
Kinds == {"read", "verify", "create", "add"}

(* Vapi gives every tool call an id of its own.                            *)
ASSUME BatchesAssumption ==
  /\ Kind \in [Calls -> Kinds]
  /\ KeyOf \in [Calls -> Keys]
  /\ CallsOf \in [Batches -> Seq(Calls)]
  /\ \A b \in Batches : CallsOf[b] # << >>

ASSUME BoundsAssumption ==
  /\ MaxDeliveries \in Nat
  /\ MaxFaults \in Nat
  /\ MaxRestarts \in Nat

VARIABLES
  call,       \* the Call row of the phone call
  log,        \* tool_executions: tool call -> its row
  verified,   \* "verify" calls whose VerificationSession is in the database
  booked,     \* key -> number of Booking rows created under it
  added,      \* "add" call -> number of passengers it added to its booking
  reserved,   \* airline: keys under which it holds a reservation
  store,      \* IdempotencyStore: key -> state; lost in a crash
  delivery,   \* thread -> the delivery it serves
  sent,       \* message -> number of deliveries
  told,       \* tool call -> the last answer Vapi received
  faults,
  restarts

vars == <<call, log, verified, booked, added, reserved, store, delivery, sent,
          told, faults, restarts>>

tables == <<log, verified>>
effects == <<booked, added, reserved, store>>
vapi == <<sent, told>>
counters == <<faults, restarts>>

-----------------------------------------------------------------------------
(* Types.  A row of tool_executions with no outcome is "claimed" when the  *)
(* call was allowed to run (or is about to be decided), "denied" when it   *)
(* was not; the others are outcomes.                                       *)

Outcomes == {"success", "error"}
Rows == {"absent", "claimed", "denied"} \cup Outcomes
Answers == {"none"} \cup Outcomes
StoreStates == {"absent", "in_progress", "completed"}

Pcs == {"idle", "call", "end", "lookup", "claim", "run", "reserve", "book",
        "complete", "add_commit", "save", "resave", "commit", "respond"}

(* found is the call's row as looked up; written and sessions are what     *)
(* this delivery's transaction has flushed.                                *)
Deliveries == [pc: Pcs, message: Messages \cup {Report}, n: Nat \ {0}, found: Rows,
               written: [Calls -> Rows], sessions: SUBSET Calls,
               answer: [Calls -> Answers]]

Nothing == [c \in Calls |-> "absent"]
Unanswered == [c \in Calls |-> "none"]

Idle == [pc |-> "idle", message |-> Report, n |-> 1, found |-> "absent",
         written |-> Nothing, sessions |-> {}, answer |-> Unanswered]

TypeOK ==
  /\ call \in {"absent", "in_progress", "ended"}
  /\ log \in [Calls -> Rows]
  /\ verified \subseteq Calls
  /\ booked \in [Keys -> Nat]
  /\ added \in [Calls -> Nat]
  /\ reserved \subseteq Keys
  /\ store \in [Keys -> StoreStates]
  /\ delivery \in [Threads -> Deliveries]
  /\ sent \in [Messages -> 0..MaxDeliveries]
  /\ told \in [Calls -> Answers]
  /\ faults \in 0..MaxFaults
  /\ restarts \in 0..MaxRestarts

Init ==
  /\ call = "absent"
  /\ log = [c \in Calls |-> "absent"]
  /\ verified = {}
  /\ booked = [k \in Keys |-> 0]
  /\ added = [c \in Calls |-> 0]
  /\ reserved = {}
  /\ store = [k \in Keys |-> "absent"]
  /\ delivery = [t \in Threads |-> Idle]
  /\ sent = [m \in Messages |-> 0]
  /\ told = Unanswered
  /\ faults = 0
  /\ restarts = 0

-----------------------------------------------------------------------------
(* The transaction of a delivery.                                          *)

At(t, pc) == delivery[t].pc = pc
Current(t) == CallsOf[delivery[t].message][delivery[t].n]
Continue(t, pc) == delivery' = [delivery EXCEPT ![t].pc = pc]

(* No other transaction has written the row of c and is still open.        *)
Free(t, c) == \A u \in Threads \ {t} : delivery[u].written[c] = "absent"

(* An UPDATE names the columns this delivery changed: it sets an outcome,  *)
(* but never clears one another delivery has set.                          *)
Overwrite(old, new) ==
  IF new = "absent" \/ (new \notin Outcomes /\ old \in Outcomes) THEN old ELSE new

Commit(written, sessions) ==
  /\ log' = [c \in Calls |-> Overwrite(log[c], written[c])]
  /\ verified' = verified \cup sessions

(* d with an empty transaction, after a commit or a rollback.              *)
Emptied(d) == [d EXCEPT !.written = Nothing, !.sessions = {}]

(* Mutant: the connection goes back to the pool with its transaction open. *)
CloseKeepsLocks(t) == delivery' = [delivery EXCEPT ![t].pc = "idle"]

(* The request ends; closing its session rolls back an open transaction.   *)
Close(t) == delivery' = [delivery EXCEPT ![t] = Idle]

Fault == /\ faults < MaxFaults
         /\ faults' = faults + 1
         /\ UNCHANGED restarts

(* Mutant: the row's state is taken for the answer.                        *)
AnswerIsRow(row) == row

(* A denial is an error to the assistant.                                  *)
AnswerFor(row) == IF row = "success" THEN "success" ELSE "error"

(* d after its current call c was given an answer: to the next call of the *)
(* batch, or to the final commit.                                          *)
Answered(d, c, answer) ==
  [d EXCEPT !.answer[c] = answer,
            !.pc = IF d.n < Len(CallsOf[d.message]) THEN "lookup" ELSE "commit",
            !.n = IF d.n < Len(CallsOf[d.message]) THEN @ + 1 ELSE @]

(* _save_log: the row is flushed, and the answer set aside.                *)
Saved(d, c, row) == Answered([d EXCEPT !.written[c] = row], c, AnswerFor(row))

Save(t, row) ==
  /\ Free(t, Current(t))
  /\ delivery' = [delivery EXCEPT ![t] = Saved(@, Current(t), row)]

-----------------------------------------------------------------------------
(* vapi_webhook, before the tool calls.                                    *)

FirstPc(m) == IF m = Report THEN "end" ELSE "lookup"

(* Vapi delivers a message, again if no answer has reached it.             *)
Deliver(t, m) ==
  /\ At(t, "idle")
  /\ sent[m] < MaxDeliveries
  /\ m # Report => \E c \in {CallsOf[m][i] : i \in 1..Len(CallsOf[m])} : told[c] = "none"
  /\ sent' = [sent EXCEPT ![m] = @ + 1]
  /\ delivery' = [delivery EXCEPT ![t] =
       [Idle EXCEPT !.message = m, !.pc = IF call = "absent" THEN "call" ELSE FirstPc(m)]]
  /\ UNCHANGED <<call, tables, effects, told, counters>>

(* _get_or_create_call found no row; its INSERT is committed at once.      *)
InsertCall(t) ==
  /\ At(t, "call")
  /\ call = "absent"
  /\ call' = "in_progress"
  /\ Continue(t, FirstPc(delivery[t].message))
  /\ UNCHANGED <<tables, effects, vapi, counters>>

(* UNIQUE vapi_call_id: another delivery has inserted it since, and this   *)
(* one raises (HTTP 500).                                                  *)
InsertCallConflicts(t) ==
  /\ At(t, "call")
  /\ call # "absent"
  /\ Close(t)
  /\ UNCHANGED <<call, tables, effects, vapi, counters>>

EndCall(t) ==
  /\ At(t, "end")
  /\ call' = "ended"
  /\ Continue(t, "respond")
  /\ UNCHANGED <<tables, effects, vapi, counters>>

-----------------------------------------------------------------------------
(* _handle_one_tool_call, up to the dispatch.                              *)

(* Mutant: the row is a log only, whose outcome nobody reads.              *)
NeverDone(row) == FALSE

IsDone(row) == row \in Outcomes

(* The row as committed; without an outcome it is taken over.              *)
Lookup(t) ==
  LET c == Current(t) IN
  /\ At(t, "lookup")
  /\ delivery' = [delivery EXCEPT ![t] =
       IF IsDone(log[c]) THEN Answered(@, c, AnswerFor(log[c]))
       ELSE [@ EXCEPT !.found = log[c], !.pc = IF log[c] = "absent" THEN "claim" ELSE "run"]]
  /\ UNCHANGED <<call, tables, effects, vapi, counters>>

(* INSERT of the row, flushed: waits for another open claim.               *)
Claim(t) ==
  LET c == Current(t) IN
  /\ At(t, "claim")
  /\ Free(t, c)
  /\ log[c] = "absent"
  /\ delivery' = [delivery EXCEPT ![t].written[c] = "claimed", ![t].pc = "run"]
  /\ UNCHANGED <<call, tables, effects, vapi, counters>>

(* UNIQUE vapi_tool_call_id: the IntegrityError leaves the handler (500).  *)
ClaimConflicts(t) ==
  /\ At(t, "claim")
  /\ log[Current(t)] # "absent"
  /\ Close(t)
  /\ UNCHANGED <<call, tables, effects, vapi, counters>>

(* Rate limit, unknown booking or refused authorization.                   *)
Deny(t) ==
  /\ At(t, "run")
  /\ Save(t, "denied")
  /\ UNCHANGED <<call, tables, effects, vapi, counters>>

(* Bad arguments, an unknown tool, or an error raised by a service before  *)
(* its try block or by one that has none.                                  *)
Refuse(t) ==
  /\ At(t, "run")
  /\ Save(t, "error")
  /\ UNCHANGED <<call, tables, effects, vapi, counters>>

Read(t) ==
  /\ At(t, "run")
  /\ Kind[Current(t)] = "read"
  /\ Save(t, "success")
  /\ UNCHANGED <<call, tables, effects, vapi, counters>>

(* VerificationSessionService.start and a matching submit: flushed only.   *)
Verify(t) ==
  LET d == delivery[t]
      c == Current(t)
  IN
  /\ At(t, "run")
  /\ Kind[c] = "verify"
  /\ Free(t, c)
  /\ delivery' = [delivery EXCEPT ![t] =
       Saved([d EXCEPT !.sessions = d.sessions \cup {c}], c, "success")]
  /\ UNCHANGED <<call, tables, effects, vapi, counters>>

-----------------------------------------------------------------------------
(* BookingService.create_booking                                           *)

KeyAt(t) == KeyOf[Current(t)]

(* A service's commit.  It also flushes the current row if this delivery   *)
(* changed it: a denied row it took over is now allowed.                   *)
ServiceCommit(t, pc) ==
  LET d == delivery[t]
      c == Current(t)
      retaken == d.found = "denied"
  IN
  /\ retaken => Free(t, c)
  /\ Commit(IF retaken THEN [d.written EXCEPT ![c] = "claimed"] ELSE d.written, d.sessions)
  /\ delivery' = [delivery EXCEPT ![t] = [Emptied(d) EXCEPT !.pc = pc]]

(* Mutant: a key in progress is begun by another request.                  *)
MayBeginUnlessCompleted(key) == store[key] # "completed"

(* Mutant: a completed key is begun again.                                 *)
MayBeginUnlessBusy(key) == store[key] # "in_progress"

MayBegin(key) == store[key] = "absent"

Create(t) ==
  /\ At(t, "run")
  /\ Kind[Current(t)] = "create"
  /\ MayBegin(KeyAt(t))
  /\ store' = [store EXCEPT ![KeyAt(t)] = "in_progress"]
  /\ Continue(t, "reserve")
  /\ UNCHANGED <<call, tables, booked, added, reserved, vapi, counters>>

(* Mutant: a key in progress is answered as if it were completed.          *)
RowOfBusyKey(key) == "success"

(* BOOKING_IN_PROGRESS, or the booking created before.                     *)
RowOfKnownKey(key) == IF store[key] = "completed" THEN "success" ELSE "error"

CreateKnown(t) ==
  /\ At(t, "run")
  /\ Kind[Current(t)] = "create"
  /\ ~MayBegin(KeyAt(t))
  /\ Save(t, RowOfKnownKey(KeyAt(t)))
  /\ UNCHANGED <<call, tables, effects, vapi, counters>>

(* The airline makes one reservation per key and replays it.               *)
Reserve(t) ==
  /\ At(t, "reserve")
  /\ reserved' = reserved \cup {KeyAt(t)}
  /\ Continue(t, "book")
  /\ UNCHANGED <<call, tables, booked, added, store, vapi, counters>>

(* Mutant: the in-progress marker stays.                                   *)
FailKeepsMarker(key) == UNCHANGED store

Fail(key) == store' = [store EXCEPT ![key] = "absent"]

(* The except clause: the whole transaction goes, and with it the rows of  *)
(* the calls before this one; the current row is inserted anew.            *)
RollBack(t) ==
  /\ Fail(KeyAt(t))
  /\ delivery' = [delivery EXCEPT ![t] = [Emptied(@) EXCEPT !.pc = "resave"]]
  /\ UNCHANGED <<tables, booked, added>>

(* No reservation: the fare has expired.                                   *)
ReserveRefused(t) ==
  /\ At(t, "reserve")
  /\ KeyAt(t) \notin reserved
  /\ RollBack(t)
  /\ UNCHANGED <<call, reserved, vapi, counters>>

(* The airline's answer, or the call itself, is lost.                      *)
ReserveFails(t) ==
  /\ At(t, "reserve")
  /\ Fault
  /\ reserved' \in {reserved, reserved \cup {KeyAt(t)}}
  /\ RollBack(t)
  /\ UNCHANGED <<call, vapi>>

(* The Booking row, with a PNR of its own.                                 *)
Book(t) ==
  /\ At(t, "book")
  /\ ServiceCommit(t, "complete")
  /\ booked' = [booked EXCEPT ![KeyAt(t)] = @ + 1]
  /\ UNCHANGED <<call, added, reserved, store, vapi, counters>>

BookFails(t) ==
  /\ At(t, "book")
  /\ Fault
  /\ RollBack(t)
  /\ UNCHANGED <<call, reserved, vapi>>

Complete(t) ==
  /\ At(t, "complete")
  /\ store' = [store EXCEPT ![KeyAt(t)] = "completed"]
  /\ Continue(t, "save")
  /\ UNCHANGED <<call, tables, booked, added, reserved, vapi, counters>>

(* The INSERT of a row that the rollback took away, or an UPDATE.          *)
Resave(t) ==
  /\ At(t, "resave")
  /\ delivery[t].found = "absent" => log[Current(t)] = "absent"
  /\ Save(t, "error")
  /\ UNCHANGED <<call, tables, effects, vapi, counters>>

(* ... which another delivery has claimed since.                           *)
ResaveConflicts(t) ==
  /\ At(t, "resave")
  /\ delivery[t].found = "absent"
  /\ log[Current(t)] # "absent"
  /\ Close(t)
  /\ UNCHANGED <<call, tables, effects, vapi, counters>>

-----------------------------------------------------------------------------
(* PassengerService.add_passenger: no key and no except clause.  The       *)
(* airline's passenger list is the business of Bookings.                   *)

Add(t) ==
  /\ At(t, "run")
  /\ Kind[Current(t)] = "add"
  /\ Continue(t, "add_commit")
  /\ UNCHANGED <<call, tables, effects, vapi, counters>>

CommitAdd(t) ==
  /\ At(t, "add_commit")
  /\ ServiceCommit(t, "save")
  /\ added' = [added EXCEPT ![Current(t)] = @ + 1]
  /\ UNCHANGED <<call, booked, reserved, store, vapi, counters>>

(* The session is unusable until it is rolled back: saving the row raises. *)
CommitAddFails(t) ==
  /\ At(t, "add_commit")
  /\ Fault
  /\ Close(t)
  /\ UNCHANGED <<call, tables, effects, vapi>>

SaveSuccess(t) ==
  /\ At(t, "save")
  /\ Save(t, "success")
  /\ UNCHANGED <<call, tables, effects, vapi, counters>>

-----------------------------------------------------------------------------
(* vapi_webhook, after the tool calls.                                     *)

FinalCommit(t) ==
  /\ At(t, "commit")
  /\ Commit(delivery[t].written, delivery[t].sessions)
  /\ delivery' = [delivery EXCEPT ![t] = [Emptied(@) EXCEPT !.pc = "respond"]]
  /\ UNCHANGED <<call, effects, vapi, counters>>

FinalCommitFails(t) ==
  /\ At(t, "commit")
  /\ Fault
  /\ Close(t)
  /\ UNCHANGED <<call, tables, effects, vapi>>

Respond(t) ==
  /\ At(t, "respond")
  /\ told' = [c \in Calls |-> IF delivery[t].answer[c] = "none" THEN told[c]
                              ELSE delivery[t].answer[c]]
  /\ Close(t)
  /\ UNCHANGED <<call, tables, effects, sent, counters>>

(* Vapi has stopped waiting for the answer.                                *)
ResponseLost(t) ==
  /\ At(t, "respond")
  /\ Close(t)
  /\ UNCHANGED <<call, tables, effects, vapi, counters>>

(* Open transactions are rolled back; the store was in memory.             *)
Restart ==
  /\ restarts < MaxRestarts
  /\ restarts' = restarts + 1
  /\ delivery' = [t \in Threads |-> Idle]
  /\ store' = [k \in Keys |-> "absent"]
  /\ UNCHANGED <<call, tables, booked, added, reserved, vapi, faults>>

HandleCall(t) ==
  \/ Lookup(t) \/ Claim(t) \/ ClaimConflicts(t)
  \/ Deny(t) \/ Refuse(t) \/ Read(t) \/ Verify(t)
  \/ Create(t) \/ CreateKnown(t) \/ Reserve(t) \/ ReserveRefused(t) \/ ReserveFails(t)
  \/ Book(t) \/ BookFails(t) \/ Complete(t) \/ Resave(t) \/ ResaveConflicts(t)
  \/ Add(t) \/ CommitAdd(t) \/ CommitAddFails(t) \/ SaveSuccess(t)

Step(t) ==
  \/ InsertCall(t) \/ InsertCallConflicts(t) \/ EndCall(t)
  \/ HandleCall(t)
  \/ FinalCommit(t) \/ FinalCommitFails(t) \/ Respond(t) \/ ResponseLost(t)

Next ==
  \/ \E t \in Threads : \E m \in Messages : Deliver(t, m)
  \/ \E t \in Threads : Step(t)
  \/ Restart

Spec == Init /\ [][Next]_vars

(* A thread that has taken a request runs on; it waits only for a row that *)
(* another transaction holds.                                              *)
FairSpec == Spec /\ \A t \in Threads : WF_vars(Step(t))

-----------------------------------------------------------------------------
(* What holds.                                                             *)

(* An idempotency key of create_booking leads to one Booking row, whatever *)
(* is redelivered, concurrent or rolled back, as long as the process       *)
(* lives; each restart (which empties the store) can add one more.         *)
BookedOncePerLife == \A k \in Keys : booked[k] <= 1 + restarts

Done(c) == /\ Kind[c] = "create" => booked[KeyOf[c]] >= 1
           /\ Kind[c] = "add" => added[c] >= 1

(* What the assistant is told has succeeded, or the log shows as a         *)
(* success, is in the database: also from a replayed row, a key completed  *)
(* by another delivery, or a batch that was rolled back in between.        *)
SuccessIsReal ==
  \A c \in Calls : log[c] = "success" \/ told[c] = "success" => Done(c)

Creating(t) == delivery[t].pc \in {"reserve", "book", "complete"}

(* A key of create_booking is in progress only while a request works on    *)
(* it, so a retry is never refused as "already being processed" for good.  *)
NoOrphanedKey ==
  \A k \in Keys : store[k] = "in_progress" =>
    \E t \in Threads : Creating(t) /\ KeyAt(t) = k

(* A request has made its booking and has yet to complete its key.         *)
Acted(k) == \E t \in Threads : At(t, "complete") /\ KeyAt(t) = k

Phases == [k \in Keys |-> IF Acted(k) THEN "acted" ELSE store[k]]

Once == INSTANCE OncePerLife
  WITH phase <- Phases, acts <- booked, held <- reserved, lives <- restarts

(* create_booking over its IdempotencyStore keeps what a key promises: of  *)
(* all that is delivered and redelivered, one request at a time works on a *)
(* key, books once and only under a reservation, never gives a key up that *)
(* has booked, and no key is begun again while the process lives.          *)
ImplementsOncePerLife == Once!Spec

(* Deliveries one at a time, with no create_booking that could roll an     *)
(* add_passenger's row back: the log lets add_passenger, which has no key, *)
(* act once more only after a failed commit or a crash, never because an   *)
(* answer was lost.                                                        *)
AddedOncePerFault == \A c \in Calls : added[c] <= 1 + faults + restarts

(* Every delivery ends: deliveries that wait for each other's claims, or   *)
(* insert again what a rollback took away, never wait in a circle.         *)
EveryDeliveryEnds ==
  \A t \in Threads : delivery[t].pc # "idle" ~> delivery[t].pc = "idle"

-----------------------------------------------------------------------------
(* What the repository says and the code does not do.                      *)

(* vapi.py: the worst of a concurrent double delivery is "a confusing      *)
(* ToolExecution log".                                                     *)
AddedOnce == \A c \in Calls : added[c] <= 1

(* _dispatch_verify_booking_customer: "Verified. verification_token: ... - *)
(* use this for anything else on booking".                                 *)
VerifiedIsUsable ==
  \A c \in Calls : Kind[c] = "verify" /\ told[c] = "success" => c \in verified
=============================================================================
