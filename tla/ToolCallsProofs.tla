-------------------------- MODULE ToolCallsProofs --------------------------
(***************************************************************************)
(* Theorems about ToolCalls, for any calls, batches, keys, threads and     *)
(* bounds.  They rest on one inductive invariant, IInv.                    *)
(***************************************************************************)
EXTENDS ToolCalls, Integers, TLAPS

-----------------------------------------------------------------------------
(* The inductive invariant.                                                *)

CallAt(d) == CallsOf[d.message][d.n]

CallPcs == {"lookup", "claim", "run", "reserve", "book", "complete",
            "add_commit", "save", "resave"}

HasCall(d) == /\ d.message \in Batches
              /\ d.n \in 1..Len(CallsOf[d.message])

(* A delivery at a call has one, and so will one about to create its Call. *)
Placed(d) == /\ d.pc \in CallPcs => HasCall(d)
             /\ d.pc = "call" /\ d.message # Report => HasCall(d)

(* What it has flushed or set aside as a success was done, and so was what *)
(* it is about to save.                                                    *)
Held(d) == /\ \A c \in Calls : d.written[c] = "success" \/ d.answer[c] = "success" => Done(c)
           /\ d.pc = "save" => Done(CallAt(d))
           /\ d.pc = "add_commit" => Kind[CallAt(d)] = "add"

IsCreating(d) == d.pc \in {"reserve", "book", "complete"}

(* A delivery inside create_booking holds its key, and has booked under it *)
(* or not yet in this life of the process.                                 *)
CreateFits(d) ==
  IsCreating(d) =>
    /\ Kind[CallAt(d)] = "create"
    /\ store[KeyOf[CallAt(d)]] = "in_progress"
    /\ d.pc # "complete" => booked[KeyOf[CallAt(d)]] <= restarts
    /\ d.pc = "complete" => booked[KeyOf[CallAt(d)]] >= 1

Fits(d) == Placed(d) /\ Held(d) /\ CreateFits(d)

DeliveriesFit == \A t \in Threads : Fits(delivery[t])

OneHolder ==
  \A t, u \in Threads :
    IsCreating(delivery[t]) /\ IsCreating(delivery[u])
      /\ KeyOf[CallAt(delivery[t])] = KeyOf[CallAt(delivery[u])] => t = u

(* What the store remembers of a key bounds what was booked under it.      *)
StoreFits ==
  \A k \in Keys :
    /\ store[k] = "absent" => booked[k] <= restarts
    /\ store[k] = "completed" => booked[k] >= 1

IInv == /\ TypeOK
        /\ DeliveriesFit
        /\ OneHolder
        /\ StoreFits
        /\ NoOrphanedKey
        /\ BookedOncePerLife
        /\ SuccessIsReal

-----------------------------------------------------------------------------
(* Deliveries.                                                             *)

LEMMA CallAtTyped ==
  ASSUME NEW d, HasCall(d)
  PROVE  CallAt(d) \in Calls
BY BatchesAssumption DEF HasCall, CallAt

LEMMA IdleFits ==
  /\ Idle \in Deliveries
  /\ Idle.pc = "idle"
  /\ Fits(Idle)
<1>1. Idle \in Deliveries
  BY DEF Idle, Deliveries, Pcs, Rows, Answers, Outcomes, Nothing, Unanswered
<1>2. /\ Idle.pc = "idle"
      /\ \A c \in Calls : Idle.written[c] = "absent" /\ Idle.answer[c] = "none"
  BY DEF Idle, Nothing, Unanswered
<1>q. QED
  BY <1>1, <1>2 DEF Fits, Placed, CallPcs, Held, CreateFits, IsCreating

LEMMA AnsweredFacts ==
  ASSUME NEW d \in Deliveries, HasCall(d), NEW c \in Calls, NEW a \in Answers
  PROVE  /\ Answered(d, c, a) \in Deliveries
         /\ Answered(d, c, a).pc \in {"lookup", "commit"}
         /\ Answered(d, c, a).written = d.written
         /\ Answered(d, c, a).answer = [d.answer EXCEPT ![c] = a]
         /\ Placed(Answered(d, c, a))
<1> DEFINE e == Answered(d, c, a)
           more == d.n < Len(CallsOf[d.message])
<1>1. /\ d.n \in Nat \ {0}
      /\ Len(CallsOf[d.message]) \in Nat
  BY BatchesAssumption DEF HasCall, Deliveries
<1>2. /\ e.pc = IF more THEN "lookup" ELSE "commit"
      /\ e.n = IF more THEN d.n + 1 ELSE d.n
      /\ e.written = d.written
      /\ e.answer = [d.answer EXCEPT ![c] = a]
      /\ e.message = d.message
  BY DEF Answered, Deliveries
<1>3. e \in Deliveries
  <2>1. [d.answer EXCEPT ![c] = a] \in [Calls -> Answers]
    BY DEF Deliveries
  <2>2. (IF more THEN d.n + 1 ELSE d.n) \in Nat \ {0}
    BY <1>1
  <2>q. QED
    BY <2>1, <2>2 DEF Answered, Deliveries, Pcs
<1>4. Placed(e)
  <2>1. e.pc # "call"
    BY <1>2
  <2>2. ASSUME e.pc \in CallPcs PROVE HasCall(e)
    BY <1>1, <1>2, <2>2 DEF CallPcs, HasCall
  <2>q. QED
    BY <2>1, <2>2 DEF Placed
<1>q. QED
  BY <1>2, <1>3, <1>4

SavedRows == {"denied", "error", "success"}

LEMMA SavedFacts ==
  ASSUME NEW d \in Deliveries, HasCall(d), NEW c \in Calls,
         NEW row \in SavedRows
  PROVE  /\ Saved(d, c, row) \in Deliveries
         /\ Saved(d, c, row).pc \in {"lookup", "commit"}
         /\ Saved(d, c, row).written = [d.written EXCEPT ![c] = row]
         /\ Saved(d, c, row).answer = [d.answer EXCEPT ![c] = AnswerFor(row)]
         /\ Placed(Saved(d, c, row))
<1> DEFINE w == [d EXCEPT !.written[c] = row]
<1>1. [d.written EXCEPT ![c] = row] \in [Calls -> Rows]
  BY DEF Deliveries, Rows, Outcomes, SavedRows
<1>2. /\ w \in Deliveries
      /\ w.written = [d.written EXCEPT ![c] = row]
      /\ w.answer = d.answer
      /\ w.message = d.message
      /\ w.n = d.n
  BY <1>1 DEF Deliveries
<1>3. HasCall(w)
  BY <1>2 DEF HasCall
<1>4. AnswerFor(row) \in Answers
  BY DEF AnswerFor, Answers, Outcomes
<1> HIDE DEF w
<1>5. Saved(d, c, row) = Answered(w, c, AnswerFor(row))
  BY DEF Saved, w
<1>q. QED
  BY <1>2, <1>3, <1>4, <1>5, AnsweredFacts

(* A delivery that moves to the next call has done what it says.           *)
LEMMA SavedFits ==
  ASSUME TypeOK, NEW d \in Deliveries, HasCall(d), Held(d), NEW c \in Calls,
         NEW row \in SavedRows, row = "success" => Done(c)
  PROVE  Fits(Saved(d, c, row)) /\ ~IsCreating(Saved(d, c, row))
<1>1. /\ Saved(d, c, row).pc \in {"lookup", "commit"}
      /\ Saved(d, c, row).written = [d.written EXCEPT ![c] = row]
      /\ Saved(d, c, row).answer = [d.answer EXCEPT ![c] = AnswerFor(row)]
      /\ Placed(Saved(d, c, row))
  <2>1. d \in Deliveries /\ HasCall(d) /\ c \in Calls /\ row \in SavedRows
    OBVIOUS
  <2>q. QED
    BY <2>1, SavedFacts
<1> DEFINE e == Saved(d, c, row)
<1> HIDE DEF e
<1>2. \A x \in Calls : e.written[x] = "success" \/ e.answer[x] = "success" => Done(x)
  BY <1>1 DEF e, Held, Deliveries, AnswerFor
<1>q. QED
  BY <1>1, <1>2 DEF e, Fits, Held, CreateFits, IsCreating

-----------------------------------------------------------------------------
(* Steps that leave bookings, passengers, keys and the restarts alone.     *)

LEMMA QuietStep ==
  ASSUME IInv, TypeOK', NEW t \in Threads,
         \A u \in Threads \ {t} : delivery'[u] = delivery[u],
         Fits(delivery[t])', ~IsCreating(delivery[t]), ~IsCreating(delivery[t])',
         UNCHANGED <<effects, restarts>>, SuccessIsReal'
  PROVE  IInv'
<1>1. UNCHANGED <<booked, added, store, restarts>>
  BY DEF effects
<1>2. DeliveriesFit'
  <2>1. ASSUME NEW u \in Threads, u # t PROVE Fits(delivery[u])'
    <3>1. Fits(delivery[u]) /\ delivery'[u] = delivery[u]
      BY <2>1 DEF IInv, DeliveriesFit
    <3>q. QED
      BY <1>1, <3>1 DEF Fits, Placed, HasCall, Held, Done, CreateFits, IsCreating, CallAt
  <2>q. QED
    BY <2>1 DEF DeliveriesFit
<1>3. \A u \in Threads : IsCreating(delivery[u])' => u # t /\ delivery'[u] = delivery[u]
  OBVIOUS
<1>4. OneHolder'
  BY <1>3 DEF IInv, OneHolder, IsCreating, CallAt
<1>5. StoreFits' /\ BookedOncePerLife'
  BY <1>1 DEF IInv, StoreFits, BookedOncePerLife
<1>6. NoOrphanedKey'
  <2>1. \A u \in Threads : IsCreating(delivery[u]) => u # t
    OBVIOUS
  <2>q. QED
    BY <1>1, <2>1 DEF IInv, NoOrphanedKey, Creating, IsCreating, KeyAt, Current
<1>q. QED
  BY <1>2, <1>4, <1>5, <1>6 DEF IInv

(* _save_log, wherever it is called.                                       *)
LEMMA SaveStep ==
  ASSUME IInv, NEW t \in Threads, HasCall(delivery[t]), NEW row \in SavedRows,
         row = "success" => Done(Current(t)), Save(t, row),
         ~IsCreating(delivery[t]),
         UNCHANGED <<call, tables, effects, vapi, counters>>
  PROVE  IInv'
<1> DEFINE c == Current(t)
           e == Saved(delivery[t], c, row)
<1>1. /\ TypeOK
      /\ delivery[t] \in Deliveries
      /\ Held(delivery[t])
      /\ c \in Calls
  BY CallAtTyped DEF IInv, TypeOK, DeliveriesFit, Fits, Current, CallAt
<1>2. delivery' = [delivery EXCEPT ![t] = e]
  BY DEF Save
<1>3. /\ e \in Deliveries
      /\ Fits(e)
      /\ ~IsCreating(e)
  BY <1>1, SavedFacts, SavedFits
<1> HIDE DEF c, e
<1>4. /\ delivery'[t] = e
      /\ \A u \in Threads \ {t} : delivery'[u] = delivery[u]
  BY <1>1, <1>2 DEF TypeOK
<1>5. TypeOK'
  BY <1>1, <1>2, <1>3 DEF TypeOK, tables, effects, vapi, counters
<1>6. Fits(delivery[t])'
  BY <1>3, <1>4 DEF Fits, Placed, HasCall, Held, Done, CreateFits, IsCreating, CallAt, effects, counters
<1>7. ~IsCreating(delivery[t])'
  BY <1>3, <1>4 DEF IsCreating
<1>8. SuccessIsReal'
  BY DEF IInv, SuccessIsReal, Done, tables, effects, vapi
<1>q. QED
  BY <1>4, <1>5, <1>6, <1>7, <1>8, QuietStep DEF effects, counters

(* The end of a request.                                                   *)
LEMMA CloseStep ==
  ASSUME IInv, TypeOK', NEW t \in Threads, Close(t), ~IsCreating(delivery[t]),
         UNCHANGED <<effects, restarts>>, SuccessIsReal'
  PROVE  IInv'
<1>1. /\ delivery'[t] = Idle
      /\ \A u \in Threads \ {t} : delivery'[u] = delivery[u]
  BY DEF IInv, TypeOK, Close
<1>2. Fits(Idle) /\ ~IsCreating(Idle)
  BY IdleFits DEF IsCreating
<1>3. Fits(delivery[t])'
  BY <1>1, <1>2 DEF Fits, Placed, HasCall, Held, Done, CreateFits, IsCreating, CallAt, effects
<1>4. ~IsCreating(delivery[t])'
  BY <1>1, <1>2 DEF IsCreating
<1>q. QED
  BY <1>1, <1>3, <1>4, QuietStep

(* What a commit makes visible was done.                                   *)
LEMMA CommitFacts ==
  ASSUME IInv, NEW w \in [Calls -> Rows], NEW x \in SUBSET Calls,
         \A c \in Calls : w[c] = "success" => Done(c), Commit(w, x)
  PROVE  /\ log' \in [Calls -> Rows]
         /\ verified' \subseteq Calls
         /\ \A c \in Calls : log'[c] = "success" => Done(c)
BY DEF Commit, Overwrite, IInv, TypeOK, SuccessIsReal

(* A step that only moves a delivery on: it writes no row and answers none.*)
LEMMA MoveStep ==
  ASSUME IInv, TypeOK', NEW t \in Threads, NEW d \in Deliveries,
         delivery' = [delivery EXCEPT ![t] = d],
         Fits(d), ~IsCreating(d), ~IsCreating(delivery[t]),
         UNCHANGED <<log, told, effects, restarts>>
  PROVE  IInv'
<1>1. /\ delivery'[t] = d
      /\ \A u \in Threads \ {t} : delivery'[u] = delivery[u]
  BY DEF IInv, TypeOK
<1>2. Fits(delivery[t])'
  BY <1>1 DEF Fits, Placed, HasCall, Held, Done, CreateFits, IsCreating, CallAt, effects
<1>3. ~IsCreating(delivery[t])'
  BY <1>1 DEF IsCreating
<1>4. SuccessIsReal'
  BY DEF IInv, SuccessIsReal, Done, effects
<1>q. QED
  BY <1>1, <1>2, <1>3, <1>4, QuietStep

LEMMA DeliverStep ==
  ASSUME IInv, NEW t \in Threads, NEW m \in Messages, Deliver(t, m)
  PROVE  IInv'
<1> DEFINE d == [Idle EXCEPT !.message = m, !.pc = IF call = "absent" THEN "call" ELSE FirstPc(m)]
<1>1. /\ d \in Deliveries
      /\ d.pc \in {"call", "end", "lookup"}
      /\ d.pc = "lookup" => m # Report
      /\ d.message = m
      /\ d.n = 1
      /\ \A c \in Calls : d.written[c] = "absent" /\ d.answer[c] = "none"
  BY IdleFits DEF Idle, Nothing, Unanswered, Deliveries, FirstPc, Pcs
<1>2. m # Report => HasCall(d)
  BY <1>1, BatchesAssumption DEF HasCall, Batches
<1>3. delivery' = [delivery EXCEPT ![t] = d]
  BY DEF Deliver
<1> HIDE DEF d
<1>4. Fits(d) /\ ~IsCreating(d)
  BY <1>1, <1>2 DEF Fits, Placed, CallPcs, Held, CreateFits, IsCreating
<1>5. TypeOK'
  BY <1>1, <1>3, BoundsAssumption DEF Deliver, IInv, TypeOK, tables, effects, counters
<1>q. QED
  BY <1>1, <1>3, <1>4, <1>5, MoveStep DEF Deliver, At, IsCreating, tables, effects, counters

LEMMA MovedFits ==
  ASSUME IInv, NEW t \in Threads, NEW pc \in Pcs,
         pc \in CallPcs => HasCall(delivery[t]),
         pc = "call" /\ delivery[t].message # Report => HasCall(delivery[t]),
         pc = "save" => Done(Current(t)),
         pc = "add_commit" => Kind[Current(t)] = "add",
         pc \notin {"reserve", "book", "complete"}
  PROVE  /\ [delivery[t] EXCEPT !.pc = pc] \in Deliveries
         /\ Fits([delivery[t] EXCEPT !.pc = pc])
         /\ ~IsCreating([delivery[t] EXCEPT !.pc = pc])
<1> DEFINE d == delivery[t]
           e == [d EXCEPT !.pc = pc]
<1>1. d \in Deliveries /\ Held(d)
  BY DEF IInv, TypeOK, DeliveriesFit, Fits
<1>2. /\ e \in Deliveries
      /\ e.pc = pc
      /\ e.message = d.message
      /\ e.n = d.n
      /\ e.written = d.written
      /\ e.answer = d.answer
  BY <1>1 DEF Deliveries
<1>3. Placed(e)
  BY <1>2 DEF Placed, HasCall
<1>4. Held(e)
  BY <1>1, <1>2 DEF Held, CallAt, Current
<1>5. ~IsCreating(e)
  BY <1>2 DEF IsCreating
<1>q. QED
  BY <1>2, <1>3, <1>4, <1>5 DEF Fits, CreateFits

(* An action whose only change is the program counter, and the Call row.   *)
LEMMA ContinueStep ==
  ASSUME IInv, NEW t \in Threads, NEW pc \in Pcs, Continue(t, pc),
         pc \in CallPcs => HasCall(delivery[t]),
         pc = "call" /\ delivery[t].message # Report => HasCall(delivery[t]),
         pc = "save" => Done(Current(t)),
         pc = "add_commit" => Kind[Current(t)] = "add",
         pc \notin {"reserve", "book", "complete"},
         ~IsCreating(delivery[t]),
         call' \in {"absent", "in_progress", "ended"},
         UNCHANGED <<tables, effects, vapi, counters>>
  PROVE  IInv'
<1> DEFINE e == [delivery[t] EXCEPT !.pc = pc]
<1>1. /\ e \in Deliveries
      /\ Fits(e)
      /\ ~IsCreating(e)
  BY MovedFits
<1>2. delivery' = [delivery EXCEPT ![t] = e]
  BY DEF Continue, IInv, TypeOK
<1> HIDE DEF e
<1>3. TypeOK'
  BY <1>1, <1>2 DEF IInv, TypeOK, tables, effects, vapi, counters
<1>q. QED
  BY <1>1, <1>2, <1>3, MoveStep DEF tables, effects, vapi, counters

LEMMA CallRowSteps ==
  ASSUME IInv, NEW t \in Threads,
         InsertCall(t) \/ InsertCallConflicts(t) \/ EndCall(t)
  PROVE  IInv'
<1>1. CASE InsertCall(t)
  <2>1. /\ FirstPc(delivery[t].message) \in {"end", "lookup"}
        /\ FirstPc(delivery[t].message) = "lookup" => HasCall(delivery[t])
    BY <1>1 DEF FirstPc, InsertCall, At, IInv, DeliveriesFit, Fits, Placed
  <2>2. FirstPc(delivery[t].message) \in Pcs
    BY <2>1 DEF Pcs
  <2>q. QED
    BY <1>1, <2>1, <2>2, ContinueStep DEF InsertCall, At, IsCreating, CallPcs
<1>2. CASE InsertCallConflicts(t)
  <2>1. TypeOK' /\ SuccessIsReal'
    BY <1>2, IdleFits DEF InsertCallConflicts, Close, IInv, TypeOK, SuccessIsReal, Done,
                          tables, effects, vapi, counters
  <2>q. QED
    BY <1>2, <2>1, CloseStep DEF InsertCallConflicts, At, IsCreating, counters
<1>3. CASE EndCall(t)
  BY <1>3, ContinueStep DEF EndCall, At, IsCreating, CallPcs, Pcs
<1>q. QED
  BY <1>1, <1>2, <1>3

LEMMA LookupStep ==
  ASSUME IInv, NEW t \in Threads, Lookup(t)
  PROVE  IInv'
<1> DEFINE d == delivery[t]
           c == Current(t)
<1>1. /\ d \in Deliveries
      /\ d.pc = "lookup"
      /\ HasCall(d)
      /\ Held(d)
  BY DEF IInv, TypeOK, DeliveriesFit, Fits, Placed, CallPcs, Lookup, At
<1>2. c \in Calls
  BY <1>1, CallAtTyped DEF CallAt, Current
<1>3. log[c] \in Rows
  BY <1>2 DEF IInv, TypeOK
<1>4. CASE IsDone(log[c])
  <2> DEFINE e == Answered(d, c, AnswerFor(log[c]))
  <2>1. AnswerFor(log[c]) \in Answers
    BY DEF AnswerFor, Answers, Outcomes
  <2>2. /\ e \in Deliveries
        /\ e.pc \in {"lookup", "commit"}
        /\ e.written = d.written
        /\ e.answer = [d.answer EXCEPT ![c] = AnswerFor(log[c])]
        /\ Placed(e)
    BY <1>1, <1>2, <2>1, AnsweredFacts
  <2>3. AnswerFor(log[c]) = "success" => Done(c)
    BY <1>2 DEF AnswerFor, IInv, SuccessIsReal
  <2>4. delivery' = [delivery EXCEPT ![t] = e]
    BY <1>4 DEF Lookup
  <2> HIDE DEF e
  <2>5. \A x \in Calls : e.written[x] = "success" \/ e.answer[x] = "success" => Done(x)
    BY <1>1, <2>2, <2>3 DEF Held, Deliveries
  <2>6. Fits(e) /\ ~IsCreating(e)
    BY <2>2, <2>5 DEF Fits, Held, CreateFits, IsCreating
  <2>7. TypeOK'
    BY <2>2, <2>4 DEF Lookup, IInv, TypeOK, tables, effects, vapi, counters
  <2>q. QED
    BY <1>1, <2>2, <2>4, <2>6, <2>7, MoveStep
       DEF Lookup, IsCreating, tables, effects, vapi, counters
<1>5. CASE ~IsDone(log[c])
  <2> DEFINE e == [d EXCEPT !.found = log[c], !.pc = IF log[c] = "absent" THEN "claim" ELSE "run"]
  <2>1. /\ e \in Deliveries
        /\ e.pc \in {"claim", "run"}
        /\ e.message = d.message
        /\ e.n = d.n
        /\ e.written = d.written
        /\ e.answer = d.answer
    BY <1>1, <1>3 DEF Deliveries, Pcs
  <2>2. delivery' = [delivery EXCEPT ![t] = e]
    BY <1>5 DEF Lookup
  <2> HIDE DEF e
  <2>3. HasCall(e)
    BY <1>1, <2>1 DEF HasCall
  <2>4. Fits(e) /\ ~IsCreating(e)
    BY <1>1, <2>1, <2>3 DEF Fits, Placed, Held, CreateFits, IsCreating
  <2>5. TypeOK'
    BY <2>1, <2>2 DEF Lookup, IInv, TypeOK, tables, effects, vapi, counters
  <2>q. QED
    BY <1>1, <2>1, <2>2, <2>4, <2>5, MoveStep
       DEF Lookup, IsCreating, tables, effects, vapi, counters
<1>q. QED
  BY <1>4, <1>5

LEMMA ClaimStep ==
  ASSUME IInv, NEW t \in Threads, Claim(t)
  PROVE  IInv'
<1> DEFINE d == delivery[t]
           c == Current(t)
           e == [d EXCEPT !.written[c] = "claimed", !.pc = "run"]
<1>1. /\ d \in Deliveries
      /\ d.pc = "claim"
      /\ HasCall(d)
      /\ Held(d)
  BY DEF IInv, TypeOK, DeliveriesFit, Fits, Placed, CallPcs, Claim, At
<1>2. c \in Calls
  BY <1>1, CallAtTyped DEF CallAt, Current
<1>3. [d.written EXCEPT ![c] = "claimed"] \in [Calls -> Rows]
  BY <1>1 DEF Deliveries, Rows
<1>4. /\ e \in Deliveries
      /\ e.pc = "run"
      /\ e.message = d.message
      /\ e.n = d.n
      /\ e.written = [d.written EXCEPT ![c] = "claimed"]
      /\ e.answer = d.answer
  BY <1>1, <1>3 DEF Deliveries, Pcs
<1>5. delivery' = [delivery EXCEPT ![t] = e]
  BY DEF Claim
<1> HIDE DEF e
<1>6. HasCall(e)
  BY <1>1, <1>4 DEF HasCall
<1>7. \A x \in Calls : e.written[x] = "success" \/ e.answer[x] = "success" => Done(x)
  BY <1>1, <1>4 DEF Held, Deliveries
<1>8. Fits(e) /\ ~IsCreating(e)
  BY <1>4, <1>6, <1>7 DEF Fits, Placed, Held, CreateFits, IsCreating
<1>9. TypeOK'
  BY <1>4, <1>5 DEF Claim, IInv, TypeOK, tables, effects, vapi, counters
<1>q. QED
  BY <1>1, <1>4, <1>5, <1>8, <1>9, MoveStep
     DEF Claim, IsCreating, tables, effects, vapi, counters

LEMMA VerifyStep ==
  ASSUME IInv, NEW t \in Threads, Verify(t)
  PROVE  IInv'
<1> DEFINE d == delivery[t]
           c == Current(t)
           f == [d EXCEPT !.sessions = d.sessions \cup {c}]
           e == Saved(f, c, "success")
<1>1. /\ d \in Deliveries
      /\ d.pc = "run"
      /\ HasCall(d)
      /\ Held(d)
  BY DEF IInv, TypeOK, DeliveriesFit, Fits, Placed, CallPcs, Verify, At
<1>2. c \in Calls
  BY <1>1, CallAtTyped DEF CallAt, Current
<1>3. /\ f \in Deliveries
      /\ f.pc = "run"
      /\ f.message = d.message
      /\ f.n = d.n
      /\ f.written = d.written
      /\ f.answer = d.answer
  BY <1>1, <1>2 DEF Deliveries
<1> HIDE DEF f
<1>4. HasCall(f) /\ Held(f)
  BY <1>1, <1>3 DEF HasCall, Held
<1>5. "success" \in SavedRows /\ Done(c)
  BY DEF SavedRows, Done, Verify
<1>6. delivery' = [delivery EXCEPT ![t] = e]
  BY DEF Verify, f
<1>7. TypeOK
  BY DEF IInv
<1> HIDE DEF c
<1>8. /\ e \in Deliveries
      /\ Fits(e)
      /\ ~IsCreating(e)
  BY <1>2, <1>3, <1>4, <1>5, <1>7, SavedFacts, SavedFits
<1> HIDE DEF e
<1>9. TypeOK'
  BY <1>6, <1>8 DEF Verify, IInv, TypeOK, tables, effects, vapi, counters
<1>q. QED
  BY <1>1, <1>6, <1>8, <1>9, MoveStep
     DEF Verify, IsCreating, tables, effects, vapi, counters

(* Calls whose outcome is decided without create_booking.                  *)
LEMMA AnswerSteps ==
  ASSUME IInv, NEW t \in Threads,
         Deny(t) \/ Refuse(t) \/ Read(t) \/ CreateKnown(t) \/ Resave(t) \/ SaveSuccess(t)
  PROVE  IInv'
<1>1. /\ delivery[t].pc \in {"run", "resave", "save"}
      /\ HasCall(delivery[t])
      /\ ~IsCreating(delivery[t])
      /\ UNCHANGED <<call, tables, effects, vapi, counters>>
  BY DEF Deny, Refuse, Read, CreateKnown, Resave, SaveSuccess, At,
         IInv, DeliveriesFit, Fits, Placed, CallPcs, IsCreating
<1>2. Current(t) \in Calls
  BY <1>1, CallAtTyped DEF CallAt, Current
<1>3. "denied" \in SavedRows /\ "error" \in SavedRows /\ "success" \in SavedRows
  BY DEF SavedRows
<1>4. CASE Deny(t)
  BY <1>1, <1>3, <1>4, SaveStep DEF Deny
<1>5. CASE Refuse(t)
  BY <1>1, <1>3, <1>5, SaveStep DEF Refuse
<1>6. CASE Read(t)
  <2>1. Done(Current(t)) /\ Save(t, "success")
    BY <1>6 DEF Read, Done
  <2>q. QED
    BY <1>1, <1>3, <2>1, SaveStep
<1>7. CASE CreateKnown(t)
  <2>1. RowOfKnownKey(KeyAt(t)) \in SavedRows
    BY <1>3 DEF RowOfKnownKey
  <2>2. RowOfKnownKey(KeyAt(t)) = "success" => Done(Current(t))
    <3>1. KeyAt(t) \in Keys /\ Kind[Current(t)] = "create"
      BY <1>2, <1>7, BatchesAssumption DEF KeyAt, CreateKnown
    <3>q. QED
      BY <3>1 DEF RowOfKnownKey, IInv, StoreFits, Done, KeyAt
  <2>q. QED
    BY <1>1, <1>7, <2>1, <2>2, SaveStep DEF CreateKnown
<1>8. CASE Resave(t)
  BY <1>1, <1>3, <1>8, SaveStep DEF Resave
<1>9. CASE SaveSuccess(t)
  <2>1. Done(Current(t))
    BY <1>9 DEF SaveSuccess, At, IInv, DeliveriesFit, Fits, Held, CallAt, Current
  <2>q. QED
    BY <1>1, <1>3, <1>9, <2>1, SaveStep DEF SaveSuccess
<1>q. QED
  BY <1>4, <1>5, <1>6, <1>7, <1>8, <1>9

(* Requests that end without another effect.                               *)
LEMMA EndSteps ==
  ASSUME IInv, NEW t \in Threads,
         \/ ClaimConflicts(t) \/ ResaveConflicts(t) \/ CommitAddFails(t)
         \/ FinalCommitFails(t) \/ Respond(t) \/ ResponseLost(t)
  PROVE  IInv'
<1>1. /\ Close(t)
      /\ ~IsCreating(delivery[t])
      /\ UNCHANGED <<call, tables, effects, sent, restarts>>
      /\ faults' \in 0..MaxFaults
  BY BoundsAssumption
     DEF ClaimConflicts, ResaveConflicts, CommitAddFails, FinalCommitFails, Respond,
         ResponseLost, At, IsCreating, IInv, TypeOK, Fault, vapi, counters
<1>2. /\ told' \in [Calls -> Answers]
      /\ \A c \in Calls : told'[c] = "success" => Done(c)
  <2>1. CASE Respond(t)
    BY <2>1 DEF Respond, IInv, TypeOK, Deliveries, DeliveriesFit, Fits, Held, SuccessIsReal
  <2>2. CASE ~Respond(t)
    BY <2>2 DEF ClaimConflicts, ResaveConflicts, CommitAddFails, FinalCommitFails,
                ResponseLost, vapi, IInv, TypeOK, SuccessIsReal
  <2>q. QED
    BY <2>1, <2>2
<1>3. TypeOK'
  BY <1>1, <1>2, IdleFits DEF Close, IInv, TypeOK, tables, effects
<1>4. SuccessIsReal'
  BY <1>1, <1>2 DEF IInv, SuccessIsReal, Done, tables, effects
<1>q. QED
  BY <1>1, <1>3, <1>4, CloseStep

LEMMA FinalCommitStep ==
  ASSUME IInv, NEW t \in Threads, FinalCommit(t)
  PROVE  IInv'
<1> DEFINE d == delivery[t]
           e == [Emptied(d) EXCEPT !.pc = "respond"]
<1>1. /\ d \in Deliveries
      /\ d.pc = "commit"
      /\ Held(d)
  BY DEF IInv, TypeOK, DeliveriesFit, Fits, FinalCommit, At
<1>2. /\ e \in Deliveries
      /\ e.pc = "respond"
      /\ e.answer = d.answer
      /\ \A c \in Calls : e.written[c] = "absent"
  BY <1>1 DEF Emptied, Nothing, Deliveries, Pcs, Rows
<1>3. delivery' = [delivery EXCEPT ![t] = e]
  BY DEF FinalCommit
<1> HIDE DEF e
<1>4. /\ delivery'[t] = e
      /\ \A u \in Threads \ {t} : delivery'[u] = delivery[u]
  BY <1>3 DEF IInv, TypeOK
<1>5. Fits(e) /\ ~IsCreating(e)
  BY <1>1, <1>2 DEF Fits, Placed, CallPcs, Held, CreateFits, IsCreating
<1>6. Fits(delivery[t])' /\ ~IsCreating(delivery[t])'
  BY <1>4, <1>5 DEF Fits, Placed, HasCall, Held, Done, CreateFits, IsCreating, CallAt,
                    FinalCommit, effects, counters
<1>7. /\ log' \in [Calls -> Rows]
      /\ verified' \subseteq Calls
      /\ \A c \in Calls : log'[c] = "success" => Done(c)
  <2>1. d.written \in [Calls -> Rows] /\ d.sessions \in SUBSET Calls
    BY <1>1 DEF Deliveries
  <2>2. Commit(d.written, d.sessions)
    BY DEF FinalCommit
  <2>q. QED
    BY <1>1, <2>1, <2>2, CommitFacts DEF Held
<1>8. TypeOK'
  BY <1>2, <1>3, <1>7 DEF FinalCommit, IInv, TypeOK, effects, vapi, counters
<1>9. SuccessIsReal'
  BY <1>7 DEF FinalCommit, IInv, SuccessIsReal, Done, effects, vapi
<1>10. ~IsCreating(delivery[t]) /\ UNCHANGED <<effects, restarts>>
  BY <1>1 DEF FinalCommit, IsCreating, counters
<1>q. QED
  BY <1>4, <1>6, <1>8, <1>9, <1>10, QuietStep

(* The airline is asked to add the passenger.                              *)
LEMMA AddStep ==
  ASSUME IInv, NEW t \in Threads, Add(t)
  PROVE  IInv'
<1>1. HasCall(delivery[t]) /\ ~IsCreating(delivery[t])
  BY DEF Add, At, IInv, DeliveriesFit, Fits, Placed, CallPcs, IsCreating
<1>2. "add_commit" \in Pcs
  BY DEF Pcs
<1>3. call' \in {"absent", "in_progress", "ended"}
  BY DEF Add, IInv, TypeOK
<1>q. QED
  BY <1>1, <1>2, <1>3, ContinueStep DEF Add

-----------------------------------------------------------------------------
(* Steps with an effect.                                                   *)

(* What a service's commit makes of the delivery and of the tables.        *)
LEMMA ServiceCommitFacts ==
  ASSUME IInv, NEW t \in Threads, NEW pc \in Pcs, HasCall(delivery[t]), ServiceCommit(t, pc)
  PROVE  /\ log' \in [Calls -> Rows]
         /\ verified' \subseteq Calls
         /\ \A c \in Calls : log'[c] = "success" => Done(c)
         /\ delivery' \in [Threads -> Deliveries]
         /\ \A u \in Threads \ {t} : delivery'[u] = delivery[u]
         /\ delivery'[t].pc = pc
         /\ delivery'[t].message = delivery[t].message
         /\ delivery'[t].n = delivery[t].n
         /\ delivery'[t].answer = delivery[t].answer
         /\ \A c \in Calls : delivery'[t].written[c] = "absent"
<1> DEFINE d == delivery[t]
           e == [Emptied(d) EXCEPT !.pc = pc]
           w == IF d.found = "denied" THEN [d.written EXCEPT ![Current(t)] = "claimed"]
                                      ELSE d.written
<1>1. /\ d \in Deliveries
      /\ Held(d)
      /\ Current(t) \in Calls
  BY CallAtTyped DEF IInv, TypeOK, DeliveriesFit, Fits, Current, CallAt
<1>2. /\ e \in Deliveries
      /\ e.pc = pc
      /\ e.message = d.message
      /\ e.n = d.n
      /\ e.answer = d.answer
      /\ \A c \in Calls : e.written[c] = "absent"
  BY <1>1 DEF Emptied, Nothing, Deliveries, Rows
<1>3. delivery' = [delivery EXCEPT ![t] = e]
  BY DEF ServiceCommit
<1>4. Commit(w, d.sessions)
  BY DEF ServiceCommit
<1>5. /\ w \in [Calls -> Rows]
      /\ \A c \in Calls : w[c] = "success" => Done(c)
  BY <1>1 DEF Held, Deliveries, Rows
<1>6. d.sessions \in SUBSET Calls
  BY <1>1 DEF Deliveries
<1> HIDE DEF w, e
<1>7. /\ log' \in [Calls -> Rows]
      /\ verified' \subseteq Calls
      /\ \A c \in Calls : log'[c] = "success" => Done(c)
  BY <1>4, <1>5, <1>6, CommitFacts
<1>8. /\ delivery' \in [Threads -> Deliveries]
      /\ delivery'[t] = e
      /\ \A u \in Threads \ {t} : delivery'[u] = delivery[u]
  BY <1>2, <1>3 DEF IInv, TypeOK
<1>q. QED
  BY <1>2, <1>7, <1>8

(* A passenger more: bookings, keys and restarts stay.                     *)
LEMMA CommitAddStep ==
  ASSUME IInv, NEW t \in Threads, CommitAdd(t)
  PROVE  IInv'
<1> DEFINE d == delivery[t]
<1>1. /\ d \in Deliveries
      /\ d.pc = "add_commit"
      /\ HasCall(d)
      /\ Held(d)
      /\ ServiceCommit(t, "save")
      /\ "save" \in Pcs
  BY DEF CommitAdd, At, IInv, TypeOK, DeliveriesFit, Fits, Placed, CallPcs, Pcs
<1>2. PICK c \in Calls : c = Current(t) /\ Kind[c] = "add"
  BY <1>1, CallAtTyped DEF Held, CallAt, Current
<1>3. /\ log' \in [Calls -> Rows]
      /\ verified' \subseteq Calls
      /\ \A x \in Calls : log'[x] = "success" => Done(x)
      /\ delivery' \in [Threads -> Deliveries]
      /\ \A u \in Threads \ {t} : delivery'[u] = delivery[u]
      /\ delivery'[t].pc = "save"
      /\ delivery'[t].message = d.message
      /\ delivery'[t].n = d.n
      /\ delivery'[t].answer = d.answer
      /\ \A x \in Calls : delivery'[t].written[x] = "absent"
  BY <1>1, ServiceCommitFacts
<1>4. /\ added' = [added EXCEPT ![c] = @ + 1]
      /\ UNCHANGED <<call, booked, reserved, store, sent, told, faults, restarts>>
  BY <1>2 DEF CommitAdd, vapi, counters
<1>5. TypeOK'
  BY <1>3, <1>4 DEF IInv, TypeOK
<1>6. \A x \in Calls : added'[x] \in Nat /\ added'[x] >= added[x] /\ added[x] \in Nat
  BY <1>2, <1>4 DEF IInv, TypeOK
<1>7. added'[c] >= 1
  BY <1>2, <1>4 DEF IInv, TypeOK
<1>8. \A x \in Calls : Done(x) => Done(x)'
  BY <1>4, <1>6 DEF Done
<1>9. SuccessIsReal'
  BY <1>3, <1>4, <1>8 DEF IInv, SuccessIsReal
<1>10. DeliveriesFit'
  <2>1. ASSUME NEW u \in Threads, u # t PROVE Fits(delivery[u])'
    <3>1. Fits(delivery[u]) /\ delivery'[u] = delivery[u]
      BY <1>3, <2>1 DEF IInv, DeliveriesFit
    <3>2. delivery[u].pc \in {"save", "add_commit"} => CallAt(delivery[u]) \in Calls
      BY <3>1, CallAtTyped DEF Fits, Placed, CallPcs
    <3>3. Held(delivery[u])'
      BY <1>8, <3>1, <3>2 DEF Fits, Held, CallAt
    <3>4. Placed(delivery[u])' /\ CreateFits(delivery[u])'
      BY <1>4, <3>1 DEF Fits, Placed, HasCall, CreateFits, IsCreating, CallAt
    <3>q. QED
      BY <3>3, <3>4 DEF Fits
  <2>2. Fits(delivery[t])'
    <3>1. Done(c)'
      BY <1>2, <1>7 DEF Done
    <3>2. Held(delivery[t])'
      <4>1. \A x \in Calls : delivery'[t].answer[x] = "success" => Done(x)'
        BY <1>1, <1>3, <1>8 DEF Held
      <4>q. QED
        BY <1>2, <1>3, <3>1, <4>1 DEF Held, CallAt, Current
    <3>q. QED
      BY <1>1, <1>3, <3>2 DEF Fits, Placed, HasCall, CreateFits, IsCreating
  <2>q. QED
    BY <2>1, <2>2 DEF DeliveriesFit
<1>11. \A u \in Threads : IsCreating(delivery[u]) \/ IsCreating(delivery[u])' =>
         u # t /\ delivery'[u] = delivery[u]
  BY <1>1, <1>3 DEF IsCreating
<1>12. OneHolder'
  BY <1>11 DEF IInv, OneHolder, IsCreating, CallAt
<1>13. NoOrphanedKey'
  BY <1>4, <1>11 DEF IInv, NoOrphanedKey, Creating, IsCreating, KeyAt, Current
<1>q. QED
  BY <1>4, <1>5, <1>9, <1>10, <1>12, <1>13 DEF IInv, StoreFits, BookedOncePerLife

(* A step of the delivery that holds, takes or gives up a key.             *)
LEMMA KeyStep ==
  ASSUME IInv, TypeOK', NEW t \in Threads, NEW k \in Keys,
         \A u \in Threads \ {t} :
           /\ delivery'[u] = delivery[u]
           /\ IsCreating(delivery[u]) => KeyOf[CallAt(delivery[u])] # k,
         \A j \in Keys \ {k} : store'[j] = store[j] /\ booked'[j] = booked[j],
         booked'[k] >= booked[k],
         UNCHANGED <<added, restarts>>,
         Fits(delivery[t])',
         IsCreating(delivery[t]) => KeyOf[CallAt(delivery[t])] = k,
         IsCreating(delivery[t])' => KeyOf[CallAt(delivery[t])]' = k,
         store'[k] = "in_progress" => IsCreating(delivery[t])',
         store'[k] = "absent" => booked'[k] <= restarts,
         store'[k] = "completed" => booked'[k] >= 1,
         booked'[k] <= 1 + restarts,
         \A c \in Calls : log'[c] = "success" => Done(c),
         UNCHANGED told
  PROVE  IInv'
<1>1. \A c \in Calls : Done(c) => Done(c)'
  <2>1. \A j \in Keys : booked[j] >= 1 => booked'[j] >= 1
    BY DEF IInv, TypeOK
  <2>2. \A c \in Calls : KeyOf[c] \in Keys
    BY BatchesAssumption
  <2>q. QED
    BY <2>1, <2>2 DEF Done
<1>2. DeliveriesFit'
  <2>1. ASSUME NEW u \in Threads, u # t PROVE Fits(delivery[u])'
    <3>1. Fits(delivery[u]) /\ delivery'[u] = delivery[u]
      BY <2>1 DEF IInv, DeliveriesFit
    <3>2. delivery[u].pc \in CallPcs => CallAt(delivery[u]) \in Calls
      BY <3>1, CallAtTyped DEF Fits, Placed
    <3>3. Held(delivery[u])'
      BY <1>1, <3>1, <3>2 DEF Fits, Held, CallAt, CallPcs
    <3>4. CreateFits(delivery[u])'
      <4>1. SUFFICES ASSUME IsCreating(delivery[u]) PROVE CreateFits(delivery[u])'
        BY <3>1 DEF CreateFits, IsCreating
      <4>2. KeyOf[CallAt(delivery[u])] \in Keys \ {k}
        BY <2>1, <3>2, <4>1, BatchesAssumption DEF IsCreating, CallPcs
      <4>q. QED
        BY <3>1, <4>1, <4>2 DEF Fits, CreateFits, IsCreating, CallAt
    <3>5. Placed(delivery[u])'
      BY <3>1 DEF Fits, Placed, HasCall
    <3>q. QED
      BY <3>3, <3>4, <3>5 DEF Fits
  <2>q. QED
    BY <2>1 DEF DeliveriesFit
<1>3. OneHolder'
  <2>1. ASSUME NEW u \in Threads \ {t}, IsCreating(delivery[u])'
        PROVE  KeyOf[CallAt(delivery[u])]' # k
    BY <2>1 DEF IsCreating, CallAt
  <2>2. ASSUME NEW u \in Threads \ {t}, NEW v \in Threads \ {t},
               IsCreating(delivery[u])', IsCreating(delivery[v])',
               KeyOf[CallAt(delivery[u])]' = KeyOf[CallAt(delivery[v])]'
        PROVE  u = v
    BY <2>2 DEF IInv, OneHolder, IsCreating, CallAt
  <2>q. QED
    BY <2>1, <2>2 DEF OneHolder
<1>4. StoreFits'
  BY DEF IInv, StoreFits
<1>5. BookedOncePerLife'
  BY DEF IInv, BookedOncePerLife
<1>6. NoOrphanedKey'
  <2>1. ASSUME NEW j \in Keys, store'[j] = "in_progress"
        PROVE  \E u \in Threads : IsCreating(delivery[u])' /\ KeyOf[CallAt(delivery[u])]' = j
    <3>1. CASE j = k
      BY <2>1, <3>1
    <3>2. CASE j # k
      <4>1. PICK u \in Threads : IsCreating(delivery[u]) /\ KeyOf[CallAt(delivery[u])] = j
        BY <2>1, <3>2 DEF IInv, NoOrphanedKey, Creating, IsCreating, KeyAt, Current, CallAt
      <4>2. u # t
        BY <3>2, <4>1
      <4>q. QED
        BY <4>1, <4>2 DEF IsCreating, CallAt
    <3>q. QED
      BY <3>1, <3>2
  <2>q. QED
    BY <2>1 DEF NoOrphanedKey, Creating, IsCreating, KeyAt, Current, CallAt
<1>7. SuccessIsReal'
  BY <1>1 DEF IInv, SuccessIsReal
<1>q. QED
  BY <1>2, <1>3, <1>4, <1>5, <1>6, <1>7 DEF IInv

(* What a delivery holds as done stays done when more is booked.           *)
LEMMA HeldGrows ==
  ASSUME IInv, NEW d, Held(d), NEW k \in Keys, booked'[k] >= booked[k], booked' \in [Keys -> Nat],
         \A j \in Keys \ {k} : booked'[j] = booked[j], UNCHANGED added
  PROVE  \A c \in Calls : d.written[c] = "success" \/ d.answer[c] = "success" => Done(c)'
<1>1. \A j \in Keys : booked[j] >= 1 => booked'[j] >= 1
  BY DEF IInv, TypeOK
<1>2. \A c \in Calls : KeyOf[c] \in Keys
  BY BatchesAssumption
<1>q. QED
  BY <1>1, <1>2 DEF Held, Done

(* A delivery about to create, or creating: its call and its key.          *)
LEMMA CreatingFacts ==
  ASSUME IInv, NEW t \in Threads,
         \/ IsCreating(delivery[t])
         \/ At(t, "run") /\ Kind[Current(t)] = "create"
  PROVE  /\ delivery[t] \in Deliveries
         /\ HasCall(delivery[t])
         /\ Held(delivery[t])
         /\ Kind[Current(t)] = "create"
         /\ KeyAt(t) \in Keys
         /\ Current(t) = CallAt(delivery[t])
         /\ KeyAt(t) = KeyOf[CallAt(delivery[t])]
         /\ IsCreating(delivery[t]) =>
              /\ store[KeyAt(t)] = "in_progress"
              /\ \A u \in Threads \ {t} :
                   IsCreating(delivery[u]) => KeyOf[CallAt(delivery[u])] # KeyAt(t)
<1>1. /\ delivery[t] \in Deliveries
      /\ Fits(delivery[t])
  BY DEF IInv, TypeOK, DeliveriesFit
<1>2. HasCall(delivery[t])
  BY <1>1 DEF Fits, Placed, IsCreating, CallPcs, At
<1>3. /\ Current(t) = CallAt(delivery[t])
      /\ KeyAt(t) = KeyOf[CallAt(delivery[t])]
      /\ KeyAt(t) \in Keys
  BY <1>2, CallAtTyped, BatchesAssumption DEF Current, CallAt, KeyAt
<1>4. Kind[Current(t)] = "create"
  BY <1>1, <1>3 DEF Fits, CreateFits
<1>5. IsCreating(delivery[t]) => store[KeyAt(t)] = "in_progress"
  BY <1>1, <1>3 DEF Fits, CreateFits
<1>6. ASSUME IsCreating(delivery[t]), NEW u \in Threads \ {t}, IsCreating(delivery[u])
      PROVE  KeyOf[CallAt(delivery[u])] # KeyAt(t)
  BY <1>3, <1>6 DEF IInv, OneHolder
<1>q. QED
  BY <1>1, <1>2, <1>3, <1>4, <1>5, <1>6 DEF Fits

LEMMA CreateStep ==
  ASSUME IInv, NEW t \in Threads, Create(t)
  PROVE  IInv'
<1> DEFINE d == delivery[t]
           e == [d EXCEPT !.pc = "reserve"]
<1>1. /\ d \in Deliveries
      /\ d.pc = "run"
      /\ HasCall(d)
      /\ Held(d)
      /\ Kind[CallAt(d)] = "create"
      /\ KeyAt(t) = KeyOf[CallAt(d)]
      /\ KeyAt(t) \in Keys
  BY CreatingFacts DEF Create, At
<1>2. PICK k \in Keys : k = KeyAt(t)
  BY <1>1
<1>3. /\ store[k] = "absent"
      /\ store' = [store EXCEPT ![k] = "in_progress"]
      /\ delivery' = [delivery EXCEPT ![t] = e]
      /\ UNCHANGED <<call, log, verified, booked, added, reserved, sent, told, faults, restarts>>
  BY <1>2 DEF Create, MayBegin, Continue, IInv, TypeOK, tables, vapi, counters
<1>4. /\ e \in Deliveries
      /\ e.pc = "reserve"
      /\ e.message = d.message
      /\ e.n = d.n
      /\ e.written = d.written
      /\ e.answer = d.answer
  BY <1>1 DEF Deliveries, Pcs
<1> HIDE DEF e
<1>5. TypeOK'
  BY <1>3, <1>4 DEF IInv, TypeOK, StoreStates
<1>6. delivery'[t] = e /\ \A u \in Threads \ {t} : delivery'[u] = delivery[u]
  BY <1>3 DEF IInv, TypeOK
<1>7. booked[k] <= restarts /\ booked[k] \in Nat /\ restarts \in Nat
  BY <1>3 DEF IInv, StoreFits, TypeOK
<1>8. store'[k] = "in_progress" /\ \A j \in Keys \ {k} : store'[j] = store[j]
  BY <1>3 DEF IInv, TypeOK
<1>9. Fits(delivery[t])'
  <2>1. Placed(delivery[t])'
    BY <1>1, <1>4, <1>6 DEF Placed, HasCall
  <2>2. Held(delivery[t])'
    BY <1>1, <1>3, <1>4, <1>6 DEF Held, Done
  <2>3. CreateFits(delivery[t])'
    <3>1. CallAt(delivery[t])' = CallAt(d)
      BY <1>4, <1>6 DEF CallAt
    <3>2. KeyOf[CallAt(d)] = k /\ Kind[CallAt(d)] = "create"
      BY <1>1, <1>2
    <3>3. booked'[k] <= restarts' /\ delivery'[t].pc = "reserve"
      BY <1>3, <1>4, <1>6, <1>7
    <3>q. QED
      BY <1>8, <3>1, <3>2, <3>3 DEF CreateFits
  <2>q. QED
    BY <2>1, <2>2, <2>3 DEF Fits
<1>10. IsCreating(delivery[t])' /\ KeyOf[CallAt(delivery[t])]' = k /\ ~IsCreating(d)
  BY <1>1, <1>2, <1>4, <1>6 DEF IsCreating, CallAt
<1>11. \A u \in Threads \ {t} : IsCreating(delivery[u]) => KeyOf[CallAt(delivery[u])] # k
  BY <1>3 DEF IInv, DeliveriesFit, Fits, CreateFits
<1>12. \A c \in Calls : log'[c] = "success" => Done(c)
  BY <1>3 DEF IInv, SuccessIsReal
<1>q. QED
  BY <1>3, <1>5, <1>6, <1>7, <1>8, <1>9, <1>10, <1>11, <1>12, KeyStep

(* The airline has answered, and the key is still held.                    *)
LEMMA ReserveStep ==
  ASSUME IInv, NEW t \in Threads, Reserve(t)
  PROVE  IInv'
<1> DEFINE d == delivery[t]
           e == [d EXCEPT !.pc = "book"]
<1>1. /\ d \in Deliveries
      /\ d.pc = "reserve"
      /\ HasCall(d)
      /\ Held(d)
      /\ Fits(d)
      /\ KeyAt(t) = KeyOf[CallAt(d)]
      /\ KeyAt(t) \in Keys
      /\ IsCreating(d)
      /\ store[KeyAt(t)] = "in_progress"
      /\ \A u \in Threads \ {t} : IsCreating(delivery[u]) => KeyOf[CallAt(delivery[u])] # KeyAt(t)
  BY CreatingFacts DEF Reserve, At, IsCreating, IInv, DeliveriesFit
<1>2. PICK k \in Keys : k = KeyAt(t)
  BY <1>1
<1>3. /\ delivery' = [delivery EXCEPT ![t] = e]
      /\ reserved' \subseteq Keys
      /\ UNCHANGED <<call, log, verified, booked, added, store, sent, told, faults, restarts>>
  BY <1>1 DEF Reserve, Continue, IInv, TypeOK, tables, vapi, counters
<1>4. /\ e \in Deliveries
      /\ e.pc = "book"
      /\ e.message = d.message
      /\ e.n = d.n
      /\ e.written = d.written
      /\ e.answer = d.answer
  BY <1>1 DEF Deliveries, Pcs
<1> HIDE DEF e
<1>5. TypeOK'
  BY <1>3, <1>4 DEF IInv, TypeOK
<1>6. delivery'[t] = e /\ \A u \in Threads \ {t} : delivery'[u] = delivery[u]
  BY <1>3 DEF IInv, TypeOK
<1>7. booked[k] <= 1 + restarts /\ booked[k] \in Nat
  BY DEF IInv, BookedOncePerLife, TypeOK
<1>8. Fits(delivery[t])'
  <2>1. Placed(delivery[t])'
    BY <1>1, <1>4, <1>6 DEF Placed, HasCall
  <2>2. Held(delivery[t])'
    BY <1>1, <1>3, <1>4, <1>6 DEF Held, Done
  <2>3. CreateFits(delivery[t])'
    BY <1>1, <1>3, <1>4, <1>6 DEF Fits, CreateFits, IsCreating, CallAt
  <2>q. QED
    BY <2>1, <2>2, <2>3 DEF Fits
<1>9. IsCreating(delivery[t])' /\ KeyOf[CallAt(delivery[t])]' = k
  BY <1>1, <1>2, <1>4, <1>6 DEF IsCreating, CallAt
<1>10. \A c \in Calls : log'[c] = "success" => Done(c)
  BY <1>3 DEF IInv, SuccessIsReal
<1>q. QED
  BY <1>1, <1>2, <1>3, <1>5, <1>6, <1>7, <1>8, <1>9, <1>10, KeyStep

(* create_booking raised: the key is free again, and nothing was booked.   *)
LEMMA RollBackSteps ==
  ASSUME IInv, NEW t \in Threads, ReserveRefused(t) \/ ReserveFails(t) \/ BookFails(t)
  PROVE  IInv'
<1> DEFINE d == delivery[t]
           e == [Emptied(d) EXCEPT !.pc = "resave"]
<1>1. /\ d.pc \in {"reserve", "book"}
      /\ IsCreating(d)
  BY DEF ReserveRefused, ReserveFails, BookFails, At, IsCreating
<1>2. /\ d \in Deliveries
      /\ HasCall(d)
      /\ Held(d)
      /\ KeyAt(t) = KeyOf[CallAt(d)]
      /\ KeyAt(t) \in Keys
      /\ \A u \in Threads \ {t} : IsCreating(delivery[u]) => KeyOf[CallAt(delivery[u])] # KeyAt(t)
  BY <1>1, CreatingFacts
<1>3. PICK k \in Keys : k = KeyAt(t)
  BY <1>2
<1>4. /\ store' = [store EXCEPT ![k] = "absent"]
      /\ delivery' = [delivery EXCEPT ![t] = e]
      /\ reserved' \subseteq Keys
      /\ faults' \in 0..MaxFaults
      /\ UNCHANGED <<call, log, verified, booked, added, sent, told, restarts>>
  BY <1>2, <1>3, BoundsAssumption
     DEF ReserveRefused, ReserveFails, BookFails, RollBack, Fail, Fault, IInv, TypeOK,
         tables, vapi, counters
<1>5. /\ e \in Deliveries
      /\ e.pc = "resave"
      /\ e.message = d.message
      /\ e.n = d.n
      /\ e.answer = d.answer
      /\ \A c \in Calls : e.written[c] = "absent"
  BY <1>2 DEF Emptied, Nothing, Deliveries, Pcs, Rows
<1> HIDE DEF e
<1>6. TypeOK'
  BY <1>4, <1>5 DEF IInv, TypeOK, StoreStates
<1>7. delivery'[t] = e /\ \A u \in Threads \ {t} : delivery'[u] = delivery[u]
  BY <1>4 DEF IInv, TypeOK
<1>8. booked[k] <= restarts /\ booked[k] \in Nat /\ restarts \in Nat
  BY <1>1, <1>2, <1>3 DEF IInv, DeliveriesFit, Fits, CreateFits, TypeOK
<1>9. store'[k] = "absent" /\ \A j \in Keys \ {k} : store'[j] = store[j]
  BY <1>4 DEF IInv, TypeOK
<1>10. Fits(delivery[t])' /\ ~IsCreating(delivery[t])'
  <2>1. Placed(delivery[t])'
    BY <1>2, <1>5, <1>7 DEF Placed, HasCall
  <2>2. Held(delivery[t])'
    BY <1>2, <1>4, <1>5, <1>7 DEF Held, Done
  <2>3. ~IsCreating(delivery[t])'
    BY <1>5, <1>7 DEF IsCreating
  <2>q. QED
    BY <2>1, <2>2, <2>3 DEF Fits, CreateFits
<1>11. \A c \in Calls : log'[c] = "success" => Done(c)
  BY <1>4 DEF IInv, SuccessIsReal
<1>q. QED
  BY <1>2, <1>3, <1>4, <1>6, <1>7, <1>8, <1>9, <1>10, <1>11, KeyStep

LEMMA BookStep ==
  ASSUME IInv, NEW t \in Threads, Book(t)
  PROVE  IInv'
<1> DEFINE d == delivery[t]
<1>1. /\ d.pc = "book"
      /\ IsCreating(d)
      /\ ServiceCommit(t, "complete")
      /\ "complete" \in Pcs
  BY DEF Book, At, IsCreating, Pcs
<1>2. /\ d \in Deliveries
      /\ HasCall(d)
      /\ Held(d)
      /\ Kind[CallAt(d)] = "create"
      /\ KeyAt(t) = KeyOf[CallAt(d)]
      /\ KeyAt(t) \in Keys
      /\ store[KeyAt(t)] = "in_progress"
      /\ \A u \in Threads \ {t} : IsCreating(delivery[u]) => KeyOf[CallAt(delivery[u])] # KeyAt(t)
  BY <1>1, CreatingFacts
<1>3. PICK k \in Keys : k = KeyAt(t)
  BY <1>2
<1>4. /\ booked' = [booked EXCEPT ![k] = @ + 1]
      /\ UNCHANGED <<call, added, reserved, store, sent, told, faults, restarts>>
  BY <1>3 DEF Book, vapi, counters
<1>5. /\ log' \in [Calls -> Rows]
      /\ verified' \subseteq Calls
      /\ \A c \in Calls : log'[c] = "success" => Done(c)
      /\ delivery' \in [Threads -> Deliveries]
      /\ \A u \in Threads \ {t} : delivery'[u] = delivery[u]
      /\ delivery'[t].pc = "complete"
      /\ delivery'[t].message = d.message
      /\ delivery'[t].n = d.n
      /\ delivery'[t].answer = d.answer
      /\ \A c \in Calls : delivery'[t].written[c] = "absent"
  BY <1>1, <1>2, ServiceCommitFacts
<1>6. TypeOK'
  BY <1>4, <1>5 DEF IInv, TypeOK
<1>7. booked[k] <= restarts /\ booked[k] \in Nat /\ restarts \in Nat
  BY <1>1, <1>2, <1>3 DEF IInv, DeliveriesFit, Fits, CreateFits, TypeOK
<1>8. booked'[k] = booked[k] + 1 /\ \A j \in Keys \ {k} : booked'[j] = booked[j]
  BY <1>4 DEF IInv, TypeOK
<1>9. /\ booked'[k] >= booked[k]
      /\ booked'[k] <= 1 + restarts
      /\ booked'[k] >= 1
      /\ store'[k] = "in_progress"
  BY <1>2, <1>3, <1>4, <1>7, <1>8
<1>10. Fits(delivery[t])'
  <2>1. Placed(delivery[t])'
    BY <1>2, <1>5 DEF Placed, HasCall
  <2>2. \A c \in Calls : d.answer[c] = "success" => Done(c)'
    BY <1>2, <1>4, <1>6, <1>7, <1>8, HeldGrows DEF TypeOK
  <2>3. Held(delivery[t])'
    BY <1>5, <2>2 DEF Held
  <2>4. CreateFits(delivery[t])'
    <3>1. CallAt(delivery[t])' = CallAt(d)
      BY <1>5 DEF CallAt
    <3>2. KeyOf[CallAt(d)] = k /\ Kind[CallAt(d)] = "create"
      BY <1>2, <1>3
    <3>q. QED
      BY <1>5, <1>9, <3>1, <3>2 DEF CreateFits
  <2>q. QED
    BY <2>1, <2>3, <2>4 DEF Fits
<1>11. IsCreating(delivery[t])' /\ KeyOf[CallAt(delivery[t])]' = k
  BY <1>2, <1>3, <1>5 DEF IsCreating, CallAt
<1>q. QED
  BY <1>2, <1>3, <1>4, <1>5, <1>6, <1>8, <1>9, <1>10, <1>11, KeyStep

LEMMA CompleteStep ==
  ASSUME IInv, NEW t \in Threads, Complete(t)
  PROVE  IInv'
<1> DEFINE d == delivery[t]
           e == [d EXCEPT !.pc = "save"]
<1>1. d.pc = "complete" /\ IsCreating(d)
  BY DEF Complete, At, IsCreating
<1>2. /\ d \in Deliveries
      /\ HasCall(d)
      /\ Held(d)
      /\ Kind[CallAt(d)] = "create"
      /\ KeyAt(t) = KeyOf[CallAt(d)]
      /\ KeyAt(t) \in Keys
      /\ \A u \in Threads \ {t} : IsCreating(delivery[u]) => KeyOf[CallAt(delivery[u])] # KeyAt(t)
  BY <1>1, CreatingFacts
<1>3. PICK k \in Keys : k = KeyAt(t)
  BY <1>2
<1>4. /\ store' = [store EXCEPT ![k] = "completed"]
      /\ delivery' = [delivery EXCEPT ![t] = e]
      /\ UNCHANGED <<call, log, verified, booked, added, reserved, sent, told, faults, restarts>>
  BY <1>3 DEF Complete, Continue, IInv, TypeOK, tables, vapi, counters
<1>5. /\ e \in Deliveries
      /\ e.pc = "save"
      /\ e.message = d.message
      /\ e.n = d.n
      /\ e.written = d.written
      /\ e.answer = d.answer
  BY <1>2 DEF Deliveries, Pcs
<1> HIDE DEF e
<1>6. TypeOK'
  BY <1>4, <1>5 DEF IInv, TypeOK, StoreStates
<1>7. delivery'[t] = e /\ \A u \in Threads \ {t} : delivery'[u] = delivery[u]
  BY <1>4 DEF IInv, TypeOK
<1>8. /\ booked[k] >= 1
      /\ booked[k] <= 1 + restarts
      /\ booked[k] \in Nat
  BY <1>1, <1>2, <1>3 DEF IInv, DeliveriesFit, Fits, CreateFits, BookedOncePerLife, TypeOK
<1>9. store'[k] = "completed" /\ \A j \in Keys \ {k} : store'[j] = store[j]
  BY <1>4 DEF IInv, TypeOK
<1>10. Fits(delivery[t])' /\ ~IsCreating(delivery[t])'
  <2>1. Placed(delivery[t])'
    BY <1>2, <1>5, <1>7 DEF Placed, HasCall
  <2>3. Held(delivery[t])'
    <3>1. CallAt(delivery[t])' = CallAt(d)
      BY <1>5, <1>7 DEF CallAt
    <3>2. Done(CallAt(d))
      BY <1>2, <1>3, <1>8 DEF Done
    <3>3. \A c \in Calls : Done(c) <=> Done(c)'
      BY <1>4 DEF Done
    <3>4. CallAt(d) \in Calls
      BY <1>2, CallAtTyped
    <3>5. \A c \in Calls : e.written[c] = "success" \/ e.answer[c] = "success" => Done(c)'
      BY <1>2, <1>5, <3>3 DEF Held
    <3>q. QED
      BY <1>5, <1>7, <3>1, <3>2, <3>3, <3>4, <3>5 DEF Held
  <2>4. ~IsCreating(delivery[t])'
    BY <1>5, <1>7 DEF IsCreating
  <2>q. QED
    BY <2>1, <2>3, <2>4 DEF Fits, CreateFits
<1>11. \A c \in Calls : log'[c] = "success" => Done(c)
  BY <1>4 DEF IInv, SuccessIsReal
<1>q. QED
  BY <1>2, <1>3, <1>4, <1>6, <1>7, <1>8, <1>9, <1>10, <1>11, KeyStep

(* What was booked before the restart now counts against an earlier life.  *)
LEMMA RestartStep ==
  ASSUME IInv, Restart
  PROVE  IInv'
<1>1. /\ restarts' = restarts + 1
      /\ restarts' \in 0..MaxRestarts
      /\ \A t \in Threads : delivery'[t] = Idle
      /\ \A k \in Keys : store'[k] = "absent"
      /\ UNCHANGED <<log, told, booked, added>>
  BY BoundsAssumption DEF Restart, IInv, TypeOK, tables, vapi
<1>2. TypeOK'
  BY <1>1, IdleFits DEF Restart, IInv, TypeOK, StoreStates, tables, vapi
<1>3. /\ Idle.pc = "idle"
      /\ \A c \in Calls : Idle.written[c] = "absent" /\ Idle.answer[c] = "none"
  BY DEF Idle, Nothing, Unanswered
<1>4. DeliveriesFit'
  BY <1>1, <1>3 DEF DeliveriesFit, Fits, Placed, CallPcs, Held, CreateFits, IsCreating
<1>5. OneHolder'
  BY <1>1, <1>3 DEF OneHolder, IsCreating
<1>6. \A k \in Keys : booked[k] <= 1 + restarts /\ booked[k] \in Nat /\ restarts \in Nat
  BY DEF IInv, BookedOncePerLife, TypeOK
<1>7. StoreFits' /\ NoOrphanedKey' /\ BookedOncePerLife'
  BY <1>1, <1>6 DEF StoreFits, NoOrphanedKey, BookedOncePerLife
<1>8. SuccessIsReal'
  BY <1>1 DEF IInv, SuccessIsReal, Done
<1>q. QED
  BY <1>2, <1>4, <1>5, <1>7, <1>8 DEF IInv

-----------------------------------------------------------------------------
(* The theorems.                                                           *)

LEMMA InitIInv == Init => IInv
<1> SUFFICES ASSUME Init PROVE IInv
  OBVIOUS
<1>1. TypeOK
  BY IdleFits, BoundsAssumption
     DEF Init, TypeOK, Rows, Answers, Outcomes, StoreStates, Unanswered
<1>2. \A t \in Threads : delivery[t] = Idle
  BY DEF Init
<1>3. DeliveriesFit /\ OneHolder
  BY <1>2, IdleFits DEF DeliveriesFit, OneHolder, IsCreating
<1>4. StoreFits /\ NoOrphanedKey /\ BookedOncePerLife
  BY DEF Init, StoreFits, NoOrphanedKey, BookedOncePerLife
<1>5. SuccessIsReal
  BY DEF Init, SuccessIsReal, Unanswered
<1>q. QED
  BY <1>1, <1>3, <1>4, <1>5 DEF IInv

LEMMA NextIInv == IInv /\ [Next]_vars => IInv'
<1> SUFFICES ASSUME IInv, [Next]_vars PROVE IInv'
  OBVIOUS
<1>1. CASE UNCHANGED vars
  <2>1. TypeOK' /\ StoreFits' /\ BookedOncePerLife'
    BY <1>1 DEF vars, IInv, TypeOK, StoreFits, BookedOncePerLife
  <2>2. ASSUME NEW t \in Threads
        PROVE  Fits(delivery[t])'
    <3>1. delivery'[t] = delivery[t] /\ Fits(delivery[t])
      BY <1>1 DEF vars, IInv, DeliveriesFit
    <3>2. Placed(delivery[t])'
      BY <3>1 DEF Fits, Placed, HasCall
    <3>3. Held(delivery[t])'
      BY <1>1, <3>1 DEF vars, Fits, Held, Done, CallAt
    <3>4. CreateFits(delivery[t])'
      BY <1>1, <3>1 DEF vars, Fits, CreateFits, IsCreating, CallAt
    <3> QED
      BY <3>2, <3>3, <3>4 DEF Fits
  <2>3. OneHolder'
    BY <1>1 DEF vars, IInv, OneHolder, IsCreating, CallAt
  <2>4. NoOrphanedKey'
    BY <1>1 DEF vars, IInv, NoOrphanedKey, Creating, KeyAt, Current
  <2>5. SuccessIsReal'
    BY <1>1 DEF vars, IInv, SuccessIsReal, Done
  <2>q. QED
    BY <2>1, <2>2, <2>3, <2>4, <2>5 DEF IInv, DeliveriesFit
<1>2. ASSUME NEW t \in Threads, NEW m \in Messages, Deliver(t, m) PROVE IInv'
  BY <1>2, DeliverStep
<1>3. ASSUME NEW t \in Threads, HandleCall(t) PROVE IInv'
  <2>1. CASE \/ Deny(t) \/ Refuse(t) \/ Read(t) \/ CreateKnown(t) \/ Resave(t) \/ SaveSuccess(t)
    BY <2>1, AnswerSteps
  <2>2. CASE ClaimConflicts(t) \/ ResaveConflicts(t) \/ CommitAddFails(t)
    BY <2>2, EndSteps
  <2>3. CASE Lookup(t)
    BY <2>3, LookupStep
  <2>4. CASE Claim(t)
    BY <2>4, ClaimStep
  <2>5. CASE Verify(t)
    BY <2>5, VerifyStep
  <2>6. CASE Create(t)
    BY <2>6, CreateStep
  <2>7. CASE Reserve(t)
    BY <2>7, ReserveStep
  <2>8. CASE ReserveRefused(t) \/ ReserveFails(t) \/ BookFails(t)
    BY <2>8, RollBackSteps
  <2>9. CASE Book(t)
    BY <2>9, BookStep
  <2>10. CASE Complete(t)
    BY <2>10, CompleteStep
  <2>11. CASE Add(t)
    BY <2>11, AddStep
  <2>12. CASE CommitAdd(t)
    BY <2>12, CommitAddStep
  <2>q. QED
    BY <1>3, <2>1, <2>2, <2>3, <2>4, <2>5, <2>6, <2>7, <2>8, <2>9, <2>10, <2>11, <2>12
       DEF HandleCall
<1>4. ASSUME NEW t \in Threads, Step(t) PROVE IInv'
  BY <1>3, <1>4, CallRowSteps, FinalCommitStep, EndSteps DEF Step
<1>5. CASE Restart
  BY <1>5, RestartStep
<1>q. QED
  BY <1>1, <1>2, <1>4, <1>5 DEF Next

LEMMA Invariance == Spec => []IInv
BY InitIInv, NextIInv, PTL DEF Spec

(* Every variable keeps its type, whatever is delivered, fails or restarts.*)
THEOREM TypeCorrect == Spec => []TypeOK
<1>1. IInv => TypeOK
  BY DEF IInv
<1>q. QED
  BY <1>1, Invariance, PTL

(* create_booking makes one Booking row of a key in each life of the       *)
(* process: BookingService.create_booking over its IdempotencyStore.       *)
THEOREM OneBookingPerLife == Spec => []BookedOncePerLife
<1>1. IInv => BookedOncePerLife
  BY DEF IInv
<1>q. QED
  BY <1>1, Invariance, PTL

(* What vapi_webhook answers as a success, or _save_log records as one, is *)
(* in the database.                                                        *)
THEOREM SuccessHolds == Spec => []SuccessIsReal
<1>1. IInv => SuccessIsReal
  BY DEF IInv
<1>q. QED
  BY <1>1, Invariance, PTL

(* create_booking never leaves a key in progress with nobody working on it.*)
THEOREM KeysAreReleased == Spec => []NoOrphanedKey
<1>1. IInv => NoOrphanedKey
  BY DEF IInv
<1>q. QED
  BY <1>1, Invariance, PTL

-----------------------------------------------------------------------------
(* add_passenger, while no two deliveries of one call overlap.             *)

(* The batch of delivery d has the call c.                                 *)
Carries(d, c) == /\ d.pc # "idle"
                 /\ d.message \in Batches
                 /\ \E i \in 1..Len(CallsOf[d.message]) : CallsOf[d.message][i] = c

DeliveredApart ==
  \A t, u \in Threads : \A c \in Calls :
    Carries(delivery[t], c) /\ Carries(delivery[u], c) => t = u

(* In no batch is an "add" call repeated, or followed by a "create" call,  *)
(* whose rollback would take the row of the "add" call with it.            *)
AddsAreLast ==
  \A b \in Batches : \A i, j \in 1..Len(CallsOf[b]) :
    Kind[CallsOf[b][i]] = "add" /\ i < j =>
      Kind[CallsOf[b][j]] # "create" /\ CallsOf[b][j] # CallsOf[b][i]

Budget == faults + restarts

(* The delivery has been at c and is past it.                              *)
Passed(d, c) == \E i \in 1..Len(CallsOf[d.message]) :
                  CallsOf[d.message][i] = c /\ (i < d.n \/ d.pc = "commit")

(* A transaction writes the rows of its own batch, in the batch's order;   *)
(* it is empty before the first call and after the final commit.           *)
InOrder(d) ==
  /\ \A c \in Calls : d.written[c] # "absent" => Carries(d, c)
  /\ \A c \in Calls : Kind[c] = "add" /\ d.written[c] = "success" => Passed(d, c)
  /\ d.pc \in {"call", "end", "respond"} => \A c \in Calls : d.written[c] = "absent"
  /\ d.pc = "resave" => Kind[CallAt(d)] = "create"

ClaimsAreNew == \A t \in Threads : delivery[t].pc = "claim" => log[CallAt(delivery[t])] = "absent"

(* The passenger is in the database, and the log will say so.              *)
Pending(d, c) == d.written[c] = "success" \/ (d.pc = "save" /\ CallAt(d) = c)
Settled(c) == log[c] \in Outcomes \/ \E t \in Threads : Pending(delivery[t], c)

AboutToAdd(d, c) == d.pc \in {"claim", "run", "add_commit"} /\ CallAt(d) = c

AddFits(c) ==
  /\ added[c] <= 1 + Budget
  /\ added[c] <= Budget \/ Settled(c)
  /\ \A t \in Threads : AboutToAdd(delivery[t], c) => added[c] <= Budget

AddsInv ==
  /\ IInv
  /\ \A t \in Threads : InOrder(delivery[t])
  /\ ClaimsAreNew
  /\ \A c \in Calls : IF Kind[c] = "add" THEN AddFits(c) ELSE added[c] = 0

Apart == AddsInv /\ AddsAreLast /\ DeliveredApart

LEMMA IdleInOrder == InOrder(Idle)
BY DEF InOrder, Idle, Nothing

(* What is known of a delivery at a call.                                  *)
LEMMA AtCall ==
  ASSUME Apart, NEW t \in Threads, delivery[t].pc \in CallPcs
  PROVE  /\ delivery[t] \in Deliveries
         /\ HasCall(delivery[t])
         /\ Held(delivery[t])
         /\ InOrder(delivery[t])
         /\ Current(t) = CallAt(delivery[t])
         /\ Current(t) \in Calls
         /\ Carries(delivery[t], Current(t))
<1>1. /\ delivery[t] \in Deliveries
      /\ HasCall(delivery[t])
      /\ Held(delivery[t])
      /\ InOrder(delivery[t])
  BY DEF Apart, AddsInv, IInv, TypeOK, DeliveriesFit, Fits, Placed
<1>2. Current(t) = CallAt(delivery[t]) /\ Current(t) \in Calls
  BY <1>1, CallAtTyped DEF Current, CallAt
<1>3. Carries(delivery[t], Current(t))
  BY <1>1 DEF Carries, HasCall, Current, CallPcs
<1> QED
  BY <1>1, <1>2, <1>3

(* A call after a recorded "add" call is another one, and no "create".     *)
LEMMA AfterAnAdd ==
  ASSUME AddsAreLast, NEW d \in Deliveries, HasCall(d), InOrder(d), d.pc # "commit",
         NEW c \in Calls, Kind[c] = "add", d.written[c] = "success"
  PROVE  CallAt(d) # c /\ Kind[CallAt(d)] # "create"
<1>1. PICK i \in 1..Len(CallsOf[d.message]) : CallsOf[d.message][i] = c /\ i < d.n
  BY DEF InOrder, Passed
<1> QED
  BY <1>1 DEF AddsAreLast, HasCall, CallAt

(* A pending call is carried.                                              *)
LEMMA PendingIsCarried ==
  ASSUME Apart, NEW t \in Threads, NEW c \in Calls, Pending(delivery[t], c)
  PROVE  Carries(delivery[t], c)
<1>1. CASE delivery[t].written[c] = "success"
  BY <1>1 DEF Apart, AddsInv, InOrder
<1>2. CASE delivery[t].pc = "save" /\ CallAt(delivery[t]) = c
  BY <1>2, AtCall DEF CallPcs
<1> QED
  BY <1>1, <1>2 DEF Pending

-----------------------------------------------------------------------------
(* Steps that are no fault.                                                *)

(* The step of t to e writes rows of its own batch only, and clears no     *)
(* outcome.                                                                *)
Moves(t, e) ==
  /\ delivery' = [delivery EXCEPT ![t] = e]
  /\ InOrder(e)
  /\ e.pc = "claim" => log'[CallAt(e)] = "absent"
  /\ \A c \in Calls : /\ log'[c] # log[c] => Carries(delivery[t], c)
                      /\ log[c] \in Outcomes => log'[c] \in Outcomes

(* ... and forgets no passenger that is in the database.                   *)
Advances(t, e) ==
  /\ Moves(t, e)
  /\ UNCHANGED counters
  /\ \A c \in Calls : Kind[c] = "add" /\ Pending(delivery[t], c) =>
                        Pending(e, c) \/ log'[c] \in Outcomes

(* It adds no passenger, and starts on no call that has been settled.      *)
AddsNothing(t, e) ==
  /\ UNCHANGED added
  /\ \A c \in Calls : Kind[c] = "add" /\ AboutToAdd(e, c) =>
                        AboutToAdd(delivery[t], c) \/ ~Settled(c)

LEMMA MoveKeeps ==
  ASSUME Apart, NEW t \in Threads, NEW e, Moves(t, e)
  PROVE  /\ \A u \in Threads : InOrder(delivery[u])'
         /\ ClaimsAreNew'
         /\ delivery'[t] = e
         /\ \A u \in Threads \ {t} : delivery'[u] = delivery[u]
<1>1. /\ delivery'[t] = e
      /\ \A u \in Threads \ {t} : delivery'[u] = delivery[u]
  BY DEF Moves, Apart, AddsInv, IInv, TypeOK
<1>2. \A u \in Threads : InOrder(delivery[u])'
  <2>1. InOrder(delivery[t])'
    BY <1>1 DEF Moves, InOrder, Carries, Passed, CallAt
  <2>2. ASSUME NEW u \in Threads \ {t} PROVE InOrder(delivery[u])'
    <3>1. InOrder(delivery[u]) /\ delivery'[u] = delivery[u]
      BY <1>1 DEF Apart, AddsInv
    <3> QED
      BY <3>1 DEF InOrder, Carries, Passed, CallAt
  <2> QED
    BY <2>1, <2>2
<1>3. ClaimsAreNew'
  <2>1. delivery'[t].pc = "claim" => log'[CallAt(delivery'[t])] = "absent"
    BY <1>1 DEF Moves
  <2>2. ASSUME NEW u \in Threads \ {t}, delivery[u].pc = "claim"
        PROVE  log'[CallAt(delivery[u])] = "absent"
    <3>1. /\ CallAt(delivery[u]) \in Calls
          /\ Carries(delivery[u], CallAt(delivery[u]))
      BY <2>2, AtCall DEF CallPcs
    <3>2. ~Carries(delivery[t], CallAt(delivery[u]))
      BY <3>1 DEF Apart, DeliveredApart
    <3> QED
      BY <2>2, <3>1, <3>2 DEF Moves, Apart, AddsInv, ClaimsAreNew
  <2> QED
    BY <1>1, <2>1, <2>2 DEF ClaimsAreNew, CallAt
<1> QED
  BY <1>1, <1>2, <1>3

LEMMA AdvanceKeeps ==
  ASSUME Apart, NEW t \in Threads, NEW e, Advances(t, e)
  PROVE  /\ \A u \in Threads : InOrder(delivery[u])'
         /\ ClaimsAreNew'
         /\ delivery'[t] = e
         /\ \A u \in Threads \ {t} : delivery'[u] = delivery[u]
         /\ Budget' = Budget
         /\ \A c \in Calls : Kind[c] = "add" /\ Settled(c) => Settled(c)'
<1>1. /\ \A u \in Threads : InOrder(delivery[u])'
      /\ ClaimsAreNew'
      /\ delivery'[t] = e
      /\ \A u \in Threads \ {t} : delivery'[u] = delivery[u]
  BY MoveKeeps DEF Advances
<1>2. Budget' = Budget
  BY DEF Advances, Budget, counters
<1>3. ASSUME NEW c \in Calls, Kind[c] = "add", Settled(c)
      PROVE  Settled(c)'
  <2>1. CASE log[c] \in Outcomes
    BY <2>1 DEF Advances, Moves, Settled
  <2>2. CASE Pending(delivery[t], c)
    <3>1. Pending(e, c) \/ log'[c] \in Outcomes
      BY <1>3, <2>2 DEF Advances
    <3> QED
      BY <1>1, <3>1 DEF Settled, Pending, CallAt
  <2>3. ASSUME NEW u \in Threads \ {t}, Pending(delivery[u], c)
        PROVE  Settled(c)'
    BY <1>1, <2>3 DEF Settled, Pending, CallAt
  <2> QED
    BY <1>3, <2>1, <2>2, <2>3 DEF Settled
<1> QED
  BY <1>1, <1>2, <1>3

LEMMA AdvanceStep ==
  ASSUME Apart, IInv', NEW t \in Threads, NEW e, Advances(t, e), AddsNothing(t, e)
  PROVE  AddsInv'
<1>1. /\ \A u \in Threads : InOrder(delivery[u])'
      /\ ClaimsAreNew'
      /\ delivery'[t] = e
      /\ \A u \in Threads \ {t} : delivery'[u] = delivery[u]
      /\ Budget' = Budget
      /\ \A c \in Calls : Kind[c] = "add" /\ Settled(c) => Settled(c)'
  BY AdvanceKeeps
<1>2. added' = added
  BY DEF AddsNothing
<1>3. ASSUME NEW c \in Calls, Kind[c] = "add"
      PROVE  AddFits(c)'
  <2>1. AddFits(c)
    BY <1>3 DEF Apart, AddsInv
  <2>2. ASSUME NEW u \in Threads, AboutToAdd(delivery'[u], c)
        PROVE  added[c] <= Budget
    <3>1. AboutToAdd(delivery[u], c) \/ ~Settled(c)
      BY <1>1, <1>3, <2>2 DEF AddsNothing
    <3> QED
      BY <2>1, <3>1 DEF AddFits
  <2>3. \A u \in Threads : AboutToAdd(delivery[u], c)' => added[c] <= Budget
    BY <2>2 DEF AboutToAdd, CallAt
  <2>4. added'[c] <= (1 + Budget)' /\ (added'[c] <= Budget' \/ Settled(c)')
    BY <1>1, <1>2, <1>3, <2>1 DEF AddFits
  <2> QED
    BY <1>1, <1>2, <2>3, <2>4 DEF AddFits
<1>4. \A c \in Calls : Kind[c] # "add" => added'[c] = 0
  BY <1>2 DEF Apart, AddsInv
<1> QED
  BY <1>1, <1>3, <1>4 DEF AddsInv

-----------------------------------------------------------------------------
(* The actions that are no fault, by what they do to the delivery.         *)

(* The program counter moves on, with nothing written.                     *)
LEMMA ContinueAdvances ==
  ASSUME Apart, NEW t \in Threads, NEW pc \in Pcs, Continue(t, pc),
         UNCHANGED <<tables, counters>>,
         delivery[t].pc \in {"call", "end", "run", "reserve", "complete"},
         pc \in {"end", "lookup", "respond", "reserve", "book", "save", "add_commit"},
         pc \in {"end", "respond"} => delivery[t].pc \in {"call", "end"}
  PROVE  Advances(t, [delivery[t] EXCEPT !.pc = pc])
<1> DEFINE d == delivery[t]
           e == [d EXCEPT !.pc = pc]
<1>1. d \in Deliveries /\ InOrder(d)
  BY DEF Apart, AddsInv, IInv, TypeOK
<1>2. /\ e.pc = pc
      /\ e.message = d.message
      /\ e.n = d.n
      /\ e.written = d.written
  BY <1>1 DEF Deliveries
<1>3. delivery' = [delivery EXCEPT ![t] = e]
  BY DEF Continue, Apart, AddsInv, IInv, TypeOK
<1> HIDE DEF e
<1>4. InOrder(e)
  <2>1. \A c \in Calls : Carries(d, c) => Carries(e, c)
    BY <1>2 DEF Carries
  <2>2. \A c \in Calls : Passed(d, c) => Passed(e, c)
    BY <1>2 DEF Passed
  <2> QED
    BY <1>1, <1>2, <2>1, <2>2 DEF InOrder
<1>5. \A c \in Calls : Pending(d, c) => Pending(e, c)
  BY <1>2 DEF Pending
<1> QED
  BY <1>2, <1>3, <1>4, <1>5 DEF Advances, Moves, tables, e

(* The delivery answers its call and goes to the next one, or commits.     *)
(* f is the delivery with what it writes for the call.                     *)
LEMMA AnsweredAdvances ==
  ASSUME Apart, NEW t \in Threads, NEW f \in Deliveries, NEW a \in Answers,
         delivery[t].pc \in {"lookup", "run", "save", "resave"},
         delivery[t].pc = "save" => f.written[Current(t)] = "success",
         f.message = delivery[t].message, f.n = delivery[t].n,
         \A c \in Calls : c # Current(t) => f.written[c] = delivery[t].written[c],
         delivery[t].pc = "lookup" => f.written = delivery[t].written,
         delivery' = [delivery EXCEPT ![t] = Answered(f, Current(t), a)],
         UNCHANGED <<tables, counters, added>>
  PROVE  /\ Advances(t, Answered(f, Current(t), a))
         /\ AddsNothing(t, Answered(f, Current(t), a))
<1> DEFINE d == delivery[t]
           x == Current(t)
           e == Answered(f, x, a)
<1>1. /\ d \in Deliveries
      /\ HasCall(d)
      /\ InOrder(d)
      /\ x = CallAt(d)
      /\ x \in Calls
      /\ Carries(d, x)
  BY AtCall DEF CallPcs
<1>2. /\ d.n \in 1..Len(CallsOf[d.message])
      /\ Len(CallsOf[d.message]) \in Nat
  BY <1>1, BatchesAssumption DEF HasCall
<1>3. /\ e.pc = IF d.n < Len(CallsOf[d.message]) THEN "lookup" ELSE "commit"
      /\ e.n = IF d.n < Len(CallsOf[d.message]) THEN d.n + 1 ELSE d.n
      /\ e.message = d.message
      /\ e.written = f.written
  BY DEF Answered, Deliveries
<1> HIDE DEF e
<1>4. /\ Passed(e, x)
      /\ \A c \in Calls : Passed(d, c) => Passed(e, c)
  <2>1. d.n < e.n \/ e.pc = "commit"
    BY <1>2, <1>3
  <2>2. CallsOf[e.message][d.n] = x /\ d.n \in 1..Len(CallsOf[e.message])
    BY <1>1, <1>2, <1>3 DEF CallAt
  <2>3. Passed(e, x)
    BY <2>1, <2>2 DEF Passed
  <2>4. ASSUME NEW c \in Calls, Passed(d, c) PROVE Passed(e, c)
    <3>1. PICK i \in 1..Len(CallsOf[d.message]) : CallsOf[d.message][i] = c /\ i < d.n
      BY <2>4 DEF Passed
    <3>2. i < e.n \/ e.pc = "commit"
      BY <1>2, <1>3, <3>1
    <3> QED
      BY <1>3, <3>1, <3>2 DEF Passed
  <2> QED
    BY <2>3, <2>4
<1>5. \A c \in Calls : Carries(d, c) => Carries(e, c)
  BY <1>3 DEF Carries
<1>6. InOrder(e)
  <2>1. \A c \in Calls : e.written[c] # "absent" => Carries(e, c)
    BY <1>1, <1>3, <1>5 DEF InOrder
  <2>2. \A c \in Calls : Kind[c] = "add" /\ e.written[c] = "success" => Passed(e, c)
    BY <1>1, <1>3, <1>4 DEF InOrder
  <2> QED
    BY <1>3, <2>1, <2>2 DEF InOrder
<1>7. ASSUME NEW c \in Calls, Kind[c] = "add", Pending(d, c)
      PROVE  Pending(e, c)
  <2>1. CASE d.written[c] = "success"
    <3>1. c # x
      BY <1>1, <1>7, <2>1, AfterAnAdd DEF Apart
    <3> QED
      BY <1>3, <2>1, <3>1 DEF Pending
  <2>2. CASE d.pc = "save" /\ CallAt(d) = c
    BY <1>1, <1>3, <2>2 DEF Pending
  <2> QED
    BY <1>7, <2>1, <2>2 DEF Pending
<1>8. e.pc \in {"lookup", "commit"}
  BY <1>3
<1>9. Advances(t, e)
  BY <1>6, <1>7, <1>8 DEF Advances, Moves, tables, e
<1>10. AddsNothing(t, e)
  BY <1>8 DEF AddsNothing, AboutToAdd
<1> QED
  BY <1>9, <1>10 DEF e

(* _save_log, wherever it is called.                                       *)
LEMMA SaveAdds ==
  ASSUME Apart, IInv', NEW t \in Threads, NEW row \in SavedRows, Save(t, row),
         delivery[t].pc \in {"run", "save", "resave"},
         delivery[t].pc = "save" => row = "success",
         UNCHANGED <<tables, counters, effects>>
  PROVE  AddsInv'
<1> DEFINE d == delivery[t]
           x == Current(t)
           f == [d EXCEPT !.written[x] = row]
           e == Answered(f, x, AnswerFor(row))
<1>1. d \in Deliveries /\ x \in Calls
  BY AtCall DEF CallPcs
<1>2. [d.written EXCEPT ![x] = row] \in [Calls -> Rows]
  BY <1>1 DEF Deliveries, Rows, Outcomes, SavedRows
<1>3. /\ f \in Deliveries
      /\ f.message = d.message
      /\ f.n = d.n
      /\ f.written = [d.written EXCEPT ![x] = row]
  BY <1>1, <1>2 DEF Deliveries
<1>4. AnswerFor(row) \in Answers
  BY DEF AnswerFor, Answers, Outcomes
<1>5. delivery' = [delivery EXCEPT ![t] = e]
  BY DEF Save, Saved
<1> HIDE DEF f
<1>6. /\ f.written[x] = row
      /\ \A c \in Calls : c # x => f.written[c] = d.written[c]
  BY <1>1, <1>3 DEF Deliveries
<1>7. Advances(t, e) /\ AddsNothing(t, e)
  BY <1>3, <1>4, <1>5, <1>6, AnsweredAdvances DEF effects
<1> HIDE DEF e
<1> QED
  BY <1>7, AdvanceStep

LEMMA VerifyAdds ==
  ASSUME Apart, IInv', NEW t \in Threads, Verify(t)
  PROVE  AddsInv'
<1> DEFINE d == delivery[t]
           x == Current(t)
           s == [d EXCEPT !.sessions = d.sessions \cup {x}]
           f == [s EXCEPT !.written[x] = "success"]
           e == Answered(f, x, AnswerFor("success"))
<1>1. /\ d \in Deliveries
      /\ x \in Calls
      /\ d.pc = "run"
      /\ UNCHANGED <<tables, counters, added>>
  BY AtCall DEF CallPcs, Verify, At, effects
<1>2. [d.written EXCEPT ![x] = "success"] \in [Calls -> Rows]
  BY <1>1 DEF Deliveries, Rows, Outcomes
<1>3. /\ s \in Deliveries
      /\ s.message = d.message
      /\ s.n = d.n
      /\ s.written = d.written
  BY <1>1 DEF Deliveries
<1>4. delivery' = [delivery EXCEPT ![t] = e]
  BY DEF Verify, Saved
<1> HIDE DEF s
<1>5. /\ f \in Deliveries
      /\ f.message = d.message
      /\ f.n = d.n
      /\ f.written = [d.written EXCEPT ![x] = "success"]
  BY <1>2, <1>3 DEF Deliveries
<1>6. AnswerFor("success") \in Answers
  BY DEF AnswerFor, Answers, Outcomes
<1> HIDE DEF f
<1>7. \A c \in Calls : c # x => f.written[c] = d.written[c]
  BY <1>1, <1>5 DEF Deliveries
<1>8. Advances(t, e) /\ AddsNothing(t, e)
  BY <1>1, <1>4, <1>5, <1>6, <1>7, AnsweredAdvances
<1> HIDE DEF e
<1> QED
  BY <1>8, AdvanceStep

LEMMA LookupAdds ==
  ASSUME Apart, IInv', NEW t \in Threads, Lookup(t)
  PROVE  AddsInv'
<1> DEFINE d == delivery[t]
           x == Current(t)
<1>1. /\ d \in Deliveries
      /\ HasCall(d)
      /\ InOrder(d)
      /\ x = CallAt(d)
      /\ x \in Calls
      /\ Carries(d, x)
      /\ d.pc = "lookup"
      /\ UNCHANGED <<tables, counters, added>>
  BY AtCall DEF CallPcs, Lookup, At, effects
<1>2. CASE IsDone(log[x])
  <2> DEFINE e == Answered(d, x, AnswerFor(log[x]))
  <2>1. AnswerFor(log[x]) \in Answers
    BY DEF AnswerFor, Answers, Outcomes
  <2>2. delivery' = [delivery EXCEPT ![t] = e]
    BY <1>2 DEF Lookup
  <2>3. Advances(t, e) /\ AddsNothing(t, e)
    BY <1>1, <2>1, <2>2, AnsweredAdvances
  <2> HIDE DEF e
  <2> QED
    BY <2>3, AdvanceStep
<1>3. CASE ~IsDone(log[x])
  <2> DEFINE e == [d EXCEPT !.found = log[x], !.pc = IF log[x] = "absent" THEN "claim" ELSE "run"]
  <2>1. /\ e.pc = IF log[x] = "absent" THEN "claim" ELSE "run"
        /\ e.message = d.message
        /\ e.n = d.n
        /\ e.written = d.written
    BY <1>1 DEF Deliveries
  <2>2. delivery' = [delivery EXCEPT ![t] = e]
    BY <1>3 DEF Lookup
  <2> HIDE DEF e
  <2>3. CallAt(e) = x /\ e.pc \in {"claim", "run"}
    BY <1>1, <2>1 DEF CallAt
  <2>4. InOrder(e)
    <3>1. \A c \in Calls : Carries(d, c) => Carries(e, c)
      BY <2>1 DEF Carries
    <3>2. \A c \in Calls : Passed(d, c) => Passed(e, c)
      BY <1>1, <2>1 DEF Passed
    <3> QED
      BY <1>1, <2>1, <2>3, <3>1, <3>2 DEF InOrder
  <2>5. \A c \in Calls : Pending(d, c) => Pending(e, c)
    BY <1>1, <2>1 DEF Pending
  <2>6. e.pc = "claim" => log'[CallAt(e)] = "absent"
    BY <1>1, <2>1, <2>3 DEF tables
  <2>7. Advances(t, e)
    BY <1>1, <2>2, <2>4, <2>5, <2>6 DEF Advances, Moves, tables
  <2>8. Kind[x] = "add" => ~Settled(x)
    <3>1. log[x] \notin Outcomes
      BY <1>3 DEF IsDone
    <3>2. Kind[x] = "add" => ~Pending(d, x)
      BY <1>1, AfterAnAdd DEF Pending, Apart
    <3>3. \A u \in Threads \ {t} : ~Pending(delivery[u], x)
      BY <1>1, PendingIsCarried DEF Apart, DeliveredApart
    <3> QED
      BY <3>1, <3>2, <3>3 DEF Settled
  <2>9. AddsNothing(t, e)
    BY <1>1, <2>3, <2>8 DEF AddsNothing, AboutToAdd
  <2> QED
    BY <2>7, <2>9, AdvanceStep
<1> QED
  BY <1>2, <1>3

LEMMA ClaimAdds ==
  ASSUME Apart, IInv', NEW t \in Threads, Claim(t)
  PROVE  AddsInv'
<1> DEFINE d == delivery[t]
           x == Current(t)
           e == [d EXCEPT !.written[x] = "claimed", !.pc = "run"]
<1>1. /\ d \in Deliveries
      /\ HasCall(d)
      /\ InOrder(d)
      /\ x = CallAt(d)
      /\ x \in Calls
      /\ Carries(d, x)
      /\ d.pc = "claim"
      /\ UNCHANGED <<tables, counters, added>>
  BY AtCall DEF CallPcs, Claim, At, effects
<1>2. /\ e.pc = "run"
      /\ e.message = d.message
      /\ e.n = d.n
      /\ e.written = [d.written EXCEPT ![x] = "claimed"]
  BY <1>1 DEF Deliveries
<1>3. delivery' = [delivery EXCEPT ![t] = e]
  BY DEF Claim
<1> HIDE DEF e
<1>4. /\ e.written[x] = "claimed"
      /\ \A c \in Calls : c # x => e.written[c] = d.written[c]
  BY <1>1, <1>2 DEF Deliveries
<1>5. InOrder(e)
  <2>1. \A c \in Calls : Carries(d, c) => Carries(e, c)
    BY <1>2 DEF Carries
  <2>2. \A c \in Calls : Passed(d, c) => Passed(e, c)
    BY <1>1, <1>2 DEF Passed
  <2> QED
    BY <1>1, <1>2, <1>4, <2>1, <2>2 DEF InOrder
<1>6. \A c \in Calls : Kind[c] = "add" /\ Pending(d, c) => Pending(e, c)
  BY <1>1, <1>4, AfterAnAdd DEF Pending, Apart
<1>7. Advances(t, e)
  BY <1>1, <1>2, <1>3, <1>5, <1>6 DEF Advances, Moves, tables
<1>8. AddsNothing(t, e)
  BY <1>1, <1>2 DEF AddsNothing, AboutToAdd, CallAt
<1> QED
  BY <1>7, <1>8, AdvanceStep

(* A transaction that ends with no passenger pending.                      *)
LEMMA GiveUpAdds ==
  ASSUME Apart, IInv', NEW t \in Threads, NEW e,
         delivery' = [delivery EXCEPT ![t] = e],
         InOrder(e), e.pc \in {"idle", "call", "end", "lookup", "resave"},
         \A c \in Calls : Kind[c] = "add" => ~Pending(delivery[t], c),
         UNCHANGED <<tables, counters, added>>
  PROVE  AddsInv'
<1>1. Advances(t, e)
  BY DEF Advances, Moves, tables
<1>2. AddsNothing(t, e)
  BY DEF AddsNothing, AboutToAdd
<1> QED
  BY <1>1, <1>2, AdvanceStep

LEMMA DeliverAdds ==
  ASSUME Apart, IInv', NEW t \in Threads, NEW m \in Messages, Deliver(t, m)
  PROVE  AddsInv'
<1> DEFINE e == [Idle EXCEPT !.message = m, !.pc = IF call = "absent" THEN "call" ELSE FirstPc(m)]
<1>1. /\ e.pc \in {"call", "end", "lookup"}
      /\ \A c \in Calls : e.written[c] = "absent"
  BY DEF Idle, Nothing, FirstPc
<1>2. delivery' = [delivery EXCEPT ![t] = e]
  BY DEF Deliver
<1>3. UNCHANGED <<tables, counters, added>>
  BY DEF Deliver, effects
<1> HIDE DEF e
<1>4. InOrder(e)
  BY <1>1 DEF InOrder
<1>5. \A c \in Calls : Kind[c] = "add" => ~Pending(delivery[t], c)
  BY PendingIsCarried DEF Carries, Deliver, At
<1> QED
  BY <1>1, <1>2, <1>3, <1>4, <1>5, GiveUpAdds

(* A "create" call has no "add" call of its batch pending.                 *)
LEMMA NothingPending ==
  ASSUME Apart, NEW t \in Threads,
         \/ delivery[t].pc \in {"idle", "call", "end", "respond"}
         \/ delivery[t].pc \in CallPcs \ {"save"} /\ Kind[Current(t)] = "create"
  PROVE  \A c \in Calls : Kind[c] = "add" => ~Pending(delivery[t], c)
<1> SUFFICES ASSUME NEW c \in Calls, Kind[c] = "add", Pending(delivery[t], c)
             PROVE  FALSE
  OBVIOUS
<1>1. InOrder(delivery[t]) /\ Carries(delivery[t], c)
  BY PendingIsCarried DEF Apart, AddsInv
<1>2. CASE delivery[t].pc \in {"idle", "call", "end", "respond"}
  BY <1>1, <1>2 DEF InOrder, Pending, Carries
<1>3. CASE delivery[t].pc \in CallPcs \ {"save"} /\ Kind[Current(t)] = "create"
  <2>1. /\ delivery[t] \in Deliveries
        /\ HasCall(delivery[t])
        /\ Current(t) = CallAt(delivery[t])
    BY <1>3, AtCall
  <2>2. delivery[t].written[c] = "success" /\ delivery[t].pc # "commit"
    BY <1>3 DEF Pending, CallPcs
  <2> QED
    BY <1>1, <1>3, <2>1, <2>2, AfterAnAdd DEF Apart
<1> QED
  BY <1>2, <1>3

(* Requests that end without a fault.                                      *)
LEMMA EndAdds ==
  ASSUME Apart, IInv', NEW t \in Threads,
         \/ InsertCallConflicts(t) \/ ClaimConflicts(t) \/ ResaveConflicts(t)
         \/ Respond(t) \/ ResponseLost(t)
  PROVE  AddsInv'
<1>1. ~ClaimConflicts(t)
  BY AtCall DEF ClaimConflicts, At, CallPcs, Apart, AddsInv, ClaimsAreNew
<1>2. /\ delivery' = [delivery EXCEPT ![t] = Idle]
      /\ UNCHANGED <<tables, counters, added>>
  BY DEF InsertCallConflicts, ClaimConflicts, ResaveConflicts, Respond, ResponseLost, Close, effects
<1>3. ResaveConflicts(t) => delivery[t].pc = "resave" /\ Kind[Current(t)] = "create"
  BY AtCall DEF ResaveConflicts, At, CallPcs, InOrder
<1>4. \/ delivery[t].pc \in {"idle", "call", "end", "respond"}
      \/ delivery[t].pc \in CallPcs \ {"save"} /\ Kind[Current(t)] = "create"
  BY <1>1, <1>3 DEF InsertCallConflicts, Respond, ResponseLost, At, CallPcs
<1>5. \A c \in Calls : Kind[c] = "add" => ~Pending(delivery[t], c)
  BY <1>4, NothingPending
<1>6. Idle.pc = "idle" /\ InOrder(Idle)
  BY IdleFits, IdleInOrder
<1> QED
  BY <1>2, <1>5, <1>6, GiveUpAdds

(* What a rollback leaves of the delivery: it writes its row anew.         *)
LEMMA RolledBack ==
  ASSUME Apart, NEW t \in Threads, RollBack(t), delivery[t].pc \in {"reserve", "book"}
  PROVE  LET e == [Emptied(delivery[t]) EXCEPT !.pc = "resave"]
         IN  /\ delivery' = [delivery EXCEPT ![t] = e]
             /\ InOrder(e)
             /\ e.pc = "resave"
             /\ Kind[Current(t)] = "create"
<1> DEFINE d == delivery[t]
           e == [Emptied(d) EXCEPT !.pc = "resave"]
<1>1. d \in Deliveries /\ Current(t) = CallAt(d)
  BY AtCall DEF CallPcs
<1>2. Kind[CallAt(d)] = "create"
  BY DEF Apart, AddsInv, IInv, DeliveriesFit, Fits, CreateFits, IsCreating
<1>3. /\ e.pc = "resave"
      /\ e.message = d.message
      /\ e.n = d.n
      /\ \A c \in Calls : e.written[c] = "absent"
  BY <1>1 DEF Emptied, Nothing, Deliveries
<1>4. delivery' = [delivery EXCEPT ![t] = e]
  BY DEF RollBack
<1> HIDE DEF e
<1>5. InOrder(e)
  BY <1>2, <1>3 DEF InOrder, CallAt
<1> QED
  BY <1>1, <1>2, <1>3, <1>4, <1>5 DEF e

LEMMA RefusedAdds ==
  ASSUME Apart, IInv', NEW t \in Threads, ReserveRefused(t)
  PROVE  AddsInv'
<1> DEFINE e == [Emptied(delivery[t]) EXCEPT !.pc = "resave"]
<1>1. /\ delivery[t].pc = "reserve"
      /\ RollBack(t)
      /\ UNCHANGED <<tables, counters, added>>
  BY DEF ReserveRefused, At, RollBack
<1>2. /\ delivery' = [delivery EXCEPT ![t] = e]
      /\ InOrder(e)
      /\ e.pc = "resave"
      /\ Kind[Current(t)] = "create"
  BY <1>1, RolledBack
<1> HIDE DEF e
<1>3. \A c \in Calls : Kind[c] = "add" => ~Pending(delivery[t], c)
  BY <1>1, <1>2, NothingPending DEF CallPcs
<1> QED
  BY <1>1, <1>2, <1>3, GiveUpAdds

(* After a fault each "add" call may act once more.                        *)
LEMMA FaultAdds ==
  ASSUME Apart, IInv', NEW t \in Threads, NEW e,
         delivery' = [delivery EXCEPT ![t] = e],
         InOrder(e), e.pc \in {"idle", "resave"}, Fault,
         UNCHANGED <<tables, added>>
  PROVE  AddsInv'
<1>1. Moves(t, e)
  BY DEF Moves, tables
<1>2. /\ \A u \in Threads : InOrder(delivery[u])'
      /\ ClaimsAreNew'
  BY <1>1, MoveKeeps
<1>3. /\ faults \in Nat /\ restarts \in Nat
      /\ faults' = faults + 1
      /\ restarts' = restarts
      /\ added' = added
      /\ added \in [Calls -> Nat]
  BY BoundsAssumption DEF Fault, Apart, AddsInv, IInv, TypeOK
<1>4. Budget \in Nat /\ Budget' = 1 + Budget
  BY <1>3 DEF Budget
<1>5. ASSUME NEW c \in Calls, Kind[c] = "add"
      PROVE  AddFits(c)'
  <2>1. added'[c] <= Budget' /\ added'[c] \in Nat
    BY <1>3, <1>4, <1>5 DEF Apart, AddsInv, AddFits
  <2> QED
    BY <1>4, <2>1 DEF AddFits
<1>6. \A c \in Calls : Kind[c] # "add" => added'[c] = 0
  BY <1>3 DEF Apart, AddsInv
<1> QED
  BY <1>2, <1>5, <1>6 DEF AddsInv

LEMMA FaultsAdd ==
  ASSUME Apart, IInv', NEW t \in Threads,
         ReserveFails(t) \/ BookFails(t) \/ CommitAddFails(t) \/ FinalCommitFails(t)
  PROVE  AddsInv'
<1>1. Fault /\ UNCHANGED <<tables, added>>
  BY DEF ReserveFails, BookFails, CommitAddFails, FinalCommitFails, RollBack, effects
<1>2. CASE ReserveFails(t) \/ BookFails(t)
  <2> DEFINE e == [Emptied(delivery[t]) EXCEPT !.pc = "resave"]
  <2>1. RollBack(t) /\ delivery[t].pc \in {"reserve", "book"}
    BY <1>2 DEF ReserveFails, BookFails, At
  <2>2. /\ delivery' = [delivery EXCEPT ![t] = e]
        /\ InOrder(e)
        /\ e.pc = "resave"
    BY <2>1, RolledBack
  <2> HIDE DEF e
  <2> QED
    BY <1>1, <2>2, FaultAdds
<1>3. CASE CommitAddFails(t) \/ FinalCommitFails(t)
  <2>1. /\ delivery' = [delivery EXCEPT ![t] = Idle]
        /\ InOrder(Idle)
        /\ Idle.pc = "idle"
    BY <1>3, IdleFits, IdleInOrder DEF CommitAddFails, FinalCommitFails, Close
  <2> QED
    BY <1>1, <2>1, FaultAdds
<1> QED
  BY <1>2, <1>3

(* So may it after a crash.                                                *)
LEMMA RestartAdds ==
  ASSUME Apart, IInv', Restart
  PROVE  AddsInv'
<1>1. /\ \A u \in Threads : delivery'[u] = Idle
      /\ restarts' = restarts + 1
      /\ faults' = faults
      /\ added' = added
  BY DEF Restart
<1>2. InOrder(Idle) /\ Idle.pc = "idle"
  BY IdleFits, IdleInOrder
<1>3. \A u \in Threads : InOrder(delivery[u])'
  BY <1>1, <1>2 DEF InOrder, Carries, Passed, CallAt
<1>4. ClaimsAreNew'
  BY <1>1, <1>2 DEF ClaimsAreNew
<1>5. faults \in Nat /\ restarts \in Nat /\ added \in [Calls -> Nat]
  BY BoundsAssumption DEF Apart, AddsInv, IInv, TypeOK
<1>6. Budget \in Nat /\ Budget' = 1 + Budget
  BY <1>1, <1>5 DEF Budget
<1>7. ASSUME NEW c \in Calls, Kind[c] = "add"
      PROVE  AddFits(c)'
  <2>1. added'[c] <= Budget' /\ added'[c] \in Nat
    BY <1>1, <1>5, <1>6, <1>7 DEF Apart, AddsInv, AddFits
  <2> QED
    BY <1>6, <2>1 DEF AddFits
<1>8. \A c \in Calls : Kind[c] # "add" => added'[c] = 0
  BY <1>1 DEF Apart, AddsInv
<1> QED
  BY <1>3, <1>4, <1>7, <1>8 DEF AddsInv

-----------------------------------------------------------------------------
(* Commits.                                                                *)

(* What a commit of the rows w does to the log.                            *)
LEMMA CommitRows ==
  ASSUME log \in [Calls -> Rows], NEW w \in [Calls -> Rows], NEW s, Commit(w, s)
  PROVE  \A c \in Calls : /\ w[c] = "absent" => log'[c] = log[c]
                          /\ log[c] \in Outcomes => log'[c] \in Outcomes
                          /\ w[c] = "success" => log'[c] \in Outcomes
BY DEF Commit, Overwrite, Outcomes, Rows

(* A service's commit leaves no row of an "add" call pending.              *)
LEMMA ServiceCommitAdvances ==
  ASSUME Apart, NEW t \in Threads, NEW pc \in {"complete", "save"}, ServiceCommit(t, pc),
         delivery[t].pc \in {"book", "add_commit"}, UNCHANGED counters
  PROVE  Advances(t, [Emptied(delivery[t]) EXCEPT !.pc = pc])
<1> DEFINE d == delivery[t]
           x == Current(t)
           e == [Emptied(d) EXCEPT !.pc = pc]
           w == IF d.found = "denied" THEN [d.written EXCEPT ![x] = "claimed"] ELSE d.written
<1>1. /\ d \in Deliveries
      /\ HasCall(d)
      /\ InOrder(d)
      /\ x = CallAt(d)
      /\ x \in Calls
      /\ Carries(d, x)
  BY AtCall DEF CallPcs
<1>2. /\ e.pc = pc
      /\ \A c \in Calls : e.written[c] = "absent"
  BY <1>1 DEF Emptied, Nothing, Deliveries
<1>3. /\ delivery' = [delivery EXCEPT ![t] = e]
      /\ Commit(w, d.sessions)
  BY DEF ServiceCommit
<1>4. /\ w \in [Calls -> Rows]
      /\ \A c \in Calls : c # x => w[c] = d.written[c]
  BY <1>1 DEF Deliveries, Rows
<1>5. log \in [Calls -> Rows]
  BY DEF Apart, AddsInv, IInv, TypeOK
<1> HIDE DEF e, w
<1>6. \A c \in Calls : /\ w[c] = "absent" => log'[c] = log[c]
                       /\ log[c] \in Outcomes => log'[c] \in Outcomes
                       /\ w[c] = "success" => log'[c] \in Outcomes
  BY <1>3, <1>4, <1>5, CommitRows
<1>7. \A c \in Calls : log'[c] # log[c] => Carries(d, c)
  BY <1>1, <1>4, <1>6 DEF InOrder
<1>8. ASSUME NEW c \in Calls, Kind[c] = "add", Pending(d, c)
      PROVE  log'[c] \in Outcomes
  <2>1. d.written[c] = "success" /\ d.pc # "commit"
    BY <1>8 DEF Pending
  <2>2. c # x
    BY <1>1, <1>8, <2>1, AfterAnAdd DEF Apart
  <2> QED
    BY <1>4, <1>6, <2>1, <2>2
<1>9. InOrder(e)
  BY <1>2 DEF InOrder
<1> QED
  BY <1>2, <1>3, <1>6, <1>7, <1>8, <1>9 DEF Advances, Moves, e

LEMMA BookAdds ==
  ASSUME Apart, IInv', NEW t \in Threads, Book(t)
  PROVE  AddsInv'
<1> DEFINE e == [Emptied(delivery[t]) EXCEPT !.pc = "complete"]
<1>1. delivery[t] \in Deliveries
  BY DEF Apart, AddsInv, IInv, TypeOK
<1>2. e.pc = "complete"
  BY <1>1 DEF Emptied, Deliveries
<1>3. Advances(t, e)
  BY ServiceCommitAdvances DEF Book, At
<1> HIDE DEF e
<1>4. AddsNothing(t, e)
  BY <1>2 DEF AddsNothing, AboutToAdd, Book
<1> QED
  BY <1>3, <1>4, AdvanceStep

LEMMA FinalCommitAdds ==
  ASSUME Apart, IInv', NEW t \in Threads, FinalCommit(t)
  PROVE  AddsInv'
<1> DEFINE d == delivery[t]
           e == [Emptied(d) EXCEPT !.pc = "respond"]
<1>1. /\ d \in Deliveries
      /\ InOrder(d)
      /\ d.pc = "commit"
      /\ log \in [Calls -> Rows]
  BY DEF Apart, AddsInv, IInv, TypeOK, FinalCommit, At
<1>2. /\ e.pc = "respond"
      /\ \A c \in Calls : e.written[c] = "absent"
  BY <1>1 DEF Emptied, Nothing, Deliveries
<1>3. /\ delivery' = [delivery EXCEPT ![t] = e]
      /\ Commit(d.written, d.sessions)
      /\ UNCHANGED <<added, counters>>
  BY DEF FinalCommit, effects
<1> HIDE DEF e
<1>4. d.written \in [Calls -> Rows]
  BY <1>1 DEF Deliveries
<1>5. \A c \in Calls : /\ d.written[c] = "absent" => log'[c] = log[c]
                       /\ log[c] \in Outcomes => log'[c] \in Outcomes
                       /\ d.written[c] = "success" => log'[c] \in Outcomes
  BY <1>1, <1>3, <1>4, CommitRows
<1>6. InOrder(e)
  BY <1>2 DEF InOrder
<1>7. \A c \in Calls : log'[c] # log[c] => Carries(d, c)
  BY <1>1, <1>5 DEF InOrder
<1>8. \A c \in Calls : Pending(d, c) => log'[c] \in Outcomes
  BY <1>1, <1>5 DEF Pending
<1>9. Advances(t, e)
  BY <1>2, <1>3, <1>5, <1>6, <1>7, <1>8 DEF Advances, Moves
<1>10. AddsNothing(t, e)
  BY <1>2, <1>3 DEF AddsNothing, AboutToAdd
<1> QED
  BY <1>9, <1>10, AdvanceStep

(* The passenger is added, and its row is about to be saved.               *)
LEMMA CommitAddAdds ==
  ASSUME Apart, IInv', NEW t \in Threads, CommitAdd(t)
  PROVE  AddsInv'
<1> DEFINE d == delivery[t]
           e == [Emptied(d) EXCEPT !.pc = "save"]
<1>0. PICK x \in Calls : x = Current(t)
  BY AtCall DEF CallPcs, CommitAdd, At
<1>1. /\ d \in Deliveries
      /\ Held(d)
      /\ x = CallAt(d)
      /\ Carries(d, x)
      /\ d.pc = "add_commit"
  BY <1>0, AtCall DEF CallPcs, CommitAdd, At
<1>2. e.pc = "save" /\ CallAt(e) = x
  BY <1>1 DEF Emptied, Deliveries, CallAt
<1>3. Advances(t, e)
  BY ServiceCommitAdvances DEF CommitAdd, At
<1> HIDE DEF e
<1>4. /\ \A u \in Threads : InOrder(delivery[u])'
      /\ ClaimsAreNew'
      /\ delivery'[t] = e
      /\ \A u \in Threads \ {t} : delivery'[u] = delivery[u]
      /\ Budget' = Budget
      /\ \A c \in Calls : Kind[c] = "add" /\ Settled(c) => Settled(c)'
  BY <1>3, AdvanceKeeps
<1>5. /\ Kind[x] = "add"
      /\ added \in [Calls -> Nat]
      /\ added' = [added EXCEPT ![x] = @ + 1]
      /\ Budget \in Nat
  BY <1>0, <1>1, BoundsAssumption
     DEF Held, CommitAdd, Apart, AddsInv, IInv, TypeOK, Budget
<1>6. ASSUME NEW c \in Calls, Kind[c] = "add", c # x
      PROVE  AddFits(c)'
  <2>1. AddFits(c) /\ added'[c] = added[c]
    BY <1>5, <1>6 DEF Apart, AddsInv
  <2>2. ~AboutToAdd(delivery'[t], c)
    BY <1>2, <1>4 DEF AboutToAdd
  <2>3. \A u \in Threads : AboutToAdd(delivery[u], c)' => added[c] <= Budget
    BY <1>4, <2>1, <2>2 DEF AboutToAdd, CallAt, AddFits
  <2>4. added'[c] <= (1 + Budget)' /\ (added'[c] <= Budget' \/ Settled(c)')
    BY <1>4, <1>6, <2>1 DEF AddFits
  <2> QED
    BY <1>4, <2>1, <2>3, <2>4 DEF AddFits
<1>7. AddFits(x)'
  <2>1. added[x] <= Budget
    BY <1>1, <1>5 DEF Apart, AddsInv, AddFits, AboutToAdd
  <2>2. added'[x] <= 1 + Budget
    BY <1>1, <1>5, <2>1
  <2>3. Settled(x)'
    BY <1>2, <1>4 DEF Settled, Pending, CallAt
  <2>4. \A u \in Threads : ~AboutToAdd(delivery[u], x)'
    <3>1. ~AboutToAdd(delivery[t], x)'
      BY <1>2, <1>4 DEF AboutToAdd
    <3>2. ASSUME NEW u \in Threads \ {t}, AboutToAdd(delivery[u], x) PROVE FALSE
      <4>1. Carries(delivery[u], x)
        BY <3>2, AtCall DEF AboutToAdd, CallPcs
      <4> QED
        BY <1>1, <4>1 DEF Apart, DeliveredApart
    <3> QED
      BY <1>4, <3>1, <3>2 DEF AboutToAdd, CallAt
  <2> QED
    BY <1>4, <2>2, <2>3, <2>4 DEF AddFits
<1>8. \A c \in Calls : Kind[c] # "add" => added'[c] = 0
  BY <1>5 DEF Apart, AddsInv
<1> QED
  BY <1>4, <1>6, <1>7, <1>8 DEF AddsInv

-----------------------------------------------------------------------------
(* The other actions, and the theorem.                                     *)

LEMMA ContinueAdds ==
  ASSUME Apart, IInv', NEW t \in Threads,
         \/ InsertCall(t) \/ EndCall(t) \/ Create(t) \/ Reserve(t) \/ Complete(t) \/ Add(t)
  PROVE  AddsInv'
<1>1. /\ UNCHANGED <<tables, counters, added>>
      /\ delivery[t].pc \in {"call", "end", "run", "reserve", "complete"}
      /\ \E pc \in {"end", "lookup", "respond", "reserve", "book", "save", "add_commit"} :
           /\ Continue(t, pc)
           /\ pc \in {"end", "respond"} => delivery[t].pc \in {"call", "end"}
           /\ pc = "add_commit" => delivery[t].pc = "run"
  BY DEF InsertCall, EndCall, Create, Reserve, Complete, Add, FirstPc, At, effects
<1>2. PICK pc \in {"end", "lookup", "respond", "reserve", "book", "save", "add_commit"} :
         /\ Continue(t, pc)
         /\ pc \in {"end", "respond"} => delivery[t].pc \in {"call", "end"}
         /\ pc = "add_commit" => delivery[t].pc = "run"
  BY <1>1
<1>3. pc \in Pcs
  BY DEF Pcs
<1> DEFINE e == [delivery[t] EXCEPT !.pc = pc]
<1>4. /\ e.pc = pc
      /\ CallAt(e) = CallAt(delivery[t])
  BY DEF Apart, AddsInv, IInv, TypeOK, Deliveries, CallAt
<1>5. Advances(t, e)
  BY <1>1, <1>2, <1>3, ContinueAdvances
<1> HIDE DEF e
<1>6. AddsNothing(t, e)
  BY <1>1, <1>2, <1>4 DEF AddsNothing, AboutToAdd
<1> QED
  BY <1>5, <1>6, AdvanceStep

LEMMA SavesAdd ==
  ASSUME Apart, IInv', NEW t \in Threads,
         \/ Deny(t) \/ Refuse(t) \/ Read(t) \/ CreateKnown(t) \/ Resave(t) \/ SaveSuccess(t)
  PROVE  AddsInv'
<1>1. /\ UNCHANGED <<tables, counters, effects>>
      /\ delivery[t].pc \in {"run", "save", "resave"}
      /\ \E row \in SavedRows : Save(t, row) /\ (delivery[t].pc = "save" => row = "success")
  BY DEF Deny, Refuse, Read, CreateKnown, Resave, SaveSuccess, At, SavedRows, RowOfKnownKey
<1>2. PICK row \in SavedRows : Save(t, row) /\ (delivery[t].pc = "save" => row = "success")
  BY <1>1
<1> QED
  BY <1>1, <1>2, SaveAdds

LEMMA NextAdds == Apart /\ [Next]_vars => AddsInv'
<1> SUFFICES ASSUME Apart, [Next]_vars
             PROVE  AddsInv'
  OBVIOUS
<1>1. IInv'
  BY NextIInv DEF Apart, AddsInv
<1>2. CASE UNCHANGED vars
  BY <1>1, <1>2 DEF Apart, AddsInv, vars, InOrder, Carries, Passed, ClaimsAreNew, CallAt,
                    AddFits, Settled, Pending, AboutToAdd, Budget
<1>3. ASSUME NEW t \in Threads, NEW m \in Messages, Deliver(t, m) PROVE AddsInv'
  BY <1>1, <1>3, DeliverAdds
<1>4. ASSUME NEW t \in Threads, Step(t) PROVE AddsInv'
  BY <1>1, <1>4, ContinueAdds, SavesAdd, EndAdds, FaultsAdd, LookupAdds, ClaimAdds, VerifyAdds,
     RefusedAdds, BookAdds, CommitAddAdds, FinalCommitAdds DEF Step, HandleCall
<1>5. CASE Restart
  BY <1>1, <1>5, RestartAdds
<1> QED
  BY <1>2, <1>3, <1>4, <1>5 DEF Next

LEMMA InitAdds == Init => AddsInv
<1> SUFFICES ASSUME Init
             PROVE  AddsInv
  OBVIOUS
<1>1. IInv
  BY InitIInv
<1>2. \A t \in Threads : delivery[t] = Idle /\ InOrder(delivery[t])
  BY IdleInOrder DEF Init
<1>3. Idle.pc = "idle"
  BY IdleFits
<1>4. \A c \in Calls : added[c] = 0 /\ Budget = 0
  BY DEF Init, Budget
<1> QED
  BY <1>1, <1>2, <1>3, <1>4 DEF AddsInv, ClaimsAreNew, AddFits, AboutToAdd

(* PassengerService.add_passenger has no key of its own.  While the        *)
(* deliveries of a call do not overlap and no create_booking follows it in *)
(* its batch, the row of tool_executions is enough: whatever is redelivered*)
(* a call adds one passenger, and one more for each fault or crash.        *)
THEOREM AddedOnceUnlessFault ==
  AddsAreLast => (Spec /\ []DeliveredApart => []AddedOncePerFault)
<1>1. AddsInv => AddedOncePerFault
  <2> SUFFICES ASSUME AddsInv, NEW c \in Calls
               PROVE  added[c] <= 1 + faults + restarts
    BY DEF AddedOncePerFault
  <2>1. faults \in Nat /\ restarts \in Nat /\ added[c] \in Nat
    BY BoundsAssumption DEF AddsInv, IInv, TypeOK
  <2>2. added[c] = 0 \/ added[c] <= 1 + Budget
    BY DEF AddsInv, AddFits
  <2> QED
    BY <2>1, <2>2 DEF Budget
<1>2. AddsAreLast /\ AddsInv /\ DeliveredApart /\ [Next]_vars => AddsInv'
  BY NextAdds DEF Apart
<1>3. ASSUME AddsAreLast
      PROVE  Spec /\ []DeliveredApart => []AddedOncePerFault
  <2>1. AddsInv /\ DeliveredApart /\ [Next]_vars => AddsInv'
    BY <1>2, <1>3
  <2> QED
    BY <1>1, <2>1, InitAdds, PTL DEF Spec
<1> QED
  BY <1>3

-----------------------------------------------------------------------------
(* The refinement: what becomes of the phase of a key.                     *)

(* A delivery about to insert its Booking has a reservation.               *)
ReservedFirst == \A t \in Threads : At(t, "book") => KeyAt(t) \in reserved

OnceInv == IInv /\ ReservedFirst

(* t moves on with its delivery, and nobody else does.                     *)
Proceeds(t, e) ==
  /\ delivery'[t] = e
  /\ \A u \in Threads \ {t} : delivery'[u] = delivery[u]

LEMMA ProceedsBy ==
  ASSUME IInv, NEW t \in Threads, NEW e, delivery' = [delivery EXCEPT ![t] = e]
  PROVE  Proceeds(t, e)
BY DEF IInv, TypeOK, Proceeds

LEMMA StaysReserved ==
  ASSUME ReservedFirst, NEW t \in Threads, NEW e, Proceeds(t, e),
         reserved \subseteq reserved',
         e.pc = "book" => CallsOf[e.message][e.n] = Current(t) /\ KeyAt(t) \in reserved'
  PROVE  ReservedFirst'
<1>1. (At(t, "book") => KeyAt(t) \in reserved)'
  BY DEF Proceeds, At, KeyAt, Current
<1>2. ASSUME NEW u \in Threads \ {t} PROVE (At(u, "book") => KeyAt(u) \in reserved)'
  BY DEF Proceeds, ReservedFirst, At, KeyAt, Current
<1> QED
  BY <1>1, <1>2 DEF ReservedFirst

LEMMA PhaseFacts ==
  ASSUME IInv
  PROVE  /\ \A k \in Keys : Phases[k] = IF Acted(k) THEN "acted" ELSE store[k]
         /\ \A k \in Keys : Acted(k) => store[k] = "in_progress"
<1>1. ASSUME NEW k \in Keys, Acted(k) PROVE store[k] = "in_progress"
  <2>1. PICK t \in Threads : At(t, "complete") /\ KeyAt(t) = k
    BY <1>1 DEF Acted
  <2> QED
    BY <2>1, CreatingFacts DEF At, IsCreating
<1> QED
  BY <1>1 DEF Phases

(* The keys of other requests keep their phase.                            *)
LEMMA OtherPhases ==
  ASSUME NEW t \in Threads, NEW e, Proceeds(t, e), NEW k \in Keys,
         At(t, "complete") => KeyAt(t) = k,
         e.pc = "complete" => KeyOf[CallsOf[e.message][e.n]] = k,
         store' \in [Keys -> StoreStates], \A j \in Keys \ {k} : store'[j] = store[j]
  PROVE  \A j \in Keys \ {k} : Phases'[j] = Phases[j]
<1> SUFFICES ASSUME NEW j \in Keys \ {k} PROVE Phases'[j] = Phases[j]
  OBVIOUS
<1>1. ASSUME Acted(j) PROVE Acted(j)'
  <2>1. PICK u \in Threads : At(u, "complete") /\ KeyAt(u) = j
    BY <1>1 DEF Acted
  <2>2. u # t
    BY <2>1
  <2> QED
    BY <2>1, <2>2 DEF Acted, Proceeds, At, KeyAt, Current
<1>2. ASSUME Acted(j)' PROVE Acted(j)
  <2>1. PICK u \in Threads : (At(u, "complete") /\ KeyAt(u) = j)'
    BY <1>2 DEF Acted
  <2>2. u # t
    BY <2>1 DEF Proceeds, At, KeyAt, Current
  <2> QED
    BY <2>1, <2>2 DEF Acted, Proceeds, At, KeyAt, Current
<1> QED
  BY <1>1, <1>2 DEF Phases

(* The phase of the key at hand changes, and no other.                     *)
LEMMA TurnsTo ==
  ASSUME NEW k \in Keys, NEW to, Phases'[k] = to,
         \A j \in Keys \ {k} : Phases'[j] = Phases[j]
  PROVE  Phases' = [Phases EXCEPT ![k] = to]
<1>1. Phases = [j \in Keys |-> Phases[j]] /\ Phases' = [j \in Keys |-> Phases'[j]]
  BY DEF Phases
<1> QED
  BY <1>1

(* A step that is about no key.                                            *)
LEMMA QuietOnce ==
  ASSUME OnceInv, NEW t \in Threads, NEW e, delivery' = [delivery EXCEPT ![t] = e],
         e.pc \notin {"book", "complete"}, ~At(t, "complete"),
         UNCHANGED <<booked, reserved, store, restarts>>
  PROVE  ReservedFirst' /\ UNCHANGED Once!onceVars
<1>1. Proceeds(t, e)
  BY ProceedsBy DEF OnceInv
<1>2. ReservedFirst'
  BY <1>1, StaysReserved DEF OnceInv
<1>3. \A j \in Keys : Phases'[j] = Phases[j]
  <2>1. \A j \in Keys : Acted(j)' <=> Acted(j)
    BY <1>1 DEF Proceeds, Acted, At, KeyAt, Current
  <2> QED
    BY <2>1 DEF Phases
<1>4. Phases' = Phases
  BY <1>3 DEF Phases
<1> QED
  BY <1>2, <1>4 DEF Once!onceVars

(* What t does to the phase of its key k, in a step that concerns it.      *)
OnKey(t, e, k) ==
  /\ delivery' = [delivery EXCEPT ![t] = e]
  /\ k \in Keys /\ k = KeyAt(t)
  /\ CallsOf[e.message][e.n] = Current(t)
  /\ \A j \in Keys \ {k} : store'[j] = store[j]
  /\ reserved \subseteq reserved'
  /\ e.pc = "book" => k \in reserved'

LEMMA KeyTurns ==
  ASSUME OnceInv, IInv', NEW t \in Threads, NEW e, NEW k, OnKey(t, e, k),
         IsCreating(delivery[t]) \/ store[k] = "absent"
  PROVE  /\ ReservedFirst'
         /\ Phases[k] = IF At(t, "complete") THEN "acted" ELSE store[k]
         /\ Phases' = [Phases EXCEPT ![k] = IF e.pc = "complete" THEN "acted" ELSE store'[k]]
<1>1. Proceeds(t, e) /\ k \in Keys
  BY ProceedsBy DEF OnceInv, OnKey
<1>2. ReservedFirst'
  BY <1>1, StaysReserved DEF OnceInv, OnKey
<1>3. ASSUME NEW u \in Threads \ {t}
      PROVE  ~(At(u, "complete") /\ KeyAt(u) = k)
  <2> SUFFICES ASSUME At(u, "complete"), KeyAt(u) = k
               PROVE  FALSE
    OBVIOUS
  <2>1. IsCreating(delivery[u]) /\ KeyOf[CallAt(delivery[u])] = k
    BY CreatingFacts DEF OnceInv, At, IsCreating
  <2>2. store[k] = "in_progress"
    BY <2>1, CreatingFacts DEF OnceInv, At, IsCreating
  <2>3. IsCreating(delivery[t])
    BY <2>2
  <2> QED
    BY <2>1, <2>3, CreatingFacts DEF OnceInv, OnKey
<1>4. Phases[k] = IF At(t, "complete") THEN "acted" ELSE store[k]
  <2>1. Acted(k) <=> At(t, "complete")
    BY <1>3 DEF Acted, OnKey
  <2> QED
    BY <1>1, <2>1 DEF Phases
<1>5. Phases'[k] = IF e.pc = "complete" THEN "acted" ELSE store'[k]
  <2>1. Acted(k)' <=> e.pc = "complete"
    <3>1. (At(t, "complete") /\ KeyAt(t) = k)' <=> e.pc = "complete"
      BY <1>1 DEF Proceeds, OnKey, At, KeyAt, Current
    <3>2. \A u \in Threads \ {t} : ~(At(u, "complete") /\ KeyAt(u) = k)'
      BY <1>1, <1>3 DEF Proceeds, At, KeyAt, Current
    <3> QED
      BY <3>1, <3>2 DEF Acted
  <2> QED
    BY <1>1, <2>1 DEF Phases
<1>6. \A j \in Keys \ {k} : Phases'[j] = Phases[j]
  <2>1. store' \in [Keys -> StoreStates]
    BY DEF IInv, TypeOK
  <2>2. KeyOf[CallsOf[e.message][e.n]] = k
    BY DEF OnKey, KeyAt
  <2>3. /\ KeyAt(t) = k
        /\ \A j \in Keys \ {k} : store'[j] = store[j]
    BY DEF OnKey
  <2> QED
    BY <1>1, <2>1, <2>2, <2>3, OtherPhases
<1>7. Phases' = [Phases EXCEPT ![k] = IF e.pc = "complete" THEN "acted" ELSE store'[k]]
  BY <1>1, <1>5, <1>6, TurnsTo
<1> QED
  BY <1>2, <1>4, <1>7

(* The actions about a key, each a step of its life.                       *)
Lives(t) == Once!Next /\ ReservedFirst'

(* What the actions about a key begin with.                                *)
LEMMA AtKey ==
  ASSUME OnceInv, NEW t \in Threads,
         IsCreating(delivery[t]) \/ (At(t, "run") /\ Kind[Current(t)] = "create")
  PROVE  /\ delivery[t] \in Deliveries
         /\ KeyAt(t) \in Keys
         /\ Current(t) = CallsOf[delivery[t].message][delivery[t].n]
         /\ store \in [Keys -> StoreStates]
         /\ booked \in [Keys -> Nat]
         /\ IsCreating(delivery[t]) => store[KeyAt(t)] = "in_progress"
BY CreatingFacts DEF OnceInv, IInv, TypeOK, Current

LEMMA CreateLives ==
  ASSUME OnceInv, IInv', NEW t \in Threads, Create(t)
  PROVE  Lives(t)
<1> DEFINE e == [delivery[t] EXCEPT !.pc = "reserve"]
<1>0. PICK k \in Keys : k = KeyAt(t)
  BY AtKey DEF Create
<1>1. /\ e.pc = "reserve"
      /\ CallsOf[e.message][e.n] = Current(t)
      /\ delivery' = [delivery EXCEPT ![t] = e]
  BY AtKey DEF Create, Continue, Deliveries, OnceInv, IInv, TypeOK
<1> HIDE DEF e
<1>2. /\ store[k] = "absent"
      /\ store'[k] = "in_progress"
      /\ \A j \in Keys \ {k} : store'[j] = store[j]
      /\ UNCHANGED <<booked, reserved, restarts>>
  BY <1>0, AtKey DEF Create, MayBegin, counters
<1>3. OnKey(t, e, k)
  BY <1>0, <1>1, <1>2 DEF OnKey
<1>4. /\ ReservedFirst'
      /\ Phases[k] = "absent"
      /\ Phases' = [Phases EXCEPT ![k] = "in_progress"]
  BY <1>1, <1>2, <1>3, KeyTurns DEF Create, At
<1>5. Once!Begin(k)
  BY <1>2, <1>4 DEF Once!Begin, Once!Turn
<1> QED
  BY <1>4, <1>5 DEF Lives, Once!Next

LEMMA ReserveLives ==
  ASSUME OnceInv, IInv', NEW t \in Threads, Reserve(t)
  PROVE  Lives(t)
<1> DEFINE e == [delivery[t] EXCEPT !.pc = "book"]
<1>0. /\ At(t, "reserve") /\ ~At(t, "complete")
      /\ IsCreating(delivery[t])
  BY DEF Reserve, At, IsCreating
<1>1. PICK k \in Keys : k = KeyAt(t)
  BY <1>0, AtKey
<1>2. /\ e.pc = "book"
      /\ CallsOf[e.message][e.n] = Current(t)
      /\ delivery' = [delivery EXCEPT ![t] = e]
  BY <1>0, AtKey DEF Reserve, Continue, Deliveries, OnceInv, IInv, TypeOK
<1> HIDE DEF e
<1>3. /\ store[k] = "in_progress"
      /\ reserved' = reserved \cup {k}
      /\ UNCHANGED <<booked, store, restarts>>
  BY <1>0, <1>1, AtKey DEF Reserve, counters
<1>4. OnKey(t, e, k)
  BY <1>1, <1>2, <1>3 DEF OnKey
<1>5. /\ ReservedFirst'
      /\ Phases[k] = "in_progress"
      /\ Phases' = [Phases EXCEPT ![k] = "in_progress"]
  BY <1>0, <1>2, <1>3, <1>4, KeyTurns
<1>6. Phases' = Phases
  BY <1>5 DEF Phases
<1>7. Once!Hold(k)
  BY <1>3, <1>5, <1>6 DEF Once!Hold
<1> QED
  BY <1>5, <1>7 DEF Lives, Once!Next

LEMMA RollBackLives ==
  ASSUME OnceInv, IInv', NEW t \in Threads, ReserveRefused(t) \/ ReserveFails(t) \/ BookFails(t)
  PROVE  Lives(t)
<1> DEFINE e == [Emptied(delivery[t]) EXCEPT !.pc = "resave"]
<1>0. /\ ~At(t, "complete")
      /\ IsCreating(delivery[t])
      /\ RollBack(t)
  BY DEF ReserveRefused, ReserveFails, BookFails, At, IsCreating
<1>1. PICK k \in Keys : k = KeyAt(t)
  BY <1>0, AtKey
<1>2. /\ e.pc = "resave"
      /\ CallsOf[e.message][e.n] = Current(t)
      /\ delivery' = [delivery EXCEPT ![t] = e]
  BY <1>0, AtKey DEF RollBack, Emptied, Deliveries
<1> HIDE DEF e
<1>3. /\ store[k] = "in_progress"
      /\ store'[k] = "absent"
      /\ \A j \in Keys \ {k} : store'[j] = store[j]
      /\ booked' = booked
  BY <1>0, <1>1, AtKey DEF RollBack, Fail
<1>4. /\ reserved' \in {reserved, reserved \cup {k}}
      /\ restarts' = restarts
  BY <1>1 DEF ReserveRefused, ReserveFails, BookFails, Fault, counters
<1>5. OnKey(t, e, k)
  BY <1>1, <1>2, <1>3, <1>4 DEF OnKey
<1>6. /\ ReservedFirst'
      /\ Phases[k] = "in_progress"
      /\ Phases' = [Phases EXCEPT ![k] = "absent"]
  BY <1>0, <1>2, <1>3, <1>5, KeyTurns
<1>7. Once!Abandon(k)
  BY <1>3, <1>4, <1>6 DEF Once!Abandon, Once!Turn
<1> QED
  BY <1>6, <1>7 DEF Lives, Once!Next

LEMMA BookLives ==
  ASSUME OnceInv, IInv', NEW t \in Threads, Book(t)
  PROVE  Lives(t)
<1> DEFINE e == [Emptied(delivery[t]) EXCEPT !.pc = "complete"]
<1>0. /\ At(t, "book") /\ ~At(t, "complete")
      /\ IsCreating(delivery[t])
  BY DEF Book, At, IsCreating
<1>1. PICK k \in Keys : k = KeyAt(t)
  BY <1>0, AtKey
<1>2. /\ e.pc = "complete"
      /\ CallsOf[e.message][e.n] = Current(t)
      /\ delivery' = [delivery EXCEPT ![t] = e]
  BY <1>0, AtKey DEF Book, ServiceCommit, Emptied, Deliveries
<1> HIDE DEF e
<1>3. /\ store[k] = "in_progress"
      /\ k \in reserved
      /\ booked' = [booked EXCEPT ![k] = @ + 1]
      /\ UNCHANGED <<store, reserved, restarts>>
  BY <1>0, <1>1, AtKey DEF Book, counters, OnceInv, ReservedFirst
<1>4. OnKey(t, e, k)
  BY <1>1, <1>2, <1>3 DEF OnKey
<1>5. /\ ReservedFirst'
      /\ Phases[k] = "in_progress"
      /\ Phases' = [Phases EXCEPT ![k] = "acted"]
  BY <1>0, <1>2, <1>3, <1>4, KeyTurns
<1>6. Once!Act(k)
  BY <1>3, <1>5 DEF Once!Act, Once!Turn
<1> QED
  BY <1>5, <1>6 DEF Lives, Once!Next

LEMMA CompleteLives ==
  ASSUME OnceInv, IInv', NEW t \in Threads, Complete(t)
  PROVE  Lives(t)
<1> DEFINE e == [delivery[t] EXCEPT !.pc = "save"]
<1>0. /\ At(t, "complete")
      /\ IsCreating(delivery[t])
  BY DEF Complete, At, IsCreating
<1>1. PICK k \in Keys : k = KeyAt(t)
  BY <1>0, AtKey
<1>2. /\ e.pc = "save"
      /\ CallsOf[e.message][e.n] = Current(t)
      /\ delivery' = [delivery EXCEPT ![t] = e]
  BY <1>0, AtKey DEF Complete, Continue, Deliveries, OnceInv, IInv, TypeOK
<1> HIDE DEF e
<1>3. /\ store'[k] = "completed"
      /\ \A j \in Keys \ {k} : store'[j] = store[j]
      /\ UNCHANGED <<booked, reserved, restarts>>
  BY <1>0, <1>1, AtKey DEF Complete, counters
<1>4. OnKey(t, e, k)
  BY <1>1, <1>2, <1>3 DEF OnKey
<1>5. /\ ReservedFirst'
      /\ Phases[k] = "acted"
      /\ Phases' = [Phases EXCEPT ![k] = "completed"]
  BY <1>0, <1>2, <1>3, <1>4, KeyTurns
<1>6. Once!Complete(k)
  BY <1>3, <1>5 DEF Once!Complete, Once!Turn
<1> QED
  BY <1>5, <1>6 DEF Lives, Once!Next

LEMMA RestartLives ==
  ASSUME OnceInv, Restart
  PROVE  Once!Next /\ ReservedFirst'
<1>1. \A t \in Threads : delivery'[t].pc = "idle"
  BY IdleFits DEF Restart
<1>2. ReservedFirst'
  BY <1>1 DEF ReservedFirst, At
<1>3. \A k \in Keys : ~Acted(k)'
  BY <1>1 DEF Acted, At
<1>4. Phases' = [k \in Keys |-> "absent"]
  BY <1>3 DEF Phases, Restart
<1>5. Once!Crash
  BY <1>4 DEF Once!Crash, Restart
<1> QED
  BY <1>2, <1>5 DEF Once!Next

(* The actions that are about no key.                                      *)
Quietly(t) == ReservedFirst' /\ UNCHANGED Once!onceVars

LEMMA ContinuesQuietly ==
  ASSUME OnceInv, NEW t \in Threads,
         InsertCall(t) \/ EndCall(t) \/ Add(t)
  PROVE  Quietly(t)
<1>1. /\ ~At(t, "complete")
      /\ UNCHANGED <<booked, reserved, store, restarts>>
  BY DEF InsertCall, EndCall, Add, At, effects, counters
<1>2. \E pc \in {"end", "lookup", "respond", "add_commit"} : Continue(t, pc)
  BY DEF InsertCall, EndCall, Add, FirstPc
<1>3. PICK pc \in {"end", "lookup", "respond", "add_commit"} : Continue(t, pc)
  BY <1>2
<1> DEFINE e == [delivery[t] EXCEPT !.pc = pc]
<1>4. e.pc = pc /\ delivery' = [delivery EXCEPT ![t] = e]
  BY <1>3 DEF Continue, Deliveries, OnceInv, IInv, TypeOK
<1> HIDE DEF e
<1>5. e.pc \notin {"book", "complete"}
  BY <1>4
<1> QED
  BY <1>1, <1>4, <1>5, QuietOnce DEF Quietly

LEMMA SavesQuietly ==
  ASSUME OnceInv, NEW t \in Threads,
         \/ Deny(t) \/ Refuse(t) \/ Read(t) \/ CreateKnown(t) \/ Resave(t) \/ SaveSuccess(t)
  PROVE  Quietly(t)
<1>1. /\ delivery[t].pc \in {"run", "save", "resave"}
      /\ UNCHANGED <<booked, reserved, store, restarts>>
      /\ \E row \in SavedRows : Save(t, row)
  BY DEF Deny, Refuse, Read, CreateKnown, Resave, SaveSuccess, At, SavedRows, RowOfKnownKey,
         effects, counters
<1>2. PICK row \in SavedRows : Save(t, row)
  BY <1>1
<1> DEFINE e == Saved(delivery[t], Current(t), row)
<1>3. /\ delivery[t] \in Deliveries
      /\ HasCall(delivery[t])
      /\ Current(t) \in Calls
  BY <1>1, CallAtTyped
     DEF OnceInv, IInv, TypeOK, DeliveriesFit, Fits, Placed, CallPcs, Current, CallAt
<1>4. e.pc \in {"lookup", "commit"}
  BY <1>3, SavedFacts
<1>5. delivery' = [delivery EXCEPT ![t] = e]
  BY <1>2 DEF Save
<1> HIDE DEF e
<1>6. e.pc \notin {"book", "complete"} /\ ~At(t, "complete")
  BY <1>1, <1>4 DEF At
<1> QED
  BY <1>1, <1>5, <1>6, QuietOnce DEF Quietly

LEMMA LooksQuietly ==
  ASSUME OnceInv, NEW t \in Threads, Lookup(t) \/ Claim(t) \/ Verify(t)
  PROVE  Quietly(t)
<1>1. /\ delivery[t].pc \in {"lookup", "claim", "run"}
      /\ UNCHANGED <<booked, reserved, store, restarts>>
  BY DEF Lookup, Claim, Verify, At, effects, counters
<1>2. /\ delivery[t] \in Deliveries
      /\ HasCall(delivery[t])
      /\ Current(t) \in Calls
  BY <1>1, CallAtTyped
     DEF OnceInv, IInv, TypeOK, DeliveriesFit, Fits, Placed, CallPcs, Current, CallAt
<1> DEFINE d == delivery[t]
           c == Current(t)
           Moved(e) == delivery' = [delivery EXCEPT ![t] = e] /\ e.pc \notin {"book", "complete"}
<1>3. CASE Lookup(t)
  <2>1. AnswerFor(log[c]) \in Answers
    BY DEF AnswerFor, Answers, Outcomes
  <2> DEFINE answered == Answered(d, c, AnswerFor(log[c]))
             taken == [d EXCEPT !.found = log[c],
                                !.pc = IF log[c] = "absent" THEN "claim" ELSE "run"]
  <2>2. answered.pc \in {"lookup", "commit"}
    BY <1>2, <2>1, AnsweredFacts
  <2>3. taken.pc \in {"claim", "run"}
    BY <1>2 DEF Deliveries
  <2>4. Moved(answered) \/ Moved(taken)
    BY <1>3, <2>2, <2>3 DEF Lookup
  <2> HIDE DEF answered, taken
  <2> QED
    BY <1>1, <2>4, QuietOnce DEF Quietly, At
<1>4. CASE Claim(t)
  <2> DEFINE e == [d EXCEPT !.written[c] = "claimed", !.pc = "run"]
  <2>1. e.pc = "run"
    BY <1>2 DEF Deliveries
  <2>2. Moved(e)
    BY <1>4, <2>1 DEF Claim
  <2> HIDE DEF e
  <2> QED
    BY <1>1, <2>2, QuietOnce DEF Quietly, At
<1>5. CASE Verify(t)
  <2> DEFINE f == [d EXCEPT !.sessions = d.sessions \cup {c}]
             e == Saved(f, c, "success")
  <2>1. f \in Deliveries /\ HasCall(f) /\ "success" \in SavedRows
    BY <1>2 DEF Deliveries, HasCall, SavedRows
  <2>2. delivery' = [delivery EXCEPT ![t] = e]
    BY <1>5 DEF Verify
  <2> HIDE DEF f
  <2>3. e.pc \in {"lookup", "commit"}
    BY <1>2, <2>1, SavedFacts
  <2>4. Moved(e)
    BY <2>2, <2>3
  <2> HIDE DEF e
  <2> QED
    BY <1>1, <2>4, QuietOnce DEF Quietly, At
<1> QED
  BY <1>3, <1>4, <1>5

LEMMA EndsQuietly ==
  ASSUME OnceInv, NEW t \in Threads,
         \/ InsertCallConflicts(t) \/ ClaimConflicts(t) \/ ResaveConflicts(t)
         \/ CommitAddFails(t) \/ FinalCommitFails(t) \/ Respond(t) \/ ResponseLost(t)
  PROVE  Quietly(t)
<1>1. /\ ~At(t, "complete")
      /\ UNCHANGED <<booked, reserved, store, restarts>>
      /\ delivery' = [delivery EXCEPT ![t] = Idle]
  BY DEF InsertCallConflicts, ClaimConflicts, ResaveConflicts, CommitAddFails,
         FinalCommitFails, Respond, ResponseLost, At, Close, Fault, effects, counters
<1>2. Idle.pc \notin {"book", "complete"}
  BY IdleFits
<1> QED
  BY <1>1, <1>2, QuietOnce DEF Quietly

LEMMA CommitsQuietly ==
  ASSUME OnceInv, NEW t \in Threads, CommitAdd(t) \/ FinalCommit(t)
  PROVE  Quietly(t)
<1>1. /\ ~At(t, "complete")
      /\ UNCHANGED <<booked, reserved, store, restarts>>
  BY DEF CommitAdd, FinalCommit, At, effects, counters
<1>2. \E pc \in {"save", "respond"} :
        delivery' = [delivery EXCEPT ![t] = [Emptied(delivery[t]) EXCEPT !.pc = pc]]
  BY DEF CommitAdd, FinalCommit, ServiceCommit
<1>3. PICK pc \in {"save", "respond"} :
        delivery' = [delivery EXCEPT ![t] = [Emptied(delivery[t]) EXCEPT !.pc = pc]]
  BY <1>2
<1> DEFINE e == [Emptied(delivery[t]) EXCEPT !.pc = pc]
<1>4. e.pc = pc
  BY DEF Emptied, Deliveries, OnceInv, IInv, TypeOK
<1>5. delivery' = [delivery EXCEPT ![t] = e]
  BY <1>3
<1> HIDE DEF e
<1>6. e.pc \notin {"book", "complete"}
  BY <1>4
<1> QED
  BY <1>1, <1>5, <1>6, QuietOnce DEF Quietly

LEMMA DeliversQuietly ==
  ASSUME OnceInv, NEW t \in Threads, NEW m \in Messages, Deliver(t, m)
  PROVE  Quietly(t)
<1> DEFINE e == [Idle EXCEPT !.message = m, !.pc = IF call = "absent" THEN "call" ELSE FirstPc(m)]
<1>1. e.pc \notin {"book", "complete"}
  BY DEF Idle, FirstPc
<1>2. delivery' = [delivery EXCEPT ![t] = e]
  BY DEF Deliver
<1>3. /\ ~At(t, "complete")
      /\ UNCHANGED <<booked, reserved, store, restarts>>
  BY DEF Deliver, At, effects, counters
<1> HIDE DEF e
<1> QED
  BY <1>1, <1>2, <1>3, QuietOnce DEF Quietly

LEMMA OnceStep == OnceInv /\ [Next]_vars => OnceInv' /\ [Once!Next]_(Once!onceVars)
<1> SUFFICES ASSUME OnceInv, [Next]_vars
             PROVE  ReservedFirst' /\ [Once!Next]_(Once!onceVars)
  BY NextIInv DEF OnceInv
<1>1. IInv'
  BY NextIInv DEF OnceInv
<1>2. CASE UNCHANGED vars
  <2>1. ReservedFirst'
    BY <1>2 DEF vars, OnceInv, ReservedFirst, At, KeyAt, Current
  <2>2. UNCHANGED Once!onceVars
    BY <1>2 DEF vars, Once!onceVars, Phases, Acted, At, KeyAt, Current
  <2> QED
    BY <2>1, <2>2
<1>3. ASSUME NEW t \in Threads, NEW m \in Messages, Deliver(t, m)
      PROVE  Quietly(t)
  BY <1>3, DeliversQuietly
<1>4. ASSUME NEW t \in Threads, Step(t)
      PROVE  Quietly(t) \/ Lives(t)
  BY <1>1, <1>4, ContinuesQuietly, SavesQuietly, LooksQuietly, EndsQuietly, CommitsQuietly,
     CreateLives, ReserveLives, RollBackLives, BookLives, CompleteLives DEF Step, HandleCall
<1>5. CASE Restart
  BY <1>5, RestartLives
<1> QED
  BY <1>2, <1>3, <1>4, <1>5 DEF Next, Quietly, Lives

LEMMA OnceInit == Init => OnceInv /\ Once!Init
<1> SUFFICES ASSUME Init
             PROVE  ReservedFirst /\ Once!Init
  BY InitIInv DEF OnceInv
<1>1. \A t \in Threads : delivery[t].pc = "idle"
  BY IdleFits DEF Init
<1>2. Phases = [k \in Keys |-> "absent"]
  BY <1>1 DEF Phases, Acted, At, Init
<1> QED
  BY <1>1, <1>2 DEF ReservedFirst, At, Once!Init, Init

(* vapi_webhook and create_booking, with every redelivery, overlap,        *)
(* rollback, fault and crash, implement the life of an idempotency key.    *)
THEOREM KeysLiveOnce == Spec => ImplementsOncePerLife
<1>1. Spec => Once!Init /\ [][Once!Next]_(Once!onceVars)
  BY OnceInit, OnceStep, PTL DEF Spec
<1> QED
  BY <1>1 DEF ImplementsOncePerLife, Once!Spec

(* A key that has acted, in the life that is under way, has used it up.    *)
Used(k) == IF Phases[k] \in {"acted", "completed"} THEN 1 ELSE 0

ActsAreUsed ==
  /\ restarts \in Nat
  /\ booked \in [Keys -> Nat]
  /\ \A k \in Keys : booked[k] <= restarts + Used(k)

LEMMA TurnUses ==
  ASSUME ActsAreUsed, NEW k \in Keys, NEW from, NEW to, Once!Turn(k, from, to),
         booked' = booked, from \in {"acted", "completed"} => to \in {"acted", "completed"}
  PROVE  ActsAreUsed'
<1>1. \A l \in Keys \ {k} : Phases'[l] = Phases[l]
  BY DEF Once!Turn
<1>2. Used(k)' >= Used(k)
  BY DEF Once!Turn, Used
<1> QED
  BY <1>1, <1>2 DEF ActsAreUsed, Once!Turn, Used

(* The life of a key, with no ToolCalls in sight, already keeps it from    *)
(* booking twice: KeysLiveOnce has OneBookingPerLife as a consequence.     *)
THEOREM LifeActsOnce == Once!Spec => []BookedOncePerLife
<1>1. Once!Init => ActsAreUsed
  BY DEF Once!Init, ActsAreUsed, Used
<1>2. ASSUME ActsAreUsed, [Once!Next]_(Once!onceVars)
      PROVE  ActsAreUsed'
  <2>1. CASE UNCHANGED Once!onceVars
    BY <1>2, <2>1 DEF Once!onceVars, ActsAreUsed, Used
  <2>2. CASE Once!Crash
    BY <1>2, <2>2 DEF Once!Crash, ActsAreUsed, Used
  <2>3. ASSUME NEW k \in Keys, Once!Begin(k) \/ Once!Complete(k) \/ Once!Abandon(k)
        PROVE  ActsAreUsed'
    BY <1>2, <2>3, TurnUses DEF Once!Begin, Once!Complete, Once!Abandon
  <2>4. ASSUME NEW k \in Keys, Once!Hold(k)
        PROVE  ActsAreUsed'
    BY <1>2, <2>4 DEF Once!Hold, ActsAreUsed, Used
  <2>5. ASSUME NEW k \in Keys, Once!Act(k)
        PROVE  ActsAreUsed'
    <3>1. \A l \in Keys \ {k} : Used(l)' = Used(l) /\ booked'[l] = booked[l]
      BY <1>2, <2>5 DEF Once!Act, Once!Turn, Used, ActsAreUsed
    <3>2. DOMAIN Phases = Keys
      BY DEF Phases
    <3>3. Used(k) = 0 /\ Used(k)' = 1 /\ booked'[k] = booked[k] + 1
      BY <1>2, <2>5, <3>2 DEF Once!Act, Once!Turn, Used, ActsAreUsed
    <3> QED
      BY <1>2, <2>5, <3>1, <3>3 DEF Once!Act, Once!Turn, ActsAreUsed
  <2> QED
    BY <1>2, <2>1, <2>2, <2>3, <2>4, <2>5 DEF Once!Next
<1>3. ActsAreUsed => BookedOncePerLife
  BY DEF ActsAreUsed, Used, BookedOncePerLife
<1> QED
  BY <1>1, <1>2, <1>3, PTL DEF Once!Spec
=============================================================================
