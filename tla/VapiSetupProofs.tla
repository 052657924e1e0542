-------------------------- MODULE VapiSetupProofs --------------------------
(***************************************************************************)
(* Proofs about the setup script: for every registry, every number of      *)
(* people, and every number of runs and faults.                            *)
(*                                                                         *)
(* The argument.  A tool is never removed and never changes its name, so   *)
(* what a run has learned of the account stays true, whatever other runs   *)
(* do: an assistant that was complete stays complete.  A run that nobody   *)
(* overlaps also knows all there is: a name it found no tool of has none   *)
(* until the run itself creates it, and the registry names no tool twice.  *)
(***************************************************************************)
EXTENDS VapiSetup, TLAPS

AllNames == Names \cup {Transfer}

-----------------------------------------------------------------------------
(* The inductive invariant behind the properties.                          *)

Busy == {r \in Runners : run[r] # Idle}

(* While no two runs have overlapped, at most one is in progress.          *)
OneRun == ~overlapped => \A r, q \in Busy : r = q

(* The ids a run has: of the names it has listed and of the entries it has *)
(* applied.                                                                *)
Applied(r) == {Entries(run[r].config)[i] : i \in 1..(run[r].next - 1)}

RunFits(r) ==
  /\ \A name \in Names \cup {Transfer} :
       run[r].existing[name] # None => run[r].existing[name] \in Existing(name)
  /\ \A id \in run[r].ids : tools[id] # None
  /\ run[r].at = "list" => run[r].ids = {} /\ run[r].next = 1
  /\ run[r].at = "apply" =>
       /\ run[r].next <= Len(Entries(run[r].config))
       /\ Applied(r) \subseteq NamesOf(run[r].ids)
  /\ run[r].at \in {"assistant", "phone"} => Names \subseteq NamesOf(run[r].ids)
  /\ run[r].at = "phone" => run[r].target \in Live

RunsFit == \A r \in Busy : RunFits(r)

(* A run that nobody overlaps knows every tool, and has configured all it  *)
(* has touched.                                                            *)
RunKnows(r) ==
  /\ run[r].at = "apply" =>
       \A name \in Names \cup {Transfer} :
         run[r].existing[name] = None => Existing(name) = {} \/ name \in Applied(r)
  /\ \A id \in run[r].ids : tools[id].config = run[r].config
  /\ run[r].at = "phone" => assistants[run[r].target]
                              = [toolIds |-> run[r].ids, config |-> run[r].config]

RunsKnow == ~overlapped => \A r \in Busy : RunKnows(r)

IInv ==
  /\ TypeOK
  /\ OneRun
  /\ RunsFit
  /\ RunsKnow
  /\ NoDuplicateTools
  /\ AssistantsAreComplete

-----------------------------------------------------------------------------
(* The plan.                                                               *)

LEMMA EntriesFacts ==
  ASSUME NEW config \in Configs
  PROVE  /\ Len(Entries(config)) \in Nat /\ 1 <= Len(Entries(config))
         /\ Len(Entries(config)) <= Len(Schemas) + 1
         /\ \A i \in 1..Len(Entries(config)) : Entries(config)[i] \in AllNames
         /\ \A i, j \in 1..Len(Entries(config)) :
              Entries(config)[i] = Entries(config)[j] => i = j
         /\ \A name \in Names : \E i \in 1..Len(Entries(config)) :
              Entries(config)[i] = name
<1>1. /\ Schemas \in Seq(STRING)
      /\ Len(Schemas) \in Nat /\ 1 <= Len(Schemas)
      /\ DOMAIN Schemas = 1..Len(Schemas)
      /\ \A i, j \in DOMAIN Schemas : Schemas[i] = Schemas[j] => i = j
      /\ Transfer \notin Names
  BY SetupAssumption
<1>2. CASE config \in Transferring
  <2>1. /\ Len(Entries(config)) = Len(Schemas) + 1
        /\ \A i \in 1..Len(Schemas) : Entries(config)[i] = Schemas[i]
        /\ Entries(config)[Len(Schemas) + 1] = Transfer
    BY <1>1, <1>2 DEF Entries, Transfer
  <2> QED
    BY <1>1, <2>1 DEF AllNames, Names, Range
<1>3. CASE config \notin Transferring
  <2>1. Entries(config) = Schemas
    BY <1>3 DEF Entries
  <2> QED
    BY <1>1, <2>1 DEF AllNames, Names, Range
<1> QED
  BY <1>2, <1>3

LEMMA IdleIsNoRun == \A state \in RunStates : state # Idle /\ state.at # "idle"
BY DEF RunStates, Idle

LEMMA NewIds ==
  /\ (\E id \in ToolIds : tools[id] = None) =>
       NewTool \in ToolIds /\ tools[NewTool] = None
  /\ (\E id \in AssistantIds : assistants[id] = None) =>
       NewAssistant \in AssistantIds /\ assistants[NewAssistant] = None
BY DEF NewTool, NewAssistant

-----------------------------------------------------------------------------
(* The account only grows.                                                 *)

Grows ==
  /\ \A id \in ToolIds : tools[id] # None =>
       tools'[id] # None /\ tools'[id].name = tools[id].name
  /\ Live \subseteq Live'

LEMMA PutFacts ==
  ASSUME TypeOK, NEW id \in ToolIds, NEW name \in AllNames, NEW config \in Configs,
         tools[id] # None => tools[id].name = name,
         tools' = Put(id, name, config)
  PROVE  /\ tools' \in [ToolIds -> Tools \cup {None}]
         /\ tools'[id] # None /\ tools'[id].name = name /\ tools'[id].config = config
         /\ \A other \in ToolIds : other # id => tools'[other] = tools[other]
         /\ \A other \in ToolIds : tools[other] # None =>
              tools'[other] # None /\ tools'[other].name = tools[other].name
<1>1. [name |-> name, config |-> config] \in Tools
  BY DEF Tools, AllNames
<1>2. [name |-> name, config |-> config] # None
  BY <1>1, NoneAssumption
<1>3. tools \in [ToolIds -> Tools \cup {None}]
  BY DEF TypeOK
<1>4. /\ tools'[id] = [name |-> name, config |-> config]
      /\ \A other \in ToolIds : other # id => tools'[other] = tools[other]
      /\ tools' \in [ToolIds -> Tools \cup {None}]
  BY <1>1, <1>3 DEF Put
<1> QED
  BY <1>2, <1>4

(* Whatever grows keeps what the runs and the assistants rely on.          *)
LEMMA GrowthKeepsNames ==
  ASSUME TypeOK, Grows, NEW ids \in SUBSET ToolIds,
         \A id \in ids : tools[id] # None
  PROVE  /\ \A id \in ids : tools'[id] # None
         /\ NamesOf(ids)' = NamesOf(ids)
BY DEF Grows, NamesOf

LEMMA GrowthKeepsRuns ==
  ASSUME TypeOK, Grows, NEW r \in Runners, run[r] # Idle, run'[r] = run[r], RunFits(r)
  PROVE  RunFits(r)'
<1>1. run[r] \in RunStates
  BY DEF TypeOK
<1>2. /\ run[r].ids \in SUBSET ToolIds
      /\ \A id \in run[r].ids : tools[id] # None
  BY <1>1 DEF RunStates, RunFits
<1>3. /\ \A id \in run[r].ids : tools'[id] # None
      /\ NamesOf(run[r].ids)' = NamesOf(run[r].ids')
      /\ {tools'[id].name : id \in run[r].ids} = NamesOf(run[r].ids)
  BY <1>2, Grows DEF Grows, NamesOf
<1>4. Applied(r)' = Applied(r)
  BY DEF Applied
<1>5. \A name \in AllNames : \A id \in Existing(name) : id \in Existing(name)'
  BY DEF Grows, Existing
<1>6. NamesOf(run[r].ids)' = NamesOf(run[r].ids)
  BY <1>3 DEF NamesOf
<1>7. \A name \in Names \cup {Transfer} :
        run'[r].existing[name] # None => run'[r].existing[name] \in Existing(name)'
  BY <1>5 DEF RunFits, AllNames
<1>8. run'[r].at = "phone" => run'[r].target \in Live'
  BY DEF RunFits, Grows
<1> QED
  BY <1>3, <1>4, <1>6, <1>7, <1>8 DEF RunFits

-----------------------------------------------------------------------------
(* Steps that end a run or leave the account alone.                        *)

(* The parts of the invariant about runs, as they follow when only the     *)
(* run of r changes.                                                       *)
LEMMA OneRunKept ==
  ASSUME TypeOK, OneRun, NEW r \in Runners, run[r] # Idle, overlapped' = overlapped,
         \A q \in Runners : q # r => run'[q] = run[q]
  PROVE  OneRun'
BY DEF OneRun, Busy

LEMMA OthersAbsent ==
  ASSUME OneRun, ~overlapped, NEW r \in Runners, run[r] # Idle
  PROVE  \A q \in Runners : q # r => run[q] = Idle
BY DEF OneRun, Busy

LEMMA RunsFitKept ==
  ASSUME TypeOK, RunsFit, Grows, NEW r \in Runners,
         \A q \in Runners : q # r => run'[q] = run[q],
         run'[r] = Idle \/ RunFits(r)'
  PROVE  RunsFit'
<1>1. ASSUME NEW q \in Runners, run'[q] # Idle
      PROVE  RunFits(q)'
  <2>1. CASE q = r
    BY <1>1, <2>1
  <2>2. CASE q # r
    <3>1. run'[q] = run[q] /\ run[q] # Idle
      BY <1>1, <2>2
    <3>2. RunFits(q)
      BY <3>1 DEF RunsFit, Busy
    <3> QED
      BY <3>1, <3>2, GrowthKeepsRuns
  <2> QED
    BY <2>1, <2>2
<1> QED
  BY <1>1 DEF RunsFit, Busy

LEMMA RunsKnowKept ==
  ASSUME OneRun, NEW r \in Runners, run[r] # Idle, overlapped' = overlapped,
         \A q \in Runners : q # r => run'[q] = run[q],
         run'[r] = Idle \/ (~overlapped => RunKnows(r)')
  PROVE  RunsKnow'
<1>1. ASSUME ~overlapped, NEW q \in Runners, run'[q] # Idle
      PROVE  RunKnows(q)'
  <2>1. q = r
    BY <1>1, OthersAbsent
  <2> QED
    BY <1>1, <2>1
<1> QED
  BY <1>1 DEF RunsKnow, Busy

(* An assistant that is complete stays so while the account grows.         *)
LEMMA CompleteKept ==
  ASSUME TypeOK, Grows, AssistantsAreComplete, assistants' = assistants, phone' = phone
  PROVE  AssistantsAreComplete'
<1>1. ASSUME NEW id \in AssistantIds, assistants[id] # None
      PROVE  /\ assistants[id].toolIds \in SUBSET ToolIds
             /\ \A tool \in assistants[id].toolIds : tools[tool] # None
             /\ Names \subseteq NamesOf(assistants[id].toolIds)
  BY <1>1 DEF TypeOK, Assistants, AssistantsAreComplete, Live
<1>2. ASSUME NEW id \in AssistantIds, assistants[id] # None
      PROVE  /\ \A tool \in assistants[id].toolIds : tools'[tool] # None
             /\ Names \subseteq {tools'[tool].name : tool \in assistants[id].toolIds}
  <2>1. /\ \A tool \in assistants[id].toolIds : tools'[tool] # None
        /\ \A tool \in assistants[id].toolIds : tools'[tool].name = tools[tool].name
    BY <1>1, <1>2 DEF Grows
  <2> QED
    BY <1>1, <1>2, <2>1 DEF NamesOf
<1>3. phone' # None => phone' \in Live'
  BY DEF AssistantsAreComplete, Live
<1> QED
  BY <1>2, <1>3 DEF AssistantsAreComplete, Live, NamesOf

-----------------------------------------------------------------------------
(* The invariant.                                                          *)

LEMMA InitInv == Init => IInv
<1> SUFFICES ASSUME Init PROVE IInv
  OBVIOUS
<1>1. TypeOK
  <2>1. MaxRuns \in Nat /\ MaxFaults \in Nat
    BY SetupAssumption
  <2>2. runs \in 0..MaxRuns /\ faults \in 0..MaxFaults
    BY <2>1 DEF Init
  <2> QED
    BY <2>2 DEF Init, TypeOK
<1>2. Busy = {} /\ Live = {} /\ \A name \in AllNames : Existing(name) = {}
  BY DEF Init, Busy, Live, Existing
<1> QED
  BY <1>1, <1>2 DEF IInv, OneRun, RunsFit, RunsKnow, NoDuplicateTools,
     AssistantsAreComplete, AllNames, Init

LEMMA StutterInv == IInv /\ UNCHANGED vars => IInv'
<1> SUFFICES ASSUME IInv, UNCHANGED vars PROVE IInv'
  OBVIOUS
<1>1. /\ tools' = tools /\ assistants' = assistants /\ phone' = phone /\ env' = env
      /\ run' = run /\ created' = created /\ overlapped' = overlapped
      /\ runs' = runs /\ faults' = faults
  BY DEF vars, account
<1>2. TypeOK'
  BY <1>1 DEF IInv, TypeOK
<1>3. OneRun'
  BY <1>1 DEF IInv, OneRun, Busy
<1>4. RunsFit'
  <2>1. Grows
    BY <1>1 DEF Grows, Live
  <2>2. ASSUME NEW r \in Runners, run[r] # Idle
        PROVE  RunFits(r)'
    BY <1>1, <2>1, <2>2, GrowthKeepsRuns DEF IInv, RunsFit, Busy
  <2> QED
    BY <1>1, <2>2 DEF RunsFit, Busy
<1>5. RunsKnow'
  <2>1. ASSUME NEW r \in Runners
        PROVE  RunKnows(r) => RunKnows(r)'
    BY <1>1 DEF RunKnows, Existing, Applied
  <2> QED
    BY <1>1, <2>1 DEF IInv, RunsKnow, Busy
<1>6. NoDuplicateTools'
  BY <1>1 DEF IInv, NoDuplicateTools, Existing
<1>7. AssistantsAreComplete'
  BY <1>1 DEF IInv, AssistantsAreComplete, Live, NamesOf
<1> QED
  BY <1>2, <1>3, <1>4, <1>5, <1>6, <1>7 DEF IInv

-----------------------------------------------------------------------------
(* Steps that leave the account alone.                                     *)

LEMMA SameAccount ==
  ASSUME IInv, NEW r \in Runners, UNCHANGED account, TypeOK', OneRun',
         overlapped => overlapped',
         \A q \in Runners : q # r => run'[q] = run[q],
         run'[r] = Idle \/ RunFits(r)',
         RunsKnow'
  PROVE  IInv'
<1>1. tools' = tools /\ assistants' = assistants /\ phone' = phone
  BY DEF account
<1>2. Grows
  BY <1>1 DEF Grows, Live
<1>3. RunsFit'
  BY <1>2, RunsFitKept DEF IInv
<1>4. AssistantsAreComplete'
  BY <1>1, <1>2, CompleteKept DEF IInv
<1>5. NoDuplicateTools'
  BY <1>1 DEF IInv, NoDuplicateTools, Existing
<1> QED
  BY <1>3, <1>4, <1>5 DEF IInv

LEMMA StartInv ==
  ASSUME IInv, NEW r \in Runners, NEW config \in Configs, Start(r, config)
  PROVE  IInv'
<1> DEFINE begun == [at |-> "list", config |-> config, target |-> env,
                     existing |-> [name \in Names \cup {Transfer} |-> None],
                     next |-> 1, ids |-> {}]
<1>1. TypeOK
  BY DEF IInv
<1>2. begun \in RunStates
  <2>1. 1 \in 1..Len(Schemas) + 1
    BY SetupAssumption
  <2> QED
    BY <1>1, <2>1 DEF TypeOK, RunStates
<1>3. /\ run[r] = Idle
      /\ run' = [run EXCEPT ![r] = begun]
      /\ overlapped' = (overlapped \/ \E q \in Runners : run[q] # Idle)
      /\ runs < MaxRuns /\ runs' = runs + 1
      /\ UNCHANGED <<tools, assistants, phone, env, created, faults>>
  BY DEF Start, account
<1> HIDE DEF begun
<1>4. /\ run'[r] = begun
      /\ \A q \in Runners : q # r => run'[q] = run[q]
      /\ run' \in [Runners -> RunStates \cup {Idle}]
  BY <1>1, <1>2, <1>3 DEF TypeOK
<1>5. TypeOK'
  <2>1. runs' \in 0..MaxRuns
    BY <1>1, <1>3, SetupAssumption DEF TypeOK
  <2>2. overlapped' \in BOOLEAN
    BY <1>1, <1>3 DEF TypeOK
  <2> QED
    BY <1>1, <1>3, <1>4, <2>1, <2>2 DEF TypeOK
<1>6. OneRun'
  BY <1>3, <1>4 DEF OneRun, Busy, IInv
<1>7. RunFits(r)'
  <2>1. /\ run'[r].at = "list" /\ run'[r].ids = {} /\ run'[r].next = 1
        /\ \A name \in Names \cup {Transfer} : run'[r].existing[name] = None
    BY <1>4 DEF begun
  <2> QED
    BY <2>1 DEF RunFits
<1>8. RunKnows(r)'
  BY <1>4 DEF RunKnows, begun
<1>9. RunsKnow'
  BY <1>3, <1>4, <1>8 DEF RunsKnow, Busy, IInv
<1>10. UNCHANGED account /\ (overlapped => overlapped')
  BY <1>3 DEF account
<1> QED
  BY <1>4, <1>5, <1>6, <1>7, <1>9, <1>10, SameAccount

(* A run that ends, and nothing else.                                      *)
LEMMA EndInv ==
  ASSUME IInv, NEW r \in Runners, run[r] # Idle, run' = [run EXCEPT ![r] = Idle],
         TypeOK', overlapped' = overlapped, UNCHANGED account
  PROVE  IInv'
<1>1. TypeOK
  BY DEF IInv
<1>2. /\ run'[r] = Idle
      /\ \A q \in Runners : q # r => run'[q] = run[q]
  BY <1>1 DEF TypeOK
<1>3. OneRun'
  BY <1>1, <1>2, OneRunKept DEF IInv
<1>4. RunsKnow'
  BY <1>2, RunsKnowKept DEF IInv
<1> QED
  BY <1>2, <1>3, <1>4, SameAccount

LEMMA ListInv ==
  ASSUME IInv, NEW r \in Runners, List(r)
  PROVE  IInv'
<1>1. TypeOK
  BY DEF IInv
<1>2. run[r] # Idle
  BY DEF List, Idle
<1>3. run[r] \in RunStates /\ run[r].at = "list"
  BY <1>1, <1>2 DEF TypeOK, List
<1>4. UNCHANGED <<tools, assistants, phone, env, created, overlapped, runs, faults>>
  BY DEF List, account
<1>5. UNCHANGED account
  BY <1>4 DEF account
<1>6. CASE Ambiguous(run[r].config)
  <2>1. run' = [run EXCEPT ![r] = Idle]
    BY <1>6 DEF List
  <2>2. TypeOK'
    BY <1>1, <1>4, <2>1 DEF TypeOK
  <2> QED
    BY <1>2, <1>4, <1>5, <2>1, <2>2, EndInv
<1>7. ASSUME NEW existing \in [Names \cup {Transfer} -> ToolIds \cup {None}],
             IndexExistingTools(existing),
             run' = [run EXCEPT ![r].at = "apply", ![r].existing = existing]
      PROVE  IInv'
  <2> DEFINE listed == [run[r] EXCEPT !.at = "apply", !.existing = existing]
  <2>1. /\ run' = [run EXCEPT ![r] = listed]
        /\ listed \in RunStates
        /\ listed.at = "apply" /\ listed.existing = existing
        /\ listed.ids = run[r].ids /\ listed.next = run[r].next
        /\ listed.config = run[r].config
    BY <1>1, <1>3, <1>7 DEF TypeOK, RunStates
  <2> HIDE DEF listed
  <2>2. /\ run'[r] = listed
        /\ \A q \in Runners : q # r => run'[q] = run[q]
        /\ run' \in [Runners -> RunStates \cup {Idle}]
    BY <1>1, <2>1 DEF TypeOK
  <2>3. TypeOK'
    BY <1>1, <1>4, <2>2 DEF TypeOK
  <2>4. OneRun'
    BY <1>1, <1>2, <1>4, <2>2, OneRunKept DEF IInv
  <2>5. run[r].ids = {} /\ run[r].next = 1
    BY <1>2, <1>3 DEF IInv, RunsFit, RunFits, Busy
  <2>6. /\ \A name \in Names \cup {Transfer} :
             existing[name] # None => existing[name] \in Existing(name)
        /\ \A name \in Names \cup {Transfer} :
             existing[name] = None => Existing(name) = {}
    BY <1>7, SetupAssumption DEF IndexExistingTools, Existing
  <2>7. RunFits(r)'
    <3>1. run[r].config \in Configs
      BY <1>3 DEF RunStates
    <3>2. 1 <= Len(Entries(run[r].config))
      BY <3>1, EntriesFacts
    <3>3. Applied(r)' = {}
      BY <2>1, <2>2, <2>5 DEF Applied
    <3>4. \A name \in Names \cup {Transfer} : Existing(name)' = Existing(name)
      BY <1>4 DEF Existing
    <3> QED
      BY <2>1, <2>2, <2>5, <2>6, <3>2, <3>3, <3>4 DEF RunFits
  <2>8. RunKnows(r)'
    <3>1. \A name \in Names \cup {Transfer} : Existing(name)' = Existing(name)
      BY <1>4 DEF Existing
    <3> QED
      BY <2>1, <2>2, <2>5, <2>6, <3>1 DEF RunKnows
  <2>9. RunsKnow'
    BY <1>2, <1>4, <2>2, <2>8, RunsKnowKept DEF IInv
  <2> QED
    BY <1>4, <1>5, <2>2, <2>3, <2>4, <2>7, <2>9, SameAccount
<1> QED
  BY <1>6, <1>7 DEF List

LEMMA ListFailsInv ==
  ASSUME IInv, NEW r \in Runners, ListFails(r)
  PROVE  IInv'
<1>1. /\ run[r] # Idle
      /\ run' = [run EXCEPT ![r] = Idle]
      /\ faults < MaxFaults /\ faults' = faults + 1
      /\ UNCHANGED <<tools, assistants, phone, env, created, overlapped, runs>>
  BY DEF ListFails, RequestFails, account, Idle
<1>2. TypeOK'
  <2>1. TypeOK /\ faults' \in 0..MaxFaults
    BY <1>1, SetupAssumption DEF IInv, TypeOK
  <2> QED
    BY <1>1, <2>1 DEF TypeOK
<1> QED
  BY <1>1, <1>2, EndInv DEF account

-----------------------------------------------------------------------------
(* Applying an entry of the plan.                                          *)

EntryName(r) == Entries(run[r].config)[run[r].next]

(* The tool an entry is put into has the entry's name or is new; and when  *)
(* nobody overlaps the run, no other tool has the name.                    *)
LEMMA EntryFacts ==
  ASSUME IInv, NEW r \in Runners, Applying(r)
  PROVE  /\ run[r] \in RunStates /\ run[r].at = "apply"
         /\ run[r].next \in 1..Len(Entries(run[r].config))
         /\ EntryName(r) \in AllNames
         /\ EntryId(r) \in ToolIds
         /\ tools[EntryId(r)] # None => tools[EntryId(r)].name = EntryName(r)
         /\ ~overlapped => \A id \in Existing(EntryName(r)) : id = EntryId(r)
<1>1. run[r] \in RunStates /\ run[r].at = "apply" /\ r \in Busy
  BY DEF IInv, TypeOK, Applying, Idle, Busy
<1>2. run[r].config \in Configs /\ run[r].next \in Nat /\ 1 <= run[r].next
  BY <1>1, SetupAssumption DEF RunStates
<1>3. run[r].next \in 1..Len(Entries(run[r].config))
  BY <1>2, EntriesFacts DEF Applying
<1>4. EntryName(r) \in AllNames
  BY <1>2, <1>3, EntriesFacts DEF EntryName
<1>5. RunFits(r)
  BY <1>1 DEF IInv, RunsFit
<1>6. CASE run[r].existing[EntryName(r)] # None
  <2>1. EntryId(r) = run[r].existing[EntryName(r)]
    BY <1>6 DEF EntryId, EntryName
  <2>2. EntryId(r) \in Existing(EntryName(r))
    BY <1>4, <1>5, <1>6, <2>1 DEF RunFits, AllNames
  <2>3. ~overlapped => \A id \in Existing(EntryName(r)) : id = EntryId(r)
    BY <1>4, <2>2 DEF IInv, NoDuplicateTools, Existing, AllNames
  <2> QED
    BY <1>1, <1>3, <1>4, <2>2, <2>3 DEF Existing
<1>7. CASE run[r].existing[EntryName(r)] = None
  <2>1. EntryId(r) \in ToolIds /\ tools[EntryId(r)] = None
    BY <1>7, NewIds DEF EntryId, EntryName, Applying
  <2>2. ~overlapped => Existing(EntryName(r)) = {}
    <3>1. EntryName(r) \notin Applied(r)
      BY <1>2, <1>3, EntriesFacts DEF Applied, EntryName
    <3>2. ~overlapped => RunKnows(r)
      BY <1>1 DEF IInv, RunsKnow
    <3> QED
      BY <1>1, <1>4, <1>7, <3>1, <3>2 DEF RunKnows, AllNames
  <2> QED
    BY <1>1, <1>3, <1>4, <2>1, <2>2
<1> QED
  BY <1>6, <1>7

(* What the update or the create does to the account.                      *)
LEMMA UpsertFacts ==
  ASSUME IInv, NEW r \in Runners, Applying(r), Upsert(r, EntryId(r)),
         UNCHANGED <<assistants, phone>>, overlapped' = overlapped
  PROVE  /\ tools' \in [ToolIds -> Tools \cup {None}]
         /\ tools'[EntryId(r)] # None
         /\ tools'[EntryId(r)].name = EntryName(r)
         /\ tools'[EntryId(r)].config = run[r].config
         /\ \A id \in ToolIds : id # EntryId(r) => tools'[id] = tools[id]
         /\ Grows
         /\ NoDuplicateTools'
<1> DEFINE id == EntryId(r)
           name == EntryName(r)
<1>1. /\ run[r] \in RunStates /\ id \in ToolIds /\ name \in AllNames
      /\ tools[id] # None => tools[id].name = name
      /\ ~overlapped => \A other \in Existing(name) : other = id
  BY EntryFacts
<1>2. run[r].config \in Configs
  BY <1>1 DEF RunStates
<1>3. tools' = Put(id, name, run[r].config)
  BY DEF Upsert, EntryName
<1>4. TypeOK
  BY DEF IInv
<1> HIDE DEF id, name
<1>5. /\ tools' \in [ToolIds -> Tools \cup {None}]
      /\ tools'[id] # None /\ tools'[id].name = name
      /\ tools'[id].config = run[r].config
      /\ \A other \in ToolIds : other # id => tools'[other] = tools[other]
      /\ \A other \in ToolIds : tools[other] # None =>
           tools'[other] # None /\ tools'[other].name = tools[other].name
  BY <1>1, <1>2, <1>3, <1>4, PutFacts
<1>6. Grows
  BY <1>5 DEF Grows, Live
<1>7. NoDuplicateTools'
  <2> SUFFICES ASSUME ~overlapped, NEW n \in AllNames,
                      NEW one \in ToolIds, NEW other \in ToolIds,
                      tools'[one] # None, tools'[one].name = n,
                      tools'[other] # None, tools'[other].name = n
               PROVE  one = other
    BY DEF NoDuplicateTools, Existing, AllNames
  <2>1. CASE n = name
    <3>1. \A x \in ToolIds : tools'[x] # None /\ tools'[x].name = name => x = id
      BY <1>1, <1>5 DEF Existing
    <3> QED
      BY <2>1, <3>1
  <2>2. CASE n # name
    <3>1. one # id /\ other # id
      BY <1>5, <2>2
    <3>2. one \in Existing(n) /\ other \in Existing(n)
      BY <1>5, <3>1 DEF Existing
    <3> QED
      BY <3>2 DEF IInv, NoDuplicateTools, AllNames
  <2> QED
    BY <2>1, <2>2
<1> QED
  BY <1>5, <1>6, <1>7 DEF id, name

LEMMA ApplyEntryInv ==
  ASSUME IInv, NEW r \in Runners, ApplyEntry(r)
  PROVE  IInv'
<1> DEFINE last == Len(Entries(run[r].config))
           step == [run[r] EXCEPT !.ids = Collect(r),
                                  !.next = IF @ < last THEN @ + 1 ELSE @,
                                  !.at = IF run[r].next < last THEN @ ELSE "assistant"]
<1>1. TypeOK /\ Applying(r)
  BY DEF IInv, ApplyEntry
<1>2. /\ run[r] \in RunStates /\ run[r].at = "apply"
      /\ run[r].next \in 1..last
      /\ EntryName(r) \in AllNames
      /\ EntryId(r) \in ToolIds
      /\ ~overlapped => \A id \in Existing(EntryName(r)) : id = EntryId(r)
  BY <1>1, EntryFacts
<1>3. UNCHANGED <<assistants, phone, env, created, overlapped, runs, faults>>
  BY DEF ApplyEntry
<1>4. /\ tools' \in [ToolIds -> Tools \cup {None}]
      /\ tools'[EntryId(r)] # None
      /\ tools'[EntryId(r)].name = EntryName(r)
      /\ tools'[EntryId(r)].config = run[r].config
      /\ \A id \in ToolIds : id # EntryId(r) => tools'[id] = tools[id]
      /\ Grows
      /\ NoDuplicateTools'
  BY <1>1, <1>3, UpsertFacts DEF ApplyEntry
<1>5. /\ run[r].config \in Configs /\ last \in Nat /\ last <= Len(Schemas) + 1
      /\ Len(Schemas) \in Nat
      /\ \A name \in Names : \E i \in 1..last : Entries(run[r].config)[i] = name
  BY <1>2, EntriesFacts, SetupAssumption DEF RunStates
<1>6. run' = [run EXCEPT ![r] = step]
  BY DEF ApplyEntry
<1>7. /\ step \in RunStates
      /\ step.ids = run[r].ids \cup {EntryId(r)}
      /\ step.existing = run[r].existing /\ step.config = run[r].config
      /\ step.target = run[r].target
      /\ IF run[r].next < last THEN step.at = "apply" /\ step.next = run[r].next + 1
                               ELSE step.at = "assistant"
  <2>1. run[r].ids \cup {EntryId(r)} \in SUBSET ToolIds
    BY <1>2 DEF RunStates
  <2>2. (IF run[r].next < last THEN run[r].next + 1 ELSE run[r].next)
          \in 1..Len(Schemas) + 1
    BY <1>2, <1>5
  <2> QED
    BY <1>2, <2>1, <2>2 DEF RunStates, Collect
<1> HIDE DEF step
<1>8. /\ run'[r] = step
      /\ \A q \in Runners : q # r => run'[q] = run[q]
      /\ run' \in [Runners -> RunStates \cup {Idle}]
  BY <1>1, <1>6, <1>7 DEF TypeOK
<1>9. run[r] # Idle
  BY <1>2, IdleIsNoRun
<1>10. TypeOK'
  BY <1>1, <1>3, <1>4, <1>8 DEF TypeOK
<1>11. OneRun'
  BY <1>1, <1>3, <1>8, <1>9, OneRunKept DEF IInv
<1>12. RunFits(r) /\ (~overlapped => RunKnows(r))
  BY <1>9 DEF IInv, RunsFit, RunsKnow, Busy
<1>13. \A n \in 1..run[r].next :
         Entries(run[r].config)[n] \in {tools'[id].name : id \in step.ids}
  <2>1. Entries(run[r].config)[run[r].next] = tools'[EntryId(r)].name
    BY <1>4 DEF EntryName
  <2>2. ASSUME NEW n \in 1..(run[r].next - 1)
        PROVE  \E id \in run[r].ids : tools'[id].name = Entries(run[r].config)[n]
    <3>1. Entries(run[r].config)[n] \in NamesOf(run[r].ids)
      BY <1>2, <1>12 DEF RunFits, Applied
    <3>2. PICK id \in run[r].ids : tools[id].name = Entries(run[r].config)[n]
      BY <3>1 DEF NamesOf
    <3>3. id \in ToolIds /\ tools[id] # None
      BY <1>2, <1>12, <3>2 DEF RunFits, RunStates
    <3> QED
      BY <1>4, <3>2, <3>3 DEF Grows
  <2>3. \A n \in 1..run[r].next : n = run[r].next \/ n \in 1..(run[r].next - 1)
    BY <1>2, <1>5
  <2> QED
    BY <1>7, <2>1, <2>2, <2>3
<1>14. \A id \in step.ids : tools'[id] # None
  <2>1. \A id \in run[r].ids : id \in ToolIds /\ tools[id] # None
    BY <1>2, <1>12 DEF RunFits, RunStates
  <2> QED
    BY <1>4, <1>7, <2>1 DEF Grows
<1>15. RunFits(r)'
  <2>1. \A name \in Names \cup {Transfer} :
          step.existing[name] # None => step.existing[name] \in Existing(name)'
    <3>1. \A name \in Names \cup {Transfer} :
            Existing(name) \subseteq Existing(name)'
      BY <1>4 DEF Grows, Existing
    <3> QED
      BY <1>7, <1>12, <3>1 DEF RunFits
  <2>2. CASE run[r].next < last
    <3>1. step.at = "apply" /\ step.next = run[r].next + 1 /\ step.next <= last
      BY <1>2, <1>5, <1>7, <2>2
    <3>2. Applied(r)' = {Entries(run[r].config)[i] : i \in 1..(step.next - 1)}
      BY <1>7, <1>8 DEF Applied
    <3>3. step.next - 1 = run[r].next
      BY <1>2, <1>5, <3>1
    <3>4. Applied(r)' \subseteq {tools'[id].name : id \in step.ids}
      BY <1>13, <3>2, <3>3
    <3>5. NamesOf(run[r].ids)' = {tools'[id].name : id \in step.ids}
      BY <1>8 DEF NamesOf
    <3>6. Len(Entries(run'[r].config)) = last
      BY <1>7, <1>8
    <3> QED
      BY <1>8, <1>14, <2>1, <3>1, <3>4, <3>5, <3>6 DEF RunFits
  <2>3. CASE ~(run[r].next < last)
    <3>1. step.at = "assistant" /\ run[r].next = last
      BY <1>2, <1>5, <1>7, <2>3
    <3>2. Names \subseteq {tools'[id].name : id \in step.ids}
      BY <1>5, <1>13, <3>1
    <3>3. NamesOf(run[r].ids)' = {tools'[id].name : id \in step.ids}
      BY <1>8 DEF NamesOf
    <3> QED
      BY <1>8, <1>14, <2>1, <3>1, <3>2, <3>3 DEF RunFits
  <2> QED
    BY <2>2, <2>3
<1>16. ASSUME ~overlapped
       PROVE  RunKnows(r)'
  <2>1. \A id \in step.ids : tools'[id].config = step.config
    <3>1. \A id \in run[r].ids : id \in ToolIds /\ tools[id].config = run[r].config
      BY <1>2, <1>12, <1>16 DEF RunKnows, RunStates
    <3> QED
      BY <1>4, <1>7, <3>1
  <2>2. ASSUME step.at = "apply", NEW name \in Names \cup {Transfer},
               step.existing[name] = None, Existing(name)' # {}
        PROVE  name \in Applied(r)'
    <3>1. step.next = run[r].next + 1
      BY <1>7, <2>2
    <3>2. Applied(r)' = {Entries(run[r].config)[i] : i \in 1..(step.next - 1)}
      BY <1>7, <1>8 DEF Applied
    <3>3. step.next - 1 = run[r].next /\ run[r].next \in Nat /\ 1 <= run[r].next
      BY <1>2, <1>5, <3>1
    <3>4. CASE name = EntryName(r)
      BY <3>2, <3>3, <3>4 DEF EntryName
    <3>5. CASE name # EntryName(r)
      <4>1. PICK id \in ToolIds : tools'[id] # None /\ tools'[id].name = name
        BY <2>2 DEF Existing
      <4>2. id # EntryId(r)
        BY <1>4, <3>5, <4>1
      <4>3. id \in Existing(name)
        BY <1>4, <4>1, <4>2 DEF Existing
      <4>4. name \in Applied(r)
        BY <1>2, <1>7, <1>12, <1>16, <2>2, <4>3 DEF RunKnows
      <4>5. PICK i \in 1..(run[r].next - 1) : Entries(run[r].config)[i] = name
        BY <4>4 DEF Applied
      <4> QED
        BY <3>2, <3>3, <4>5
    <3> QED
      BY <3>4, <3>5
  <2>3. step.at # "phone"
    BY <1>7
  <2> QED
    BY <1>8, <2>1, <2>2, <2>3 DEF RunKnows
<1>17. RunsFit'
  BY <1>1, <1>4, <1>8, <1>15, RunsFitKept DEF IInv
<1>18. RunsKnow'
  BY <1>3, <1>8, <1>9, <1>16, RunsKnowKept DEF IInv
<1>19. AssistantsAreComplete'
  BY <1>1, <1>3, <1>4, CompleteKept DEF IInv
<1> QED
  BY <1>4, <1>10, <1>11, <1>17, <1>18, <1>19 DEF IInv

(* A run that ends with a request that failed, or whose answer was lost.   *)
LEMMA FailInv ==
  ASSUME IInv, NEW r \in Runners, run[r] # Idle, RequestFails(r), TypeOK',
         Grows, NoDuplicateTools', AssistantsAreComplete', overlapped' = overlapped
  PROVE  IInv'
<1>1. TypeOK /\ run' = [run EXCEPT ![r] = Idle]
  BY DEF IInv, RequestFails
<1>2. run'[r] = Idle /\ \A q \in Runners : q # r => run'[q] = run[q]
  BY <1>1 DEF TypeOK
<1>3. OneRun'
  BY <1>1, <1>2, OneRunKept DEF IInv
<1>4. RunsFit'
  BY <1>1, <1>2, RunsFitKept DEF IInv
<1>5. RunsKnow'
  BY <1>2, RunsKnowKept DEF IInv
<1> QED
  BY <1>3, <1>4, <1>5 DEF IInv

LEMMA FailureType ==
  ASSUME TypeOK, NEW r \in Runners, RequestFails(r)
  PROVE  faults' \in 0..MaxFaults /\ run' \in [Runners -> RunStates \cup {Idle}]
<1>1. faults' \in 0..MaxFaults
  BY SetupAssumption DEF TypeOK, RequestFails
<1>2. run' \in [Runners -> RunStates \cup {Idle}]
  BY DEF TypeOK, RequestFails
<1> QED
  BY <1>1, <1>2

LEMMA ApplyEntryFailsInv ==
  ASSUME IInv, NEW r \in Runners, ApplyEntryFails(r)
  PROVE  IInv'
<1>1. /\ TypeOK /\ Applying(r) /\ RequestFails(r)
      /\ UNCHANGED <<assistants, phone, env, created, overlapped, runs>>
  BY DEF IInv, ApplyEntryFails
<1>2. run[r] # Idle
  BY <1>1, EntryFacts, IdleIsNoRun
<1>3. /\ tools' \in [ToolIds -> Tools \cup {None}]
      /\ Grows
      /\ NoDuplicateTools'
  <2>1. CASE Upsert(r, EntryId(r))
    BY <1>1, <2>1, UpsertFacts
  <2>2. CASE UNCHANGED tools
    BY <1>1, <2>2 DEF IInv, TypeOK, Grows, Live, NoDuplicateTools, Existing
  <2> QED
    BY <2>1, <2>2 DEF ApplyEntryFails
<1>4. TypeOK'
  <2>1. faults' \in 0..MaxFaults /\ run' \in [Runners -> RunStates \cup {Idle}]
    BY <1>1, FailureType
  <2> QED
    BY <1>1, <1>3, <2>1 DEF TypeOK
<1>5. AssistantsAreComplete'
  BY <1>1, <1>3, CompleteKept DEF IInv
<1> QED
  BY <1>1, <1>2, <1>3, <1>4, <1>5, FailInv

-----------------------------------------------------------------------------
(* The assistant and the phone number.                                     *)

LEMMA UpsertAssistantFacts ==
  ASSUME IInv, NEW r \in Runners, AtAssistant(r), UpsertAssistant(r),
         UNCHANGED <<tools, phone>>, overlapped' = overlapped
  PROVE  /\ run[r] \in RunStates /\ run[r].at = "assistant"
         /\ AssistantId(r) \in AssistantIds
         /\ assistants' \in [AssistantIds -> Assistants \cup {None}]
         /\ assistants'[AssistantId(r)]
              = [toolIds |-> run[r].ids, config |-> run[r].config]
         /\ AssistantId(r) \in Live'
         /\ Grows
         /\ NoDuplicateTools'
         /\ AssistantsAreComplete'
<1> DEFINE entry == [toolIds |-> run[r].ids, config |-> run[r].config]
           id == AssistantId(r)
<1>1. TypeOK
  BY DEF IInv
<1>2. run[r] \in RunStates /\ run[r].at = "assistant" /\ run[r] # Idle
  BY <1>1 DEF TypeOK, AtAssistant, Idle
<1>3. id \in AssistantIds
  BY <1>2, NewIds DEF AssistantId, AtAssistant, RunStates
<1>4. entry \in Assistants /\ entry # None
  <2>1. entry \in Assistants
    BY <1>2 DEF RunStates, Assistants
  <2> QED
    BY <2>1, NoneAssumption
<1>5. assistants' = [assistants EXCEPT ![id] = entry]
  BY DEF UpsertAssistant
<1>6. entry.toolIds = run[r].ids
  OBVIOUS
<1> HIDE DEF entry, id
<1>7. /\ assistants' \in [AssistantIds -> Assistants \cup {None}]
      /\ assistants'[id] = entry
      /\ \A other \in AssistantIds : other # id => assistants'[other] = assistants[other]
  BY <1>1, <1>3, <1>4, <1>5 DEF TypeOK
<1>8. id \in Live' /\ Live' = Live \cup {id}
  BY <1>3, <1>4, <1>7 DEF Live
<1>9. Grows
  BY <1>8 DEF Grows
<1>10. NoDuplicateTools'
  BY DEF IInv, NoDuplicateTools, Existing
<1>11. AssistantsAreComplete'
  <2>1. RunFits(r)
    BY <1>2 DEF IInv, RunsFit, Busy
  <2>2. ASSUME NEW other \in Live'
        PROVE  /\ \A tool \in assistants'[other].toolIds : tools'[tool] # None
               /\ Names \subseteq {tools'[tool].name : tool \in assistants'[other].toolIds}
    <3>1. CASE other = id
      <4>1. /\ \A tool \in run[r].ids : tools[tool] # None
            /\ Names \subseteq {tools[tool].name : tool \in run[r].ids}
        BY <1>2, <2>1 DEF RunFits, NamesOf
      <4> QED
        BY <1>6, <1>7, <3>1, <4>1
    <3>2. CASE other # id
      <4>1. other \in Live /\ assistants'[other] = assistants[other]
        BY <1>7, <1>8, <3>2 DEF Live
      <4> QED
        BY <4>1 DEF IInv, AssistantsAreComplete, NamesOf
    <3> QED
      BY <3>1, <3>2
  <2>3. phone' # None => phone' \in Live'
    BY <1>8 DEF IInv, AssistantsAreComplete
  <2> QED
    BY <2>2, <2>3 DEF AssistantsAreComplete, NamesOf
<1> QED
  BY <1>2, <1>3, <1>7, <1>8, <1>9, <1>10, <1>11 DEF entry, id

LEMMA ApplyAssistantInv ==
  ASSUME IInv, NEW r \in Runners, ApplyAssistant(r)
  PROVE  IInv'
<1>1. /\ TypeOK /\ AtAssistant(r) /\ UpsertAssistant(r)
      /\ UNCHANGED <<tools, phone, env, overlapped, runs, faults>>
  BY DEF IInv, ApplyAssistant
<1>2. /\ run[r] \in RunStates /\ run[r].at = "assistant"
      /\ AssistantId(r) \in AssistantIds
      /\ assistants' \in [AssistantIds -> Assistants \cup {None}]
      /\ assistants'[AssistantId(r)]
           = [toolIds |-> run[r].ids, config |-> run[r].config]
      /\ AssistantId(r) \in Live'
      /\ Grows
      /\ NoDuplicateTools'
      /\ AssistantsAreComplete'
  BY <1>1, UpsertAssistantFacts
<1>3. run[r] # Idle
  BY <1>2, IdleIsNoRun
<1>4. RunFits(r) /\ (~overlapped => RunKnows(r))
  BY <1>3 DEF IInv, RunsFit, RunsKnow, Busy
<1>5. created' \subseteq AssistantIds
  BY <1>1, NewIds DEF ApplyAssistant, AtAssistant, TypeOK
<1>6. CASE PhoneGiven
  <2> DEFINE next == [run[r] EXCEPT !.at = "phone", !.target = AssistantId(r)]
  <2>1. run' = [run EXCEPT ![r] = next]
    BY <1>6 DEF ApplyAssistant
  <2>2. /\ next \in RunStates
        /\ next.at = "phone" /\ next.target = AssistantId(r)
        /\ next.ids = run[r].ids /\ next.config = run[r].config
        /\ next.existing = run[r].existing
    BY <1>2 DEF RunStates
  <2> HIDE DEF next
  <2>3. /\ run'[r] = next
        /\ \A q \in Runners : q # r => run'[q] = run[q]
        /\ run' \in [Runners -> RunStates \cup {Idle}]
    BY <1>1, <2>1, <2>2 DEF TypeOK
  <2>4. TypeOK'
    BY <1>1, <1>2, <1>5, <2>3 DEF TypeOK
  <2>5. RunFits(r)'
    <3>1. \A name \in Names \cup {Transfer} : Existing(name)' = Existing(name)
      BY <1>1 DEF Existing
    <3>2. NamesOf(run[r].ids)' = {tools[id].name : id \in run[r].ids}
      BY <1>1, <2>2, <2>3 DEF NamesOf
    <3>3. Names \subseteq NamesOf(run[r].ids)'
      BY <1>2, <1>4, <3>2 DEF RunFits, NamesOf
    <3>4. \A id \in run'[r].ids : tools'[id] # None
      BY <1>1, <1>4, <2>2, <2>3 DEF RunFits
    <3>5. \A name \in Names \cup {Transfer} :
            run'[r].existing[name] # None => run'[r].existing[name] \in Existing(name)'
      BY <1>4, <2>2, <2>3, <3>1 DEF RunFits
    <3> QED
      BY <1>2, <2>2, <2>3, <3>3, <3>4, <3>5 DEF RunFits
  <2>6. ~overlapped => RunKnows(r)'
    BY <1>1, <1>2, <1>4, <2>2, <2>3 DEF RunKnows
  <2>7. OneRun' /\ RunsFit' /\ RunsKnow'
    <3>1. OneRun'
      BY <1>1, <1>3, <2>3, OneRunKept DEF IInv
    <3>2. RunsFit'
      BY <1>1, <1>2, <2>3, <2>5, RunsFitKept DEF IInv
    <3>3. RunsKnow'
      BY <1>1, <1>3, <2>3, <2>6, RunsKnowKept DEF IInv
    <3> QED
      BY <3>1, <3>2, <3>3
  <2> QED
    BY <1>2, <2>4, <2>7 DEF IInv
<1>7. CASE ~PhoneGiven
  <2>1. run' = [run EXCEPT ![r] = Idle]
    BY <1>7 DEF ApplyAssistant
  <2>2. /\ run'[r] = Idle
        /\ \A q \in Runners : q # r => run'[q] = run[q]
        /\ run' \in [Runners -> RunStates \cup {Idle}]
    BY <1>1, <2>1 DEF TypeOK
  <2>3. TypeOK'
    BY <1>1, <1>2, <1>5, <2>2 DEF TypeOK
  <2>4. OneRun'
    BY <1>1, <1>3, <2>2, OneRunKept DEF IInv
  <2>5. RunsFit'
    BY <1>1, <1>2, <2>2, RunsFitKept DEF IInv
  <2>6. RunsKnow'
    BY <1>1, <1>3, <2>2, RunsKnowKept DEF IInv
  <2> QED
    BY <1>2, <2>3, <2>4, <2>5, <2>6 DEF IInv
<1> QED
  BY <1>6, <1>7

LEMMA ApplyAssistantFailsInv ==
  ASSUME IInv, NEW r \in Runners, ApplyAssistantFails(r)
  PROVE  IInv'
<1>1. /\ TypeOK /\ AtAssistant(r) /\ RequestFails(r)
      /\ UNCHANGED <<tools, phone, env, created, overlapped, runs>>
  BY DEF IInv, ApplyAssistantFails
<1>2. run[r] # Idle
  BY <1>1 DEF AtAssistant, Idle
<1>3. /\ assistants' \in [AssistantIds -> Assistants \cup {None}]
      /\ Grows /\ NoDuplicateTools' /\ AssistantsAreComplete'
  <2>1. CASE UpsertAssistant(r)
    BY <1>1, <2>1, UpsertAssistantFacts
  <2>2. CASE UNCHANGED assistants
    <3>1. Grows
      BY <1>1, <2>2 DEF Grows, Live
    <3>2. NoDuplicateTools'
      BY <1>1 DEF IInv, NoDuplicateTools, Existing
    <3>3. AssistantsAreComplete'
      BY <1>1, <2>2, <3>1, CompleteKept DEF IInv
    <3> QED
      BY <1>1, <2>2, <3>1, <3>2, <3>3 DEF TypeOK
  <2> QED
    BY <2>1, <2>2 DEF ApplyAssistantFails
<1>4. TypeOK'
  <2>1. faults' \in 0..MaxFaults /\ run' \in [Runners -> RunStates \cup {Idle}]
    BY <1>1, FailureType
  <2> QED
    BY <1>1, <1>3, <2>1 DEF TypeOK
<1> QED
  BY <1>1, <1>2, <1>3, <1>4, FailInv

(* What holds of the account when only the phone number moved, to the      *)
(* assistant of the run.                                                   *)
LEMMA PhoneFacts ==
  ASSUME IInv, NEW r \in Runners, run[r].at = "phone",
         phone' \in {phone, run[r].target}, UNCHANGED <<tools, assistants>>,
         overlapped' = overlapped
  PROVE  /\ run[r] # Idle
         /\ phone' \in AssistantIds \cup {None}
         /\ Grows /\ NoDuplicateTools' /\ AssistantsAreComplete'
<1>1. TypeOK /\ run[r] # Idle
  BY DEF IInv, Idle
<1>2. run[r] \in RunStates /\ run[r].target \in Live
  BY <1>1 DEF IInv, RunsFit, RunFits, Busy, TypeOK
<1>3. Live' = Live
  BY DEF Live
<1>4. Grows
  BY <1>3 DEF Grows
<1>5. NoDuplicateTools'
  BY DEF IInv, NoDuplicateTools, Existing
<1>6. AssistantsAreComplete'
  <2>1. phone' # None => phone' \in Live
    BY <1>2 DEF IInv, AssistantsAreComplete
  <2> QED
    BY <1>3, <2>1 DEF IInv, AssistantsAreComplete, NamesOf
<1>7. phone' \in AssistantIds \cup {None}
  BY <1>1, <1>2 DEF TypeOK, Live
<1> QED
  BY <1>1, <1>4, <1>5, <1>6, <1>7

LEMMA AttachPhoneInv ==
  ASSUME IInv, NEW r \in Runners, AttachPhone(r)
  PROVE  IInv'
<1>1. /\ TypeOK /\ run[r].at = "phone" /\ phone' = run[r].target
      /\ run' = [run EXCEPT ![r] = Idle]
      /\ UNCHANGED <<tools, assistants, env, created, overlapped, runs, faults>>
  BY DEF IInv, AttachPhone
<1>2. /\ run[r] # Idle
      /\ phone' \in AssistantIds \cup {None}
      /\ Grows /\ NoDuplicateTools' /\ AssistantsAreComplete'
  BY <1>1, PhoneFacts
<1>3. /\ run'[r] = Idle
      /\ \A q \in Runners : q # r => run'[q] = run[q]
      /\ run' \in [Runners -> RunStates \cup {Idle}]
  BY <1>1 DEF TypeOK
<1>4. TypeOK'
  BY <1>1, <1>2, <1>3 DEF TypeOK
<1>5. OneRun'
  BY <1>1, <1>2, <1>3, OneRunKept DEF IInv
<1>6. RunsFit'
  BY <1>1, <1>2, <1>3, RunsFitKept DEF IInv
<1>7. RunsKnow'
  BY <1>1, <1>2, <1>3, RunsKnowKept DEF IInv
<1> QED
  BY <1>2, <1>4, <1>5, <1>6, <1>7 DEF IInv

LEMMA AttachPhoneFailsInv ==
  ASSUME IInv, NEW r \in Runners, AttachPhoneFails(r)
  PROVE  IInv'
<1>1. /\ TypeOK /\ run[r].at = "phone" /\ phone' \in {phone, run[r].target}
      /\ RequestFails(r)
      /\ UNCHANGED <<tools, assistants, env, created, overlapped, runs>>
  BY DEF IInv, AttachPhoneFails
<1>2. /\ run[r] # Idle
      /\ phone' \in AssistantIds \cup {None}
      /\ Grows /\ NoDuplicateTools' /\ AssistantsAreComplete'
  BY <1>1, PhoneFacts
<1>3. TypeOK'
  <2>1. faults' \in 0..MaxFaults /\ run' \in [Runners -> RunStates \cup {Idle}]
    BY <1>1, FailureType
  <2> QED
    BY <1>1, <1>2, <2>1 DEF TypeOK
<1> QED
  BY <1>1, <1>2, <1>3, FailInv

LEMMA RecordAssistantInv ==
  ASSUME IInv, NEW id \in AssistantIds, RecordAssistant(id)
  PROVE  IInv'
<1>1. /\ TypeOK /\ env' = id /\ created' = created \ {id}
      /\ UNCHANGED <<tools, assistants, phone, run, overlapped, runs, faults>>
  BY DEF IInv, RecordAssistant, account
<1>2. TypeOK'
  BY <1>1 DEF TypeOK
<1>3. OneRun'
  BY <1>1 DEF IInv, OneRun, Busy
<1>4. Grows
  BY <1>1 DEF Grows, Live
<1>5. RunsFit'
  <2>1. ASSUME NEW r \in Runners, run[r] # Idle
        PROVE  RunFits(r)'
    BY <1>1, <1>4, <2>1, GrowthKeepsRuns DEF IInv, RunsFit, Busy
  <2> QED
    BY <1>1, <2>1 DEF RunsFit, Busy
<1>6. RunsKnow'
  <2>1. ASSUME NEW r \in Runners
        PROVE  RunKnows(r) => RunKnows(r)'
    BY <1>1 DEF RunKnows, Existing, Applied
  <2> QED
    BY <1>1, <2>1 DEF IInv, RunsKnow, Busy
<1>7. NoDuplicateTools'
  BY <1>1 DEF IInv, NoDuplicateTools, Existing
<1>8. AssistantsAreComplete'
  BY <1>1, <1>4, CompleteKept DEF IInv
<1> QED
  BY <1>2, <1>3, <1>5, <1>6, <1>7, <1>8 DEF IInv

LEMMA NextInv == IInv /\ [Next]_vars => IInv'
<1> SUFFICES ASSUME IInv, [Next]_vars PROVE IInv'
  OBVIOUS
<1>1. ASSUME NEW r \in Runners, Step(r) PROVE IInv'
  <2>1. ASSUME NEW config \in Configs, Start(r, config) PROVE IInv'
    BY <2>1, StartInv
  <2> QED
    BY <1>1, <2>1, ListInv, ListFailsInv, ApplyEntryInv, ApplyEntryFailsInv,
       ApplyAssistantInv, ApplyAssistantFailsInv, AttachPhoneInv,
       AttachPhoneFailsInv DEF Step
<1> QED
  BY <1>1, RecordAssistantInv, StutterInv DEF Next

-----------------------------------------------------------------------------
(* The theorems.                                                           *)

(* Every state has its type, and what the runs have learned of the account *)
(* is true of it.                                                          *)
THEOREM Invariance == Spec => []IInv
BY InitInv, NextInv, PTL DEF Spec

THEOREM TypeCorrect == Spec => []TypeOK
<1>1. IInv => TypeOK
  BY DEF IInv
<1> QED
  BY <1>1, Invariance, PTL

(* setup_vapi.py "updates existing resources in place rather than creating *)
(* duplicates": runs that do not overlap leave one tool of a name, for     *)
(* every registry and whatever requests failed or lost their answers.      *)
THEOREM NoDuplicates == Spec => []NoDuplicateTools
<1>1. IInv => NoDuplicateTools
  BY DEF IInv
<1> QED
  BY <1>1, Invariance, PTL

(* setup_vapi.py "toolIds covering every tool": an assistant is complete   *)
(* from the moment it exists, overlapping and interrupted runs included.   *)
THEOREM Complete == Spec => []AssistantsAreComplete
<1>1. IInv => AssistantsAreComplete
  BY DEF IInv
<1> QED
  BY <1>1, Invariance, PTL

(* setup_vapi.py, main: a run that ends well, and alone, leaves its        *)
(* assistant, every tool of it and the phone number as it was asked to.    *)
THEOREM Uniform == Spec => RunsAreUniform
<1> DEFINE Ends(r) ==
      /\ run[r].at \in {"assistant", "phone"} /\ run'[r] = Idle
      /\ faults' = faults /\ ~overlapped
    Leaves(r) ==
      LET id == IF run[r].at = "phone" THEN run[r].target ELSE AssistantId(r)
      IN  /\ assistants'[id].config = run[r].config
          /\ \A tool \in assistants'[id].toolIds : tools'[tool].config = run[r].config
          /\ PhoneGiven => phone' = id
<1>1. ASSUME IInv, Next, NEW r \in Runners, Ends(r)
      PROVE  Leaves(r)
  <2>1. TypeOK /\ run[r] # Idle /\ run'[r] # run[r]
    BY <1>1 DEF IInv, Idle
  <2>2. RunFits(r) /\ RunKnows(r)
    BY <1>1, <2>1 DEF IInv, RunsFit, RunsKnow, Busy
  <2>3. CASE ApplyAssistant(r)
    <3>1. /\ AtAssistant(r) /\ UpsertAssistant(r)
          /\ UNCHANGED <<tools, phone, overlapped>>
      BY <2>3 DEF ApplyAssistant
    <3>2. /\ run[r] \in RunStates /\ run[r].at = "assistant"
          /\ assistants'[AssistantId(r)]
               = [toolIds |-> run[r].ids, config |-> run[r].config]
      BY <1>1, <3>1, UpsertAssistantFacts
    <3>3. ~PhoneGiven
      <4>1. SUFFICES ASSUME PhoneGiven PROVE FALSE
        OBVIOUS
      <4>2. run'[r].at = "phone"
        BY <2>1, <2>3, <3>2, <4>1 DEF ApplyAssistant, TypeOK, RunStates
      <4> QED
        BY <1>1, <4>2 DEF Idle
    <3> QED
      BY <2>2, <3>1, <3>2, <3>3 DEF RunKnows
  <2>4. CASE AttachPhone(r)
    BY <2>2, <2>4 DEF AttachPhone, RunKnows
  <2>5. ApplyAssistant(r) \/ AttachPhone(r)
    <3>1. ASSUME NEW q \in Runners, Step(q) PROVE q = r
      <4>1. SUFFICES ASSUME q # r PROVE run'[r] = run[r]
        BY <2>1
      <4> QED
        BY <2>1, <3>1, <4>1 DEF Step, Start, List, ListFails, ApplyEntry,
           ApplyEntryFails, ApplyAssistant, ApplyAssistantFails, AttachPhone,
           AttachPhoneFails, RequestFails, TypeOK
    <3>2. Step(r)
      BY <1>1, <2>1, <3>1 DEF Next, RecordAssistant
    <3>3. ~ \E config \in Configs : Start(r, config)
      BY <2>1 DEF Start
    <3>4. ~List(r) /\ ~ListFails(r) /\ ~ApplyEntry(r) /\ ~ApplyEntryFails(r)
      BY <1>1 DEF List, ListFails, ApplyEntry, ApplyEntryFails, Applying
    <3>5. ~ApplyAssistantFails(r) /\ ~AttachPhoneFails(r)
      BY <1>1, <2>1 DEF ApplyAssistantFails, AttachPhoneFails, RequestFails, TypeOK
    <3> QED
      BY <3>2, <3>3, <3>4, <3>5 DEF Step
  <2> QED
    BY <2>3, <2>4, <2>5
<1>2. IInv /\ [Next]_vars => [\A r \in Runners : Ends(r) => Leaves(r)]_vars
  BY <1>1
<1> QED
  BY <1>2, Invariance, PTL DEF Spec, RunsAreUniform
=============================================================================
