----------------------------- MODULE VapiSetup -----------------------------
(***************************************************************************)
(* scripts/setup_vapi.py --apply: bringing a Vapi account's tools,         *)
(* assistant and phone number in line with the registry of tools.          *)
(*                                                                         *)
(* A run lists the account's tools once, plans an update or a create for   *)
(* every schema from that snapshot, and makes one HTTP request per entry,  *)
(* then one for the assistant and one for the phone number.  A request may *)
(* fail, or take effect and lose its answer; either raises and ends the    *)
(* run, and somebody starts the script again.  Two people may run it.      *)
(*                                                                         *)
(* A configuration stands for everything a payload takes from the          *)
(* environment, the arguments and the registry: the server's URL and       *)
(* secret, the descriptions, the model and its prompt.  Vapi is the REST   *)
(* service that VapiClient's methods describe.                             *)
(***************************************************************************)
EXTENDS Naturals, Sequences, FiniteSets

CONSTANTS
  Schemas,        \* VAPI_TOOL_SCHEMAS: the sequence of tool names
  Configs,        \* configurations a run may have
  Transferring,   \* the ones with a --transfer-number
  PhoneGiven,     \* VAPI_PHONE_NUMBER_ID is set
  Runners,        \* people who run the script
  ToolIds,
  AssistantIds,
  MaxRuns,        \* bound: runs of the script
  MaxFaults,      \* bound: requests that fail or whose answer is lost
  None

Range(seq) == {seq[i] : i \in DOMAIN seq}
Names == Range(Schemas)
Transfer == "transferCall"

ASSUME SetupAssumption ==
  /\ Schemas \in Seq(STRING) /\ Schemas # << >>
  /\ \A i, j \in DOMAIN Schemas : Schemas[i] = Schemas[j] => i = j
  /\ Transfer \notin Names
  /\ None \notin ToolIds \cup AssistantIds \cup Names
  /\ Transferring \subseteq Configs
  /\ PhoneGiven \in BOOLEAN
  /\ MaxRuns \in Nat
  /\ MaxFaults \in Nat

VARIABLES
  tools,        \* account: tool id -> its name and configuration, or None
  assistants,   \* account: assistant id -> toolIds and configuration, or None
  phone,        \* account: the phone number's assistantId
  env,          \* VAPI_ASSISTANT_ID of the .env file
  run,          \* runner -> the run in progress
  created,      \* printed "ACTION REQUIRED" ids that nobody put into .env yet
  overlapped,   \* history: two runs were in progress at a time
  runs,
  faults

account == <<tools, assistants, phone>>
vars == <<account, env, run, created, overlapped, runs, faults>>

-----------------------------------------------------------------------------
(* Types.                                                                  *)

Tools == [name : Names \cup {Transfer}, config : Configs]
Assistants == [toolIds : SUBSET ToolIds, config : Configs]

ASSUME NoneAssumption == None \notin Tools \cup Assistants

(* existing: the snapshot as name -> id; ids: what apply_plan returned so  *)
(* far; next: the entry of the plan to be applied.                         *)
Idle == [at |-> "idle"]

RunStates ==
  [at : {"list", "apply", "assistant", "phone"}, config : Configs,
   target : AssistantIds \cup {None},
   existing : [Names \cup {Transfer} -> ToolIds \cup {None}],
   next : 1..Len(Schemas) + 1, ids : SUBSET ToolIds]

TypeOK ==
  /\ tools \in [ToolIds -> Tools \cup {None}]
  /\ assistants \in [AssistantIds -> Assistants \cup {None}]
  /\ phone \in AssistantIds \cup {None}
  /\ env \in AssistantIds \cup {None}
  /\ run \in [Runners -> RunStates \cup {Idle}]
  /\ created \subseteq AssistantIds
  /\ overlapped \in BOOLEAN
  /\ runs \in 0..MaxRuns
  /\ faults \in 0..MaxFaults

Init ==
  /\ tools = [id \in ToolIds |-> None]
  /\ assistants = [id \in AssistantIds |-> None]
  /\ phone = None
  /\ env = None
  /\ run = [r \in Runners |-> Idle]
  /\ created = {}
  /\ overlapped = FALSE
  /\ runs = 0
  /\ faults = 0

-----------------------------------------------------------------------------
(* Vapi.                                                                   *)

Existing(name) == {id \in ToolIds : tools[id] # None /\ tools[id].name = name}

NewTool == CHOOSE id \in ToolIds : tools[id] = None
NewAssistant == CHOOSE id \in AssistantIds : assistants[id] = None

(* Mutant: an update leaves the server of a tool alone.                    *)
PutServerOnce(id, name, config) ==
  [tools EXCEPT ![id] =
     [name |-> name, config |-> IF @ = None THEN config ELSE @.config]]

(* create_tool or update_tool: id is where the payload ends up.            *)
Put(id, name, config) == [tools EXCEPT ![id] = [name |-> name, config |-> config]]

(* A request that raises: it had no effect, or its answer was lost.        *)
RequestFails(r) ==
  /\ faults < MaxFaults
  /\ faults' = faults + 1
  /\ run' = [run EXCEPT ![r] = Idle]

-----------------------------------------------------------------------------
(* main, as far as list_tools.  Without a key, a URL and a secret or a     *)
(* credential it stops before it sends anything.                           *)
Start(r, config) ==
  /\ run[r] = Idle
  /\ runs < MaxRuns
  /\ runs' = runs + 1
  /\ run' = [run EXCEPT ![r] =
       [at |-> "list", config |-> config, target |-> env,
        existing |-> [name \in Names \cup {Transfer} |-> None],
        next |-> 1, ids |-> {}]]
  /\ overlapped' = (overlapped \/ \E q \in Runners : run[q] # Idle)
  /\ UNCHANGED <<account, env, created, faults>>

(* Mutant: the plan of the dry run, which knows no existing tool.          *)
IndexNothing(existing) == existing = [name \in Names \cup {Transfer} |-> None]

(* _index_existing_tools: of several tools with a name, the last one.      *)
IndexExistingTools(existing) ==
  \A name \in Names \cup {Transfer} :
    IF Existing(name) = {} THEN existing[name] = None
    ELSE existing[name] \in Existing(name)

(* plan_transfer_call_upsert refuses to choose among several.              *)
Ambiguous(config) == config \in Transferring /\ Cardinality(Existing(Transfer)) > 1

List(r) ==
  /\ run[r].at = "list"
  /\ IF Ambiguous(run[r].config)
     THEN run' = [run EXCEPT ![r] = Idle]
     ELSE \E existing \in [Names \cup {Transfer} -> ToolIds \cup {None}] :
            /\ IndexExistingTools(existing)
            /\ run' = [run EXCEPT ![r].at = "apply", ![r].existing = existing]
  /\ UNCHANGED <<account, env, created, overlapped, runs, faults>>

ListFails(r) ==
  /\ run[r].at = "list"
  /\ RequestFails(r)
  /\ UNCHANGED <<account, env, created, overlapped, runs>>

-----------------------------------------------------------------------------
(* apply_plan: the schemas in order, then the transferCall tool.           *)

Entries(config) == IF config \in Transferring THEN Append(Schemas, Transfer) ELSE Schemas

Upsert(r, id) ==
  LET name == Entries(run[r].config)[run[r].next]
  IN  tools' = Put(id, name, run[r].config)

(* The id an entry is applied to: the existing one, or a new one.          *)
EntryId(r) ==
  LET existing == run[r].existing[Entries(run[r].config)[run[r].next]]
  IN  IF existing # None THEN existing ELSE NewTool

(* Mutant: the answer of an update, not its entry, is asked for the id.    *)
CollectCreated(r) ==
  IF run[r].existing[Entries(run[r].config)[run[r].next]] = None
  THEN run[r].ids \cup {EntryId(r)} ELSE run[r].ids

(* Mutant: the list receives names.                                        *)
CollectNames(r) == run[r].ids \cup {Entries(run[r].config)[run[r].next]}

Collect(r) == run[r].ids \cup {EntryId(r)}

Applying(r) ==
  /\ run[r].at = "apply"
  /\ run[r].next <= Len(Entries(run[r].config))
  /\ \E id \in ToolIds : tools[id] = None      \* bound

ApplyEntry(r) ==
  /\ Applying(r)
  /\ Upsert(r, EntryId(r))
  /\ run' = [run EXCEPT
       ![r].ids = Collect(r),
       ![r].next = IF @ < Len(Entries(run[r].config)) THEN @ + 1 ELSE @,
       ![r].at = IF run[r].next < Len(Entries(run[r].config)) THEN @ ELSE "assistant"]
  /\ UNCHANGED <<assistants, phone, env, created, overlapped, runs, faults>>

ApplyEntryFails(r) ==
  /\ Applying(r)
  /\ Upsert(r, EntryId(r)) \/ UNCHANGED tools
  /\ RequestFails(r)
  /\ UNCHANGED <<assistants, phone, env, created, overlapped, runs>>

-----------------------------------------------------------------------------
(* The assistant and the phone number.                                     *)

AssistantId(r) == IF run[r].target # None THEN run[r].target ELSE NewAssistant

UpsertAssistant(r) ==
  assistants' = [assistants EXCEPT ![AssistantId(r)] =
                   [toolIds |-> run[r].ids, config |-> run[r].config]]

AtAssistant(r) ==
  /\ run[r].at = "assistant"
  /\ \E id \in AssistantIds : assistants[id] = None      \* bound

ApplyAssistant(r) ==
  /\ AtAssistant(r)
  /\ UpsertAssistant(r)
  /\ created' = IF run[r].target = None THEN created \cup {NewAssistant} ELSE created
  /\ run' = [run EXCEPT ![r] =
       IF PhoneGiven THEN [@ EXCEPT !.at = "phone", !.target = AssistantId(r)]
       ELSE Idle]
  /\ UNCHANGED <<tools, phone, env, overlapped, runs, faults>>

ApplyAssistantFails(r) ==
  /\ AtAssistant(r)
  /\ UpsertAssistant(r) \/ UNCHANGED assistants
  /\ RequestFails(r)
  /\ UNCHANGED <<tools, phone, env, created, overlapped, runs>>

AttachPhone(r) ==
  /\ run[r].at = "phone"
  /\ phone' = run[r].target
  /\ run' = [run EXCEPT ![r] = Idle]
  /\ UNCHANGED <<tools, assistants, env, created, overlapped, runs, faults>>

AttachPhoneFails(r) ==
  /\ run[r].at = "phone"
  /\ phone' \in {phone, run[r].target}
  /\ RequestFails(r)
  /\ UNCHANGED <<tools, assistants, env, created, overlapped, runs>>

(* Somebody does what "ACTION REQUIRED" asks for.                          *)
RecordAssistant(id) ==
  /\ id \in created
  /\ env' = id
  /\ created' = created \ {id}
  /\ UNCHANGED <<account, run, overlapped, runs, faults>>

Step(r) ==
  \/ \E config \in Configs : Start(r, config)
  \/ List(r)
  \/ ListFails(r)
  \/ ApplyEntry(r)
  \/ ApplyEntryFails(r)
  \/ ApplyAssistant(r)
  \/ ApplyAssistantFails(r)
  \/ AttachPhone(r)
  \/ AttachPhoneFails(r)

Next ==
  \/ \E r \in Runners : Step(r)
  \/ \E id \in AssistantIds : RecordAssistant(id)

Spec == Init /\ [][Next]_vars

-----------------------------------------------------------------------------
(* Properties.                                                             *)

Live == {id \in AssistantIds : assistants[id] # None}
NamesOf(toolIds) == {tools[id].name : id \in toolIds}

(* setup_vapi.py "updates existing resources in place rather than creating *)
(* duplicates": as long as runs do not overlap, each name has at most one  *)
(* tool, whatever requests failed or lost their answers.                   *)
NoDuplicateTools ==
  ~overlapped =>
    \A name \in Names \cup {Transfer}, id, other \in ToolIds :
      id \in Existing(name) /\ other \in Existing(name) => id = other

(* setup_vapi.py "toolIds covering every tool": an assistant never lacks a *)
(* tool of the registry nor refers to one that does not exist, and the     *)
(* number only ever answers with such an assistant; overlapping and        *)
(* interrupted runs included.                                              *)
AssistantsAreComplete ==
  /\ \A id \in Live : /\ \A tool \in assistants[id].toolIds : tools[tool] # None
                      /\ Names \subseteq NamesOf(assistants[id].toolIds)
  /\ phone # None => phone \in Live

(* setup_vapi.py, main: a run that ends leaves its assistant and every     *)
(* tool of it with the run's own server, so that the webhook's one secret  *)
(* fits all of them; unless another run overlapped it.                     *)
RunsAreUniform ==
  [][\A r \in Runners :
       /\ run[r].at \in {"assistant", "phone"} /\ run'[r] = Idle
       /\ faults' = faults /\ ~overlapped
       => LET id == IF run[r].at = "phone" THEN run[r].target ELSE AssistantId(r)
          IN  /\ assistants'[id].config = run[r].config
              /\ \A tool \in assistants'[id].toolIds :
                   tools'[tool].config = run[r].config
              /\ PhoneGiven => phone' = id]_vars
=============================================================================
