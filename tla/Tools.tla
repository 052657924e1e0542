------------------------------- MODULE Tools -------------------------------
(***************************************************************************)
(* The registry of voice tools (tool_schemas.py), the mapping of an LLM's  *)
(* arguments onto the services' requests (argument_mapping.py), and what   *)
(* _handle_one_tool_call makes of one tool call before it touches a        *)
(* service: refuse it, ask for something, or dispatch it.                  *)
(*                                                                         *)
(* A call is a record: the tool; the names of the arguments that were      *)
(* given and are not empty; pnr, the booking the call names (Nobody: none  *)
(* given; "malformed": not six characters; "unknown": no such booking);    *)
(* confirmed, whether customer_confirmed is the boolean true.  What an     *)
(* argument says is left out: coercions such as int() are not modelled.    *)
(***************************************************************************)
EXTENDS Authorization

(* "required" of each tool's JSON schema, pnr included: the tools that     *)
(* read, the tools that write, and those registered later.                 *)
ReadOnlySchemas ==
  [search_flights            |-> {"origin", "destination", "departure_date", "adults"},
   get_flight_details        |-> {"flight_id"},
   get_aircraft_availability |-> {},
   get_fare_quote            |-> {"flight_id", "adults"},
   get_cancellation_policy   |-> {"pnr"},
   get_baggage_policy        |-> {"cabin_class"},
   verify_booking_customer   |-> {"pnr"},
   get_booking               |-> {"pnr", "verification_token"}]

MutatingSchemas ==
  LET pnr == {"pnr", "verification_token"}
  IN  [create_booking    |-> {"quote_id", "passengers", "contact_email", "contact_phone"},
       modify_booking    |-> pnr \cup {"customer_confirmed"},
       cancel_booking    |-> pnr \cup {"customer_confirmed"},
       add_passenger     |-> pnr \cup {"first_name", "last_name"},
       remove_passenger  |-> pnr \cup {"booking_passenger_id", "customer_confirmed"},
       transfer_to_human |-> {}]

LaterSchemas ==
  LET pnr == {"pnr", "verification_token"}
  IN  [add_baggage             |-> pnr \cup {"bag_count"},
       get_seat_options        |-> pnr,
       select_seat             |-> pnr \cup {"booking_passenger_id", "seat_number"},
       create_payment_session  |-> pnr \cup {"customer_confirmed"},
       get_payment_status      |-> pnr,
       create_support_ticket   |-> pnr \cup {"summary"},
       create_callback_request |-> {"phone_number"}]

SchemaTools ==
  DOMAIN ReadOnlySchemas \cup DOMAIN MutatingSchemas \cup DOMAIN LaterSchemas

SchemaRequired == [tool \in SchemaTools |->
  IF tool \in DOMAIN ReadOnlySchemas THEN ReadOnlySchemas[tool]
  ELSE IF tool \in DOMAIN MutatingSchemas THEN MutatingSchemas[tool]
  ELSE LaterSchemas[tool]]

Mutating == {"create_booking", "modify_booking", "cancel_booking",
  "add_passenger", "remove_passenger", "add_baggage", "select_seat",
  "create_payment_session", "create_support_ticket",
  "create_callback_request"}

RequiresConfirmation == {"create_booking", "modify_booking", "cancel_booking",
  "remove_passenger", "add_baggage", "create_payment_session"}

NotImplemented == {"add_baggage", "get_seat_options", "select_seat",
  "create_support_ticket", "create_callback_request"}

(* What as_vapi_function_definitions hands to the assistant.               *)
FunctionDefinitions == SchemaTools

-----------------------------------------------------------------------------
(* Argument mapping.                                                       *)

Mapped == SchemaTools \ NotImplemented
PnrMapped == {tool \in Mapped : "pnr" \in SchemaRequired[tool]}
ConfirmedByMapper == {tool \in Mapped : "customer_confirmed" \in SchemaRequired[tool]}
(* _require: names of the arguments a mapper refuses to do without.        *)
MapperRequired(tool) == SchemaRequired[tool] \ {"pnr", "customer_confirmed"}

Alternatives(tool) ==
  CASE tool = "verify_booking_customer" -> {"email_or_phone", "last_name"}
    [] tool = "modify_booking" ->
         {"new_flight_id", "new_contact_email", "new_contact_phone"}
    [] OTHER -> {}

LacksAlternative(call) ==
  Alternatives(call.tool) # {} /\ Alternatives(call.tool) \cap call.args = {}

(* Mutant: the mappers leave the confirmation to the assistant.            *)
MapUnconfirmed(call) ==
  IF call.tool \in PnrMapped /\ call.pnr = Nobody THEN "MISSING_ARGUMENT"
  ELSE IF call.tool \in PnrMapped /\ call.pnr = "malformed" THEN "INVALID_ARGUMENTS"
  ELSE IF ~(MapperRequired(call.tool) \subseteq call.args) \/ LacksAlternative(call)
  THEN "MISSING_ARGUMENT"
  ELSE "mapped"

(* A mapper's result: "mapped", or the code of its ArgumentMappingError.   *)
MapArguments(call) ==
  IF call.tool \in PnrMapped /\ call.pnr = Nobody THEN "MISSING_ARGUMENT"
  ELSE IF call.tool \in PnrMapped /\ call.pnr = "malformed" THEN "INVALID_ARGUMENTS"
  ELSE IF ~(MapperRequired(call.tool) \subseteq call.args) THEN "MISSING_ARGUMENT"
  ELSE IF call.tool \in ConfirmedByMapper /\ ~call.confirmed THEN "CONFIRMATION_REQUIRED"
  ELSE IF LacksAlternative(call) THEN "MISSING_ARGUMENT"
  ELSE "mapped"

-----------------------------------------------------------------------------
(* _handle_one_tool_call up to the dispatch.  The webhook authenticated;   *)
(* neither a redelivery nor over its rate limit.  usable: the given token  *)
(* passes VerificationSessionService.check for this booking.               *)

PnrTools == {"verify_booking_customer", "get_booking", "modify_booking",
  "cancel_booking", "add_passenger", "remove_passenger",
  "create_payment_session", "get_payment_status"}

NamesBooking(call) == call.tool \in PnrTools /\ call.pnr # Nobody
BookingOf(call) == IF NamesBooking(call) THEN call.pnr ELSE Nobody

CallActor(call, usable) ==
  IF NamesBooking(call)
  THEN Redeem(VapiActor, call.pnr, VoicePurpose,
              usable /\ "verification_token" \in call.args)
  ELSE VapiActor

ToolDecision(call, owner, usable) ==
  AuthorizeTool(CallActor(call, usable), call.tool, BookingOf(call), owner)

HandleToolCall(call, owner, usable) ==
  IF NamesBooking(call) /\ call.pnr \in {"malformed", "unknown"}
  THEN "booking_not_found"
  ELSE IF ToolDecision(call, owner, usable) # "allow"
  THEN ToolDecision(call, owner, usable)
  ELSE IF call.tool \notin SchemaTools THEN "UNKNOWN_TOOL"
  ELSE IF call.tool \in NotImplemented THEN "not_implemented"
  ELSE IF MapArguments(call) # "mapped" THEN MapArguments(call)
  ELSE "dispatched"

(* The two registries and the mappers agree, as ToolRegistryConsistency-   *)
(* Tests of tests/test_vapi_core.py asks, and a call that satisfies a      *)
(* tool's schema is mapped.                                                *)
ASSUME RegistriesAgree ==
  /\ SchemaTools = MatrixTools \ StaffTools
  /\ RequiresConfirmation \subseteq Mutating
  /\ NotImplemented \subseteq FunctionDefinitions
  /\ \A tool \in Mapped :
       MapArguments([tool |-> tool, pnr |-> "booking", confirmed |-> TRUE,
                     args |-> SchemaRequired[tool] \cup Alternatives(tool)]) = "mapped"
=============================================================================
