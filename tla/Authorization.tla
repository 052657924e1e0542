--------------------------- MODULE Authorization ---------------------------
(***************************************************************************)
(* Who may do what: roles and the permissions they carry (rbac.py), the    *)
(* actor of a request (actor.py), the one decision every resource goes     *)
(* through (ownership.py), the checks routes make with it (deps_auth.py)   *)
(* and the policy of the voice tools (vapi_authorization.py).              *)
(*                                                                         *)
(* A decision is "allow" or the error code of the refusal.  Customers,     *)
(* bookings and purposes are opaque; Nobody stands for Python's None.      *)
(***************************************************************************)
Nobody == "none"

Roles == {"CUSTOMER", "SUPPORT_AGENT", "BOOKING_AGENT", "FINANCE", "ADMIN",
          "SUPER_ADMIN", "READ_ONLY"}

Permissions ==
  {"users.read", "users.manage", "customers.read", "customers.manage",
   "passengers.read", "passengers.manage", "flights.read", "flights.manage",
   "bookings.read", "bookings.create", "bookings.modify", "bookings.cancel",
   "payments.read", "payments.create", "payments.refund",
   "calls.read", "calls.manage", "support.read", "support.manage",
   "vapi.execute", "vapi.configure", "admin.read", "admin.manage",
   "system.manage", "audit.read", "audit.export"}

BookingPermissions ==
  {"bookings.read", "bookings.create", "bookings.modify", "bookings.cancel"}

RolePermissions == [role \in Roles |->
  CASE role = "CUSTOMER" -> BookingPermissions \cup
         {"customers.read", "customers.manage", "passengers.read",
          "passengers.manage", "payments.read", "payments.create",
          "flights.read"}
    [] role = "READ_ONLY" ->
         {"users.read", "customers.read", "passengers.read", "flights.read",
          "bookings.read", "payments.read", "calls.read", "support.read",
          "audit.read"}
    [] role = "SUPPORT_AGENT" ->
         {"customers.read", "passengers.read", "flights.read",
          "bookings.read", "bookings.modify", "bookings.cancel",
          "calls.read", "calls.manage", "support.read", "support.manage"}
    [] role = "BOOKING_AGENT" -> BookingPermissions \cup
         {"customers.read", "passengers.read", "passengers.manage",
          "flights.read"}
    [] role = "FINANCE" ->
         {"bookings.read", "payments.read", "payments.create",
          "payments.refund", "audit.read"}
    [] role = "ADMIN" -> Permissions \ {"payments.create", "system.manage"}
    [] role = "SUPER_ADMIN" -> Permissions]

(* A user without a role has no permission; a role outside the matrix is   *)
(* an error in the code and not a member of Roles here.                    *)
PermissionsOf(roles) == UNION {RolePermissions[role] : role \in roles}

-----------------------------------------------------------------------------
(* Actors.  The user behind a "human_user" always has an id.               *)

Anonymous ==
  [kind |-> "anonymous_verified", customer |-> Nobody, roles |-> {},
   permissions |-> {}, status |-> Nobody, authenticated |-> FALSE,
   booking |-> Nobody, purpose |-> Nobody, verification |-> Nobody]

Human(customer, roles, status) ==
  [Anonymous EXCEPT !.kind = "human_user", !.customer = customer,
                    !.roles = roles, !.permissions = PermissionsOf(roles),
                    !.status = status]

IsAuthenticatedHuman(actor) == actor.kind = "human_user"
IsStaff(actor) == IsAuthenticatedHuman(actor) /\ actor.roles \ {"CUSTOMER"} # {}

HasValidBookingVerification(actor, booking, purpose) ==
  /\ actor.booking = booking
  /\ actor.purpose = purpose
  /\ actor.verification = "VERIFIED"

(* get_current_actor: what a session cookie makes of its holder.  live:    *)
(* the cookie names a session that is neither revoked nor expired; user:   *)
(* the session's user.                                                     *)
CurrentActor(live, user) ==
  IF live /\ ~user.deleted /\ user.status # "DISABLED"
  THEN Human(user.customer, user.roles, user.status)
  ELSE Anonymous

(* redeem_verification_token: usable says that the presented token passes  *)
(* VerificationSessionService.check for this booking and purpose.          *)
Redeem(actor, booking, purpose, usable) ==
  IF actor.kind \in {"anonymous_verified", "vapi_agent"} /\ usable
  THEN [actor EXCEPT !.booking = booking, !.purpose = purpose,
                     !.verification = "VERIFIED"]
  ELSE actor

-----------------------------------------------------------------------------
(* The decision.  booking and purpose are Nobody where a caller has none.  *)

HumanDecision(actor, owner, permission) ==
  IF actor.customer # Nobody /\ actor.customer = owner
  THEN IF permission \in actor.permissions THEN "allow" ELSE "PERMISSION_DENIED"
  ELSE IF IsStaff(actor) /\ permission \in actor.permissions THEN "allow"
       ELSE "FORBIDDEN"

TokenDecision(actor, booking, purpose) ==
  IF purpose = Nobody \/ booking = Nobody
       \/ ~HasValidBookingVerification(actor, booking, purpose)
  THEN "BOOKING_VERIFICATION_REQUIRED"
  ELSE IF actor.kind = "vapi_agent"
            /\ ~(actor.authenticated /\ "vapi.execute" \in actor.permissions)
       THEN "AUTHENTICATION_REQUIRED"
       ELSE "allow"

AuthorizeResource(actor, owner, permission, booking, purpose) ==
  CASE actor.kind = "human_user" -> HumanDecision(actor, owner, permission)
    [] actor.kind = "anonymous_verified" -> TokenDecision(actor, booking, purpose)
    [] actor.kind = "vapi_agent" -> TokenDecision(actor, booking, purpose)
    [] OTHER -> "FORBIDDEN"

AuthorizeBooking(actor, owner, booking, permission, purpose) ==
  AuthorizeResource(actor, owner, permission, booking, purpose)

(* A passenger belongs to whoever owns the booking.                        *)
AuthorizePassenger(actor, owner, booking, permission, purpose) ==
  AuthorizeResource(actor, owner, permission, booking, purpose)

(* Profiles and payments have no path for a verification token.            *)
AuthorizeProfile(actor, customer, permission) ==
  AuthorizeResource(actor, customer, permission, Nobody, Nobody)

AuthorizePayment(actor, owner, booking, permission) ==
  AuthorizeResource(actor, owner, permission, booking, Nobody)

(* Lists have no owner: a role beyond CUSTOMER and the permission.         *)
AuthorizeStaff(actor, permission) ==
  IF IsStaff(actor) /\ permission \in actor.permissions THEN "allow"
  ELSE "FORBIDDEN"

-----------------------------------------------------------------------------
(* The dependencies of routes.  Those that begin with a signed-in user     *)
(* refuse a suspended one; those of a single booking, passenger or payment *)
(* take the actor of any request.                                          *)

RequireAuthenticatedUser(actor) ==
  IF ~IsAuthenticatedHuman(actor) THEN "AUTHENTICATION_REQUIRED"
  ELSE IF actor.status = "SUSPENDED" THEN "ACCOUNT_SUSPENDED"
  ELSE "allow"

SignedInAnd(actor, decision) ==
  LET signedIn == RequireAuthenticatedUser(actor)
  IN  IF signedIn = "allow" THEN decision ELSE signedIn

RequirePermission(actor, permission) ==
  SignedInAnd(actor,
    IF permission \in actor.permissions THEN "allow" ELSE "PERMISSION_DENIED")

RequireStaffPermission(actor, permission) ==
  SignedInAnd(actor, AuthorizeStaff(actor, permission))

RequireRole(actor, roles) ==
  SignedInAnd(actor,
    IF actor.roles \cap roles # {} THEN "allow" ELSE "FORBIDDEN")

RequireAdmin(actor) == RequirePermission(actor, "admin.manage")

RequireProfileAccess(actor, customer, permission) ==
  AuthorizeProfile(actor, customer, permission)

RequireBookingAccess(actor, owner, booking, permission, purpose, usable) ==
  AuthorizeBooking(Redeem(actor, booking, purpose, usable),
                   owner, booking, permission, purpose)

RequirePassengerAccess(actor, owner, booking, permission, purpose, usable) ==
  AuthorizePassenger(Redeem(actor, booking, purpose, usable),
                     owner, booking, permission, purpose)

RequirePaymentAccess(actor, owner, booking, permission) ==
  AuthorizePayment(actor, owner, booking, permission)

-----------------------------------------------------------------------------
(* Voice tools.                                                            *)

PublicTools == {"search_flights", "get_flight_details",
  "get_aircraft_availability", "get_fare_quote", "get_cancellation_policy",
  "get_baggage_policy", "verify_booking_customer", "create_booking",
  "transfer_to_human", "create_callback_request"}

VerifiedTools == {"get_booking", "modify_booking", "cancel_booking",
  "add_passenger", "remove_passenger", "add_baggage", "get_seat_options",
  "select_seat", "create_payment_session", "get_payment_status",
  "create_support_ticket"}

StaffTools == {"refund_payment", "configure_assistant"}

MatrixTools == PublicTools \cup VerifiedTools \cup StaffTools

ToolPermission == [tool \in MatrixTools |->
  CASE tool \in {"search_flights", "get_flight_details", "get_fare_quote",
                 "get_aircraft_availability", "get_baggage_policy"} -> "flights.read"
    [] tool \in {"get_cancellation_policy", "verify_booking_customer",
                 "get_booking", "get_seat_options"} -> "bookings.read"
    [] tool \in {"modify_booking", "select_seat"} -> "bookings.modify"
    [] tool \in {"add_passenger", "remove_passenger", "add_baggage"} ->
         "passengers.manage"
    [] tool \in {"transfer_to_human", "create_support_ticket",
                 "create_callback_request"} -> "support.read"
    [] tool = "create_booking" -> "bookings.create"
    [] tool = "cancel_booking" -> "bookings.cancel"
    [] tool = "create_payment_session" -> "payments.create"
    [] tool = "get_payment_status" -> "payments.read"
    [] tool = "refund_payment" -> "payments.refund"
    [] tool = "configure_assistant" -> "vapi.configure"]

VapiAssistantPermissions ==
  {"vapi.execute"} \cup {ToolPermission[tool] : tool \in MatrixTools \ StaffTools}

VoicePurpose == "vapi_tool_access"

(* The actor of a webhook whose shared secret matched.                     *)
VapiActor ==
  [Anonymous EXCEPT !.kind = "vapi_agent", !.authenticated = TRUE,
                    !.permissions = VapiAssistantPermissions]

AuthorizeTool(actor, tool, booking, owner) ==
  IF actor.kind # "vapi_agent" \/ ~actor.authenticated
  THEN "AUTHENTICATION_REQUIRED"
  ELSE IF tool \notin MatrixTools THEN "FORBIDDEN"
  ELSE IF tool \in StaffTools \/ ToolPermission[tool] \notin actor.permissions
  THEN "PERMISSION_DENIED"
  ELSE IF tool \in PublicTools THEN "allow"
  ELSE IF booking = Nobody THEN "BOOKING_VERIFICATION_REQUIRED"
  ELSE AuthorizeBooking(actor, owner, booking, ToolPermission[tool], VoicePurpose)
=============================================================================
