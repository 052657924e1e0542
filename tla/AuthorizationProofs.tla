------------------------- MODULE AuthorizationProofs ------------------------
(***************************************************************************)
(* What the authorization decisions guarantee for every actor, customer,   *)
(* booking and purpose.                                                    *)
(***************************************************************************)
EXTENDS Authorization, TLAPS

(* ownership.py:84: a customer holds the permission strings that staff     *)
(* hold, and still reaches no resource but her own.                        *)
THEOREM CustomersKeepToTheirOwn ==
  ASSUME NEW customer, NEW status, NEW roles \in SUBSET {"CUSTOMER"},
         NEW owner, NEW permission, NEW booking, NEW purpose,
         AuthorizeResource(Human(customer, roles, status), owner, permission,
                           booking, purpose) = "allow"
  PROVE  customer = owner /\ customer # Nobody
<1> DEFINE actor == Human(customer, roles, status)
<1>1. actor.kind = "human_user" /\ actor.customer = customer /\ actor.roles = roles
  BY DEF Human, Anonymous
<1>2. ~IsStaff(actor)
  BY <1>1 DEF IsStaff
<1>3. HumanDecision(actor, owner, permission) = "allow"
  BY <1>1 DEF AuthorizeResource
<1> QED
  BY <1>1, <1>2, <1>3 DEF HumanDecision

(* ownership.py:217 and 234: a verification token opens neither a payment  *)
(* nor a profile, whatever it was earned for.                              *)
THEOREM TokensOpenOneBooking ==
  ASSUME NEW actor, actor.kind \in {"anonymous_verified", "vapi_agent"},
         NEW owner, NEW booking, NEW permission
  PROVE  /\ RequirePaymentAccess(actor, owner, booking, permission) # "allow"
         /\ RequireProfileAccess(actor, owner, permission) # "allow"
         /\ RequireStaffPermission(actor, permission) # "allow"
<1>1. AuthorizeResource(actor, owner, permission, booking, Nobody) # "allow"
  BY DEF AuthorizeResource, TokenDecision
<1>2. AuthorizeResource(actor, owner, permission, Nobody, Nobody) # "allow"
  BY DEF AuthorizeResource, TokenDecision
<1>3. RequireAuthenticatedUser(actor) = "AUTHENTICATION_REQUIRED"
  BY DEF RequireAuthenticatedUser, IsAuthenticatedHuman
<1> QED
  BY <1>1, <1>2, <1>3
  DEF RequirePaymentAccess, AuthorizePayment, RequireProfileAccess, AuthorizeProfile,
      RequireStaffPermission, SignedInAnd

(* deps_auth.py:188: the token presented with a request upgrades it for    *)
(* the booking it names only if it is usable, so a request without an      *)
(* account that is let through has presented a usable token.               *)
THEOREM StrangersNeedAToken ==
  ASSUME NEW owner, NEW booking, NEW permission, NEW purpose,
         booking # Nobody, NEW usable \in BOOLEAN,
         RequireBookingAccess(Anonymous, owner, booking, permission, purpose,
                              usable) = "allow"
  PROVE  usable
<1> SUFFICES ASSUME ~usable PROVE FALSE
  OBVIOUS
<1>1. Redeem(Anonymous, booking, purpose, usable) = Anonymous
  BY DEF Redeem
<1>2. Anonymous.kind = "anonymous_verified" /\ Anonymous.booking = Nobody
  BY DEF Anonymous
<1>3. ~HasValidBookingVerification(Anonymous, booking, purpose)
  BY <1>2 DEF HasValidBookingVerification
<1>4. TokenDecision(Anonymous, booking, purpose) = "BOOKING_VERIFICATION_REQUIRED"
  BY <1>3 DEF TokenDecision
<1>5. AuthorizeResource(Anonymous, owner, permission, booking, purpose)
        = "BOOKING_VERIFICATION_REQUIRED"
  BY <1>2, <1>4 DEF AuthorizeResource
<1> QED
  BY <1>1, <1>5 DEF RequireBookingAccess, AuthorizeBooking

(* routes/payments.py:168: a refund is for FINANCE and administrators,     *)
(* whatever other roles its caller has and whoever owns the booking.       *)
THEOREM RefundsAreForFinance ==
  ASSUME NEW customer, NEW status, NEW roles \in SUBSET Roles,
         NEW owner, NEW booking,
         RequirePaymentAccess(Human(customer, roles, status), owner, booking,
                              "payments.refund") = "allow"
  PROVE  roles \cap {"FINANCE", "ADMIN", "SUPER_ADMIN"} # {}
<1> DEFINE actor == Human(customer, roles, status)
<1>1. actor.kind = "human_user" /\ actor.permissions = PermissionsOf(roles)
  BY DEF Human, Anonymous
<1>2. HumanDecision(actor, owner, "payments.refund") = "allow"
  BY <1>1 DEF RequirePaymentAccess, AuthorizePayment, AuthorizeResource
<1>3. "payments.refund" \in PermissionsOf(roles)
  BY <1>1, <1>2 DEF HumanDecision
<1>4. PICK role \in roles : "payments.refund" \in RolePermissions[role]
  BY <1>3 DEF PermissionsOf
<1>5. role \in {"FINANCE", "ADMIN", "SUPER_ADMIN"}
  BY <1>4 DEF RolePermissions, Roles, BookingPermissions
<1> QED
  BY <1>4, <1>5

(* vapi_authorization.py:121: the voice agent can never act as staff: it   *)
(* is granted nothing that a customer does not hold besides the right to   *)
(* run tools and to ask for support, and a staff tool is refused to every  *)
(* actor, whatever permissions it holds.                                   *)
THEOREM VoiceIsNeverStaff ==
  /\ VapiAssistantPermissions
       \subseteq RolePermissions["CUSTOMER"] \cup {"vapi.execute", "support.read"}
  /\ \A actor, tool, booking, owner :
       tool \in StaffTools => AuthorizeTool(actor, tool, booking, owner) # "allow"
<1>1. ASSUME NEW tool \in MatrixTools \ StaffTools
      PROVE  ToolPermission[tool] \in RolePermissions["CUSTOMER"] \cup {"support.read"}
  <2>1. tool \in PublicTools \cup VerifiedTools
    BY DEF MatrixTools
  <2>2. RolePermissions["CUSTOMER"] = BookingPermissions \cup
         {"customers.read", "customers.manage", "passengers.read",
          "passengers.manage", "payments.read", "payments.create",
          "flights.read"}
    BY DEF RolePermissions, Roles
  <2> QED
    BY <2>1, <2>2 DEF ToolPermission, MatrixTools, PublicTools, VerifiedTools,
                      StaffTools, BookingPermissions
<1>2. ASSUME NEW actor, NEW tool \in StaffTools, NEW booking, NEW owner
      PROVE  AuthorizeTool(actor, tool, booking, owner) # "allow"
  BY DEF AuthorizeTool, MatrixTools
<1> QED
  BY <1>1, <1>2 DEF VapiAssistantPermissions
=============================================================================
