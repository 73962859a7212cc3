------------------------------- MODULE Routes -------------------------------
(***************************************************************************)
(* Who may call what: the roles and the permissions seeded for them, and   *)
(* for each controller what its routes ask for with @Roles (one of the     *)
(* roles) and @RequirePermission (all of the permissions).  A decorator of *)
(* a handler replaces one of its class.  Routes marked @Public ask for     *)
(* nothing, not even an account, and are left out.                         *)
(***************************************************************************)

Roles == {"SUPER_ADMIN", "MARKETPLACE_ADMIN", "FINANCE_ADMIN", "LOGISTICS_ADMIN",
          "FLEET_ADMIN", "SUSTAINABILITY_ADMIN", "ADVERTISING_ADMIN", "SALES_AGENT",
          "SELLER", "CHARGING_OPERATOR", "BUYER"}

\* RolePermission rows, which are seeded and never changed.
RolePermissions ==
  [SUPER_ADMIN |-> {"*"},
   MARKETPLACE_ADMIN |->
     {"listings:create", "listings:read", "listings:feature", "listings:delete",
      "sellers:verify", "sellers:suspend", "parts:manage", "stations:approve",
      "stations:reject", "stations:suspend", "stations:read-all"},
   FINANCE_ADMIN |->
     {"invoices:read", "invoices:send", "invoices:cancel", "payments:verify",
      "payments:reject", "payments:refund", "bookings:manage", "bookings:verify",
      "bookings:reject", "platform-settings:manage", "financing:read",
      "financing:send-to-bank"},
   LOGISTICS_ADMIN |-> {"orders:read", "orders:update-status"},
   FLEET_ADMIN |-> {"fleet:read", "fleet:update-status", "listings:read"},
   SUSTAINABILITY_ADMIN |-> {"sustainability:read", "sustainability:manage", "orders:read"},
   ADVERTISING_ADMIN |-> {"promotions:create", "promotions:manage", "listings:feature"},
   SALES_AGENT |->
     {"listings:read", "orders:read", "inquiries:read-all", "inquiries:update-status"},
   SELLER |-> {"listings:create", "listings:read", "parts:create"},
   CHARGING_OPERATOR |->
     {"stations:create", "stations:update", "stations:submit", "stations:read-own"},
   BUYER |->
     {"listings:read", "invoices:create", "payments:submit", "bookings:create",
      "bookings:read", "orders:read", "financing:submit"}]

\* resolvePermissionsForRoleNames
Permissions(roles) ==
  IF "SUPER_ADMIN" \in roles THEN {"*"} ELSE UNION {RolePermissions[r] : r \in roles}

\* PermissionsGuard
HasPermissions(roles, route) ==
  "*" \in Permissions(roles) \/ route.permissions \subseteq Permissions(roles)

\* RolesGuard
HasRole(roles, route) == route.roles = {} \/ route.roles \cap roles # {}

Passes(roles, route) == HasPermissions(roles, route) /\ HasRole(roles, route)

-----------------------------------------------------------------------------
Asking(permissions) == [permissions : {{p} : p \in permissions}, roles : {{}}]
For(roles) == {[permissions |-> {}, roles |-> roles]}
AskingOf(roles, permissions) == [permissions : {{p} : p \in permissions}, roles : {roles}]

\* Any account may: its own profile, wishlist, notifications, requests.
OwnRoutes == For({})

InvoiceRoutes == Asking({"invoices:create"})
AdminInvoiceRoutes ==
  Asking({"invoices:read", "invoices:cancel"}) \cup
  AskingOf({"FLEET_ADMIN", "FINANCE_ADMIN", "SUPER_ADMIN"}, {"invoices:send"})

PaymentRoutes == Asking({"payments:submit"})
AdminPaymentRoutes == Asking({"payments:verify", "payments:reject"})

BookingRoutes == Asking({"bookings:create", "bookings:read"})
AdminBookingRoutes == Asking({"bookings:verify", "bookings:manage", "bookings:reject"})

OrderRoutes == Asking({"orders:read"})
AdminOrderRoutes ==
  AskingOf({"LOGISTICS_ADMIN", "SUPER_ADMIN"}, {"orders:read", "orders:update-status"}) \cup
  Asking({"orders:update-status"}) \cup For({"SUPER_ADMIN"})

MarketplaceAdmins == {"MARKETPLACE_ADMIN", "SUPER_ADMIN"}

ListingRoutes ==
  Asking({"listings:create"}) \cup For({"SELLER", "SUPER_ADMIN", "MARKETPLACE_ADMIN"})
AdminListingEditRoutes ==
  For(MarketplaceAdmins) \cup AskingOf(MarketplaceAdmins, {"listings:create"})
AdminListingReviewRoutes ==
  For({"SUPER_ADMIN"}) \cup Asking({"listings:feature", "listings:delete"}) \cup
  AskingOf(MarketplaceAdmins \cup {"LOGISTICS_ADMIN"}, {"listings:create"})

CategoryRoutes == For(MarketplaceAdmins) \cup For({"SUPER_ADMIN"})
AdminCategoryRoutes == For(MarketplaceAdmins) \cup For({"SUPER_ADMIN"})

PromotionRoutes ==
  AskingOf({"ADVERTISING_ADMIN", "SUPER_ADMIN"}, {"promotions:create", "promotions:manage"})

PricingRoutes == For({"SUPER_ADMIN"})
SettingsRoutes == Asking({"platform-settings:manage"})

PartRoutes == Asking({"parts:create"})
AdminPartRoutes ==
  AskingOf(MarketplaceAdmins, {"parts:manage"}) \cup For({"SUPER_ADMIN"})

SellerRoutes == AskingOf(MarketplaceAdmins, {"sellers:verify", "sellers:suspend"})

StationRoutes ==
  Asking({"stations:read-own", "stations:create", "stations:update", "stations:submit"})
AdminStationRoutes ==
  AskingOf(MarketplaceAdmins, {"stations:read-all", "stations:approve", "stations:reject",
                               "stations:suspend"})

FinancingRoutes == Asking({"financing:submit"})
AdminFinancingRoutes ==
  AskingOf({"FINANCE_ADMIN", "SUPER_ADMIN"}, {"financing:read", "financing:send-to-bank"})
BankRoutes ==
  AskingOf({"FINANCE_ADMIN", "SUPER_ADMIN"}, {"financing:read"}) \cup For({"SUPER_ADMIN"})

FleetRoutes ==
  AskingOf({"FLEET_ADMIN", "SUPER_ADMIN"}, {"fleet:read", "fleet:update-status"})
EnergyRoutes ==
  AskingOf(MarketplaceAdmins, {"parts:manage"}) \cup
  AskingOf({"FLEET_ADMIN", "SUPER_ADMIN"}, {"fleet:read", "fleet:update-status"})

InquiryRoutes == Asking({"inquiries:read-all", "inquiries:update-status"})

SustainabilityRoutes ==
  AskingOf({"SUSTAINABILITY_ADMIN", "SUPER_ADMIN"}, {"sustainability:read"})

ReportRoutes ==
  AskingOf({"FINANCE_ADMIN", "MARKETPLACE_ADMIN", "SUPER_ADMIN"}, {"invoices:read"})
AdminBuyerRoutes ==
  AskingOf({"FLEET_ADMIN", "FINANCE_ADMIN", "SUPER_ADMIN"}, {"invoices:read"})
AdminUserRoutes ==
  For({"SUPER_ADMIN"}) \cup AskingOf({"SUPER_ADMIN"}, {"users:manage-roles"})

Routes ==
  OwnRoutes \cup InvoiceRoutes \cup AdminInvoiceRoutes \cup PaymentRoutes \cup
  AdminPaymentRoutes \cup BookingRoutes \cup AdminBookingRoutes \cup OrderRoutes \cup
  AdminOrderRoutes \cup ListingRoutes \cup AdminListingEditRoutes \cup
  AdminListingReviewRoutes \cup CategoryRoutes \cup AdminCategoryRoutes \cup
  PromotionRoutes \cup PricingRoutes \cup SettingsRoutes \cup PartRoutes \cup
  AdminPartRoutes \cup SellerRoutes \cup StationRoutes \cup AdminStationRoutes \cup
  FinancingRoutes \cup AdminFinancingRoutes \cup BankRoutes \cup FleetRoutes \cup
  EnergyRoutes \cup InquiryRoutes \cup SustainabilityRoutes \cup ReportRoutes \cup
  AdminBuyerRoutes \cup AdminUserRoutes

-----------------------------------------------------------------------------
(* What the decorators and the seed make of each other *)

\* No permission is asked for that was never seeded for a role: a route that is not for
\* the super administrator alone lets some other role through.
ASSUME RoutesAreReachable ==
  \A route \in Routes :
    \/ route.roles = {"SUPER_ADMIN"}
    \/ \E r \in Roles \ {"SUPER_ADMIN"} : Passes({r}, route)

NamedInVain(route) == {r \in route.roles : ~Passes({r}, route)}

\* Four times @Roles names a role that was not given the permission the route asks for as
\* well, so that the route refuses it all the same; nowhere else.
ASSUME FourAreNamedInVain ==
  UNION {NamedInVain(route) \X route.permissions : route \in Routes} =
    {<<"FLEET_ADMIN", "invoices:send">>, <<"FLEET_ADMIN", "invoices:read">>,
     <<"MARKETPLACE_ADMIN", "invoices:read">>, <<"LOGISTICS_ADMIN", "listings:create">>}
=============================================================================
