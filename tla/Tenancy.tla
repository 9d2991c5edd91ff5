------------------------------- MODULE Tenancy -------------------------------
(***************************************************************************)
(* The names that the services behind the tenant middleware share.  Every  *)
(* request carries a TenantContext: the tenant it acts for, a role and,    *)
(* unless it came with an API key, a user.                                 *)
(***************************************************************************)
EXTENDS FiniteSets

CONSTANTS
    Users,
    Tenants,
    NoUser,
    NoTenant

Admin == "tenant_admin"

ASSUME TenancyAssumption ==
    NoUser \notin Users /\ NoTenant \notin Tenants /\ IsFiniteSet(Users)

=============================================================================
