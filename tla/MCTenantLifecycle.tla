------------------------ MODULE MCTenantLifecycle ------------------------
(* The default content of a tenant: a namespace and its network.          *)
EXTENDS TenantLifecycle

CONSTANTS ns1, net

DefaultContent == <<ns1, net>>

=============================================================================
