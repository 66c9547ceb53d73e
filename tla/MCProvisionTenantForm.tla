----------------------- MODULE MCProvisionTenantForm -----------------------
(* Two POSTs of the form, or one and a sign-up, for tenants of two e-mails,  *)
(* one of which may be invited to the other's tenant or to its own.          *)
EXTENDS ProvisionTenantForm

CONSTANTS ann, bob

MCSeats == {{}, {bob}}
=============================================================================
