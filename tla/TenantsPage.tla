----------------------------- MODULE TenantsPage -----------------------------
(***************************************************************************)
(* The list of tenants, the dashboard that counts them, a tenant's first   *)
(* page ("side" is its query), and the wizard that makes a tenant: basics, *)
(* infrastructure, review.  Of the wizard's sections "db" stands for those *)
(* that are incomplete until filled in (database, mail, social login).     *)
(***************************************************************************)
EXTENDS Console

VARIABLE setup

Sections == {"db", "cache"}

\* The cache is complete while it is in memory.
EmptySetup == [step |-> 0, valid |-> FALSE, enabled |-> {}, complete |-> {"cache"}]

SetupInit == setup = EmptySetup

OpenTenants    == Go("tenants", "tenants", FALSE, {"list"})
OpenDashboard  == Go("tenants", "dashboard", FALSE, {"list"})
OpenTenant     == Go("tenants", "tenant", FALSE, {"side"})

OnTenants == At("tenants", "tenants")

SearchTenants  == OnTenants /\ Filter
RefreshTenants == area = "tenants" /\ Refetch("list")

\* The page of a deleted tenant keeps its data.
DeleteTenant == [Mutation("deleteTenant", "none", {"list"}) EXCEPT
                   !.misses = {"side"}, !.closes = {"delete"}]
CreateTenant == [Mutation("createTenant", "new", {"list"}) EXCEPT
                   !.misses = {"side"}, !.closes = {"wizard"}]
TestConnection == Mutation("testConnection", "hidden", {})

TenantRow(i) == OnTenants /\ Free /\ i \in Rows /\ Show("delete", i, FALSE)

HandleDeleteTenant ==
    /\ OnTenants /\ ui.dialog = "delete" /\ ~Pending(DeleteTenant)
    /\ Send(DeleteTenant, {ui.item})

AskCreateTenant ==
    (OnTenants \/ At("tenants", "dashboard")) /\ Free /\ Show("wizard", NoItem, FALSE)

CloseTenantDialog == area = "tenants" /\ Close({"wizard", "delete"})

-----------------------------------------------------------------------------
(* CreateTenantWizard                                                       *)

InSetup(n) == area = "tenants" /\ ui.dialog = "wizard" /\ setup.step = n

\* A name of two letters and a slug.
SetupBasics == InSetup(0) /\ setup' = [setup EXCEPT !.valid = ~@] /\ UNCHANGED vars

\* The switches, and the fields of the sections switched on.
ExpandableSection ==
    /\ InSetup(1) /\ UNCHANGED vars
    /\ \E s \in Sections :
          \/ setup' = [setup EXCEPT !.enabled = IF s \in @ THEN @ \ {s} ELSE @ \cup {s}]
          \/ /\ s \in setup.enabled
             /\ setup' = [setup EXCEPT !.complete = IF s \in @ THEN @ \ {s} ELSE @ \cup {s}]

HasIncompleteInfrastructure == ~(setup.enabled \subseteq setup.complete)

\* Mutant: sections are not asked.
NextStepUnasked ==
    /\ \/ InSetup(0) /\ setup.valid
       \/ InSetup(1)
    /\ setup' = [setup EXCEPT !.step = @ + 1] /\ UNCHANGED vars

SetupNextStep ==
    /\ \/ InSetup(0) /\ setup.valid
       \/ InSetup(1) /\ ~HasIncompleteInfrastructure
    /\ setup' = [setup EXCEPT !.step = @ + 1] /\ UNCHANGED vars

\* The back button and the stepper, which only goes back.
SetupBack ==
    \E n \in 1..2, k \in 0..1 :
       InSetup(n) /\ k < n /\ setup' = [setup EXCEPT !.step = k] /\ UNCHANGED vars

SetupTestConnection ==
    /\ InSetup(1) /\ "db" \in setup.enabled /\ ~Pending(TestConnection)
    /\ Send(TestConnection, {Every}) /\ UNCHANGED setup

HandleCreateTenant(i) ==
    /\ InSetup(2) /\ ~Pending(CreateTenant)
    /\ Send(CreateTenant, {i}) /\ UNCHANGED setup

\* 300 ms after it was closed: the timer is not stopped when it opens again.
ResetSetup ==
    /\ area = "tenants" /\ setup # EmptySetup /\ UNCHANGED vars
    /\ setup' = EmptySetup

SetupNext ==
    \/ SetupBasics \/ ExpandableSection \/ SetupNextStep \/ SetupBack
    \/ SetupTestConnection \/ ResetSetup
    \/ \E i \in Items : HandleCreateTenant(i)

TenantsNext ==
    \/ OpenTenants \/ OpenDashboard \/ OpenTenant \/ SearchTenants \/ RefreshTenants
    \/ HandleDeleteTenant \/ AskCreateTenant \/ CloseTenantDialog
    \/ \E i \in Items : TenantRow(i)

(***************************************************************************)
(* What can be submitted was complete in each step, however often the      *)
(* administrator went back and changed something, and whenever a reset     *)
(* left over from an earlier opening came.                                 *)
(***************************************************************************)
SetupComplete ==
    /\ setup.step > 0 => setup.valid
    /\ setup.step = 2 => ~HasIncompleteInfrastructure

=============================================================================
