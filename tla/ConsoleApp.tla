----------------------------- MODULE ConsoleApp -----------------------------
(***************************************************************************)
(* The console: its areas together, over what they share.  The forms of    *)
(* the two wizards have variables of their own.                            *)
(***************************************************************************)
EXTENDS TokensPage, UsersPage, SessionsPage, ConsentsPage, RbacPage, ScopesPage,
        ClaimsPage, ClientsPage, TenantsPage, KeysPage, ClusterPage

AppInit == Init /\ WizardInit /\ SetupInit

\* The pages of the area in which the administrator works.
Pages ==
    \/ area = "tokens"   /\ TokensNext
    \/ area = "users"    /\ UsersNext
    \/ area = "sessions" /\ SessionsNext
    \/ area = "consents" /\ ConsentsNext
    \/ area \in {"roles", "assignments"} /\ RbacNext
    \/ area = "scopes"   /\ ScopesNext
    \/ area = "claims"   /\ ClaimsNext
    \/ area = "clients"  /\ ClientsNext
    \/ area = "tenants"  /\ TenantsNext
    \/ area = "keys"     /\ KeysNext
    \/ area = "cluster"  /\ ClusterNext

Next ==
    \/ Shared /\ ResetWizard /\ UNCHANGED setup
    \/ Pages /\ ResetWizard /\ UNCHANGED setup
    \/ WizardNext /\ UNCHANGED setup
    \/ SetupNext /\ ResetWizard

Spec == AppInit /\ [][Next]_<<vars, wizard, setup>>

=============================================================================
