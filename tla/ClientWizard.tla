---------------------------- MODULE ClientWizard ----------------------------
(***************************************************************************)
(* The wizard that makes a client, over the clients page.  Its steps       *)
(* depend on the kind of application; each is checked when it is left       *)
(* forwards, but any step visited before can be jumped to.                 *)
(***************************************************************************)
EXTENDS Console

CONSTANT Uris   \* redirect URIs the administrator may add

VARIABLE wizard

SubTypes == {"spa", "mobile", "api_server", "m2m"}

\* APP_SUB_TYPES.  implicit and password are in no sub-type's list.
Public == {"spa", "mobile"}
Interactive == {"authorization_code", "refresh_token"}
DefaultGrantTypes(s) == IF s = "m2m" THEN {"client_credentials"} ELSE Interactive
RelevantGrantTypes(s) ==
    DefaultGrantTypes(s) \cup (IF s = "api_server" THEN {"client_credentials"} ELSE {})

\* getStepsForSubType: type, basic information, URIs, review.
StepsForSubType(s) == IF s = "m2m" THEN {1, 2, 4} ELSE 1..4

DefaultForm == [step |-> 1, visited |-> 1, subType |-> "spa", named |-> FALSE,
                redirectUris |-> {}, grantTypes |-> DefaultGrantTypes("spa")]

WizardInit == wizard = DefaultForm

Steps == StepsForSubType(wizard.subType)

InWizard == At("clients", "clients") /\ ui.dialog = "wizard"

\* Only the wizard changes.
Stays == UNCHANGED vars

-----------------------------------------------------------------------------
(* Navigation                                                               *)

GoToStep(n) ==
    wizard' = [wizard EXCEPT !.step = n, !.visited = IF n > @ THEN n ELSE @]

\* What blocks leaving a step forwards; an api_server may go without URIs.
CanProceed ==
    CASE wizard.step = 2 -> wizard.named
      [] wizard.step = 3 -> wizard.subType \in Public => wizard.redirectUris # {}
      [] OTHER -> TRUE

HandleNext ==
    /\ InWizard /\ CanProceed /\ Stays
    /\ \E n \in Steps : /\ n > wizard.step
                        /\ \A k \in Steps : k > wizard.step => n <= k
                        /\ GoToStep(n)

HandleBack ==
    /\ InWizard /\ Stays
    /\ \E n \in Steps : /\ n < wizard.step
                        /\ \A k \in Steps : k < wizard.step => k <= n
                        /\ wizard' = [wizard EXCEPT !.step = n]

WizardStepper ==
    /\ InWizard /\ Stays
    /\ \E n \in Steps : n # wizard.step /\ n <= wizard.visited /\ GoToStep(n)

-----------------------------------------------------------------------------
(* Steps                                                                    *)

OnStep(n) == InWizard /\ wizard.step = n /\ Stays

\* Mutant: the grants chosen for another type stay.
SubTypeSelectKeepsGrants ==
    OnStep(1) /\ \E s \in SubTypes : wizard' = [wizard EXCEPT !.subType = s]

HandleSubTypeSelect ==
    /\ OnStep(1)
    /\ \E s \in SubTypes :
          wizard' = [wizard EXCEPT !.subType = s, !.grantTypes = DefaultGrantTypes(s)]

\* The client id follows the name; scopes and the description guard nothing.
StepBasicInfo == OnStep(2) /\ wizard' = [wizard EXCEPT !.named = ~@]

\* handleAdd and handlePaste add one URI after the other, each to the list as it
\* was at first: of several, the last one is left.
UriList ==
    /\ OnStep(3)
    /\ \E u \in Uris :
          wizard' = [wizard EXCEPT !.redirectUris = IF u \in @ THEN @ \ {u} ELSE @ \cup {u}]

\* handleAddDevUris adds all suggestions at once.
HandleAddDevUris ==
    /\ OnStep(3) /\ ~(Uris \subseteq wizard.redirectUris)
    /\ wizard' = [wizard EXCEPT !.redirectUris = Uris]

StepReview ==
    /\ OnStep(4) /\ wizard.subType # "m2m"
    /\ \E g \in RelevantGrantTypes(wizard.subType) :
          /\ g = "client_credentials" => wizard.subType \notin Public
          /\ wizard' = [wizard EXCEPT !.grantTypes = IF g \in @ THEN @ \ {g} ELSE @ \cup {g}]

-----------------------------------------------------------------------------
\* Closed, the wizard loses its form: 200 ms later, so that closing it and
\* opening it again by then is as if nothing had happened.
ResetWizard == wizard' = IF ui'.dialog = "wizard" THEN wizard ELSE DefaultForm

\* What the server asks of a new client.
Complete ==
    /\ wizard.named
    /\ wizard.redirectUris # {} \/ wizard.grantTypes = {"client_credentials"}

WizardNext ==
    \/ HandleNext \/ HandleBack \/ WizardStepper \/ HandleSubTypeSelect
    \/ StepBasicInfo \/ UriList \/ HandleAddDevUris \/ StepReview

(***************************************************************************)
(* Whatever was chosen, undone and jumped over, the wizard stands on a     *)
(* step its kind of application has, and the grants are of that kind: a    *)
(* machine has client_credentials and nothing else, a public client never  *)
(* has it.                                                                 *)
(***************************************************************************)
WizardFits ==
    /\ wizard.step \in Steps /\ wizard.step <= wizard.visited
    /\ wizard.grantTypes \subseteq RelevantGrantTypes(wizard.subType)
    /\ wizard.subType = "m2m" => wizard.grantTypes = {"client_credentials"}

=============================================================================
