-------------------------------- MODULE KeyWizard --------------------------------
(***************************************************************************)
(* The wizard of /get-api-keys in one browser page: four steps, back and    *)
(* forth, at the end of which test keys are made and shown.  The keys of    *)
(* one making are a number; what a field holds is whether it would pass.    *)
(* The colours of the progress bar and the messages under a field are left  *)
(* out: they show page and good.                                            *)
(***************************************************************************)
EXTENDS Naturals

CONSTANT MaxMakings  \* bound: how often keys are made

ASSUME WizardAssumption == MaxMakings \in Nat

Field == {"workspaceName", "primaryBusinessEmail", "country"}

DeploymentMode == {"hosted", "customer-validator", "self-hosted"}

VARIABLES
  page,          \* step
  good,          \* the fields whose value passes
  deploymentMode,
  apiKeys,       \* the making the keys are of, 0 for none
  clipboard,     \* the making of the key in the clipboard, 0 for something else
  made,          \* history: makings so far
  showings,      \* history: how often step 4 was entered with each making
  reviewed       \* history: what step 3 showed last

formVars == <<page, good, deploymentMode>>

keyVars == <<apiKeys, clipboard, made, showings>>

wizardVars == <<formVars, keyVars, reviewed>>

WizardTypeOK ==
  /\ page \in 1..4 /\ good \subseteq Field /\ deploymentMode \in DeploymentMode
  /\ apiKeys \in 0..MaxMakings /\ made \in 0..MaxMakings
  /\ clipboard \in 0..MaxMakings
  /\ showings \in [1..MaxMakings -> Nat]
  /\ reviewed \in [fields : SUBSET Field, mode : DeploymentMode]

\* What step 3 shows: the workspace and the deployment mode.
Review == [fields |-> good, mode |-> deploymentMode]

\* Step 3 shows the values the page has, on every way to it.
Turn(to) ==
  /\ page' = to
  /\ reviewed' = IF to = 3 THEN Review ELSE reviewed

\* The inputs of step 1 and the buttons of step 2.
EditField(f, passes) ==
  /\ page = 1
  /\ good' = IF passes THEN good \cup {f} ELSE good \ {f}
  /\ UNCHANGED <<page, deploymentMode, keyVars, reviewed>>

SetDeploymentMode(mode) ==
  /\ page = 2
  /\ deploymentMode' = mode
  /\ UNCHANGED <<page, good, keyVars, reviewed>>

\* canContinue of step 1, and validateStepOne.
CanContinue == Field \subseteq good

Continue ==
  /\ page \in {1, 2} /\ (page = 1 => CanContinue)
  /\ Turn(page + 1)
  /\ UNCHANGED <<good, deploymentMode, keyVars>>

\* Faulty: keys that are there are kept.
KeysToShow == IF apiKeys = 0 THEN made + 1 ELSE apiKeys

\* createMockKeys.
NewKeys == made + 1

CreateKeys ==
  /\ page = 3 /\ made < MaxMakings
  /\ apiKeys' = NewKeys
  /\ made' = made + 1
  /\ Turn(4)
  /\ showings' = [showings EXCEPT ![apiKeys'] = @ + 1]
  /\ UNCHANGED <<good, deploymentMode, clipboard>>

\* Step 4 shows each key, with a button that copies it; a copy that fails is
\* ignored.  What is in the clipboard outlives the page.
CopyKey ==
  /\ page = 4
  /\ clipboard' = apiKeys
  /\ UNCHANGED <<formVars, apiKeys, made, showings, reviewed>>

HandleBack ==
  /\ page > 1
  /\ Turn(page - 1)
  /\ UNCHANGED <<good, deploymentMode, keyVars>>

WizardInit ==
  /\ page = 1 /\ good = {} /\ deploymentMode = "hosted"
  /\ apiKeys = 0 /\ made = 0 /\ showings = [k \in 1..MaxMakings |-> 0]
  /\ clipboard = 0 /\ reviewed = [fields |-> {}, mode |-> "hosted"]

\* Cancel, or leaving the page: what it kept is gone.
LeavePage ==
  /\ page' = 1 /\ good' = {} /\ deploymentMode' = "hosted" /\ apiKeys' = 0
  /\ UNCHANGED <<clipboard, made, showings, reviewed>>

WizardNext ==
  \/ \E f \in Field, passes \in BOOLEAN : EditField(f, passes)
  \/ \E mode \in DeploymentMode : SetDeploymentMode(mode)
  \/ Continue \/ CreateKeys \/ CopyKey \/ HandleBack \/ LeavePage

-----------------------------------------------------------------------------
\* Keys are shown only for a workspace whose fields all pass and that is, with its
\* mode, what the last review showed, although both can be changed again after the
\* review, and after keys were made.
ShownForWorkspace ==
  page = 4 => Field \subseteq good /\ reviewed = Review /\ apiKeys # 0

\* "This is the only time we'll show the full secret": no way back and forth through
\* the wizard comes to the same keys twice.
ShownOnce == \A k \in 1..MaxMakings : showings[k] <= 1

\* A key that was copied is one that was shown, once, also when the page was left or
\* keys were made again since.
CopiedWasShown == clipboard # 0 => showings[clipboard] = 1

\* What step 4 shows is new, and for a workspace that was checked and reviewed.
ShowingIsRight == ShownForWorkspace /\ ShownOnce /\ CopiedWasShown

=============================================================================
