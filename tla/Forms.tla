---------------------------------- MODULE Forms ----------------------------------
(***************************************************************************)
(* The forms of the window that change the cluster: the dialogs            *)
(* (ui/src/components/dialogs, CreateSecretDialog), the editors of labels  *)
(* and selectors in a panel, the wizards, the restore form and the form    *)
(* for a namespace.                                                        *)
(*                                                                         *)
(* A form holds what the user entered and sends it, with the name of the   *)
(* resource it is open for, when a button is pressed.  A dialog that its   *)
(* page keeps mounted holds it until something resets it, and the answer   *)
(* comes when the dialog may be closed, or open for another resource.      *)
(* Scale, delete, restart and drain are dialogs no page mounts yet: their  *)
(* model is a parent that opens and closes them by "open", as their tests  *)
(* do.  Another path is another page, with forms of its own.               *)
(***************************************************************************)
EXTENDS FiniteSets, Naturals

CONSTANTS Entry,      \* resources a form is opened for; texts the user can enter
          Namesakes,  \* those that have one name, each in a namespace of its own
          Nothing,    \* no resource, no text
          MaxSent     \* bound: calls under way

ASSUME FormAssumption ==
  Nothing \notin Entry /\ Namesakes \subseteq Entry /\ MaxSent \in Nat \ {0}

VARIABLES
  form,       \* the form on the screen
  open,       \* what it is open for
  text,       \* what its fields were entered for; of a wizard: what they say
  preview,    \* preview, strippedYaml: the text it was made from
  step,       \* a wizard's step
  broken,     \* previewError
  waiting,    \* loading, saving, applying, creating
  sent        \* calls under way

formVars == <<form, open, text, preview, step, broken, waiting, sent>>

-----------------------------------------------------------------------------
\* What a form does with its state.  fresh: it is mounted when it is opened;
\* resets: it takes the fields of the resource it is opened for; clears: and an
\* effect puts its "loading" to FALSE; checks: it can be sent only when the name
\* that was entered is this resource's; closes: a call that succeeds closes it;
\* empties: and empties its fields.
Form == [fresh : BOOLEAN, resets : BOOLEAN, clears : BOOLEAN, checks : BOOLEAN,
         closes : BOOLEAN, empties : BOOLEAN]
Dialog == [fresh |-> FALSE, resets |-> FALSE, clears |-> FALSE, checks |-> FALSE,
           closes |-> TRUE, empties |-> FALSE]

ScaleDialog        == Dialog
DrainDialog        == Dialog
RestartDialog      == Dialog
DeleteDialog       == [Dialog EXCEPT !.checks = TRUE]
UpgradeDialog      == [Dialog EXCEPT !.resets = TRUE, !.clears = TRUE]
InstallDialog      == UpgradeDialog
ForwardDialog      == [UpgradeDialog EXCEPT !.fresh = TRUE]
SecretDialog       == [Dialog EXCEPT !.fresh = TRUE]
NamespaceForm      == [Dialog EXCEPT !.empties = TRUE]
LabelEditor        == [Dialog EXCEPT !.fresh = TRUE, !.resets = TRUE, !.closes = FALSE]
SelectorEditor     == LabelEditor

FormOf == [scale |-> ScaleDialog, drain |-> DrainDialog, restart |-> RestartDialog,
           delete |-> DeleteDialog, upgrade |-> UpgradeDialog, install |-> InstallDialog,
           forward |-> ForwardDialog, secret |-> SecretDialog, namespace |-> NamespaceForm,
           labels |-> LabelEditor, selectors |-> SelectorEditor]

Dialogs == DOMAIN FormOf

\* Forms on a page of their own, with a preview.  keeps: what was previewed is
\* what is applied; else the manifest is built from the fields once more.
\* steps: the preview is the last step of several, which is entered when it has
\* come, and the only one with "Apply"; else it stands beside the text.
DeploymentWizard == [keeps |-> TRUE,  steps |-> TRUE]
ServiceWizard    == [keeps |-> FALSE, steps |-> TRUE]
ConfigMapWizard  == [keeps |-> FALSE, steps |-> TRUE]
SecretWizard     == [keeps |-> FALSE, steps |-> TRUE]
RestoreForm      == [keeps |-> TRUE,  steps |-> FALSE]

WizardOf == [deploymentWizard |-> DeploymentWizard, serviceWizard |-> ServiceWizard,
             configMapWizard |-> ConfigMapWizard, secretWizard |-> SecretWizard,
             restore |-> RestoreForm]
Wizards == DOMAIN WizardOf

Sending == [op : {"submit", "preview"}, item : Entry \cup {Nothing},
            text : Entry \cup {Nothing}, live : BOOLEAN, stage : {"asked", "done", "refused"}]
Ask(op, i, t) == [op |-> op, item |-> i, text |-> t, live |-> TRUE, stage |-> "asked"]

FormsTypeOK ==
  /\ form \in Dialogs \cup Wizards
  /\ {open, text, preview} \subseteq Entry \cup {Nothing}
  /\ step \in {"edit", "preview"}
  /\ broken \in BOOLEAN /\ waiting \in BOOLEAN
  /\ sent \subseteq Sending
  /\ form \notin Wizards => \A c \in sent : c.item \in Entry

FormsInit ==
  /\ form \in Dialogs \cup Wizards
  /\ open = Nothing /\ text = Nothing /\ preview = Nothing
  /\ step = "edit" /\ broken = FALSE /\ waiting = FALSE
  /\ sent = {}

Fits == Cardinality(sent) < MaxSent

-----------------------------------------------------------------------------
Mounted == FormOf[form].fresh /\ open = Nothing

\* A dialog is opened for a resource, an editor is mounted with its panel.  The
\* key F opens the dialog for port forwards, also for another pod while it is
\* open: its effect then resets it although its call is under way.
OpenDialog(i) ==
  /\ form \in Dialogs /\ (open = Nothing \/ form = "forward")
  /\ open' = i
  /\ text' = IF FormOf[form].resets THEN i ELSE IF Mounted THEN Nothing ELSE text
  /\ waiting' = (waiting /\ ~FormOf[form].clears /\ ~Mounted)
  /\ sent' = IF Mounted THEN {[c EXCEPT !.live = FALSE] : c \in sent} ELSE sent
  /\ UNCHANGED <<form, preview, step, broken>>

\* Escape, a click beside it, "Cancel": at any time.  Of an editor: another tab.
CloseDialog ==
  /\ form \in Dialogs /\ open # Nothing
  /\ open' = Nothing
  /\ UNCHANGED <<form, text, preview, step, broken, waiting, sent>>

\* The path changes: the page is unmounted, and what it waits for changes
\* nothing any more; the next one is mounted with forms of its own.
LeavePage ==
  /\ open' = Nothing /\ text' = Nothing /\ preview' = Nothing
  /\ step' = "edit" /\ broken' = FALSE /\ waiting' = FALSE
  /\ sent' = {}
  /\ UNCHANGED form

\* The user fills in the fields: of a dialog for the resource it is open for, of
\* a page with any text.
Fill ==
  /\ form \in Dialogs /\ open # Nothing
  /\ text' = open
  /\ UNCHANGED <<form, open, preview, step, broken, waiting, sent>>
Write(t) ==
  /\ form \in Wizards /\ step = "edit" /\ t # text
  /\ text' = t
  /\ UNCHANGED <<form, open, preview, step, broken, waiting, sent>>

-----------------------------------------------------------------------------

SameName(i, j) == i = j \/ {i, j} \subseteq Namesakes

\* The button of a dialog or an editor is enabled.
Ready == open # Nothing /\ ~waiting /\ (FormOf[form].checks => SameName(text, open))

Submit ==
  /\ form \in Dialogs /\ Fits
  /\ Ready
  /\ sent' = sent \cup {Ask("submit", open, text)}
  /\ waiting' = TRUE
  /\ UNCHANGED <<form, open, text, preview, step, broken>>

\* The last "Next" of a wizard asks for the preview and only then goes to its
\* step; "Strip & Preview" of the restore form does so in place.
AskPreview ==
  /\ form \in Wizards /\ step = "edit" /\ Fits /\ text # Nothing
  /\ sent' = sent \cup {Ask("preview", Nothing, text)}
  /\ UNCHANGED <<form, open, text, preview, step, broken, waiting>>

Back ==
  /\ form \in Wizards /\ WizardOf[form].steps /\ step = "preview"
  /\ step' = "edit"
  /\ UNCHANGED <<form, open, text, preview, broken, waiting, sent>>

\* Mutant: the deployment's wizard builds the manifest anew, as the others do.
AppliesRebuilt == text

\* What "Apply" sends: the deployment's wizard what it previewed, the others
\* what the fields say now, the restore form what was stripped, if anything was.
Applies == IF WizardOf[form].keeps /\ preview # Nothing THEN preview ELSE text

Apply ==
  /\ form \in Wizards /\ Fits /\ ~waiting
  /\ IF WizardOf[form].steps THEN step = "preview" /\ ~broken ELSE text # Nothing
  /\ sent' = sent \cup {Ask("submit", Nothing, Applies)}
  /\ waiting' = TRUE
  /\ UNCHANGED <<form, open, text, preview, step, broken>>

-----------------------------------------------------------------------------
\* The backend does what it is asked, or refuses.
Served(c) ==
  /\ c.stage = "asked"
  /\ \E s \in {"done", "refused"} : sent' = (sent \ {c}) \cup {[c EXCEPT !.stage = s]}
  /\ UNCHANGED <<form, open, text, preview, step, broken, waiting>>

\* A form that is still there can be sent again.
Ended(c) == waiting /\ ~c.live

\* The continuation of a button.  A dialog's success closes it, whatever it is
\* open for by then.
Submitted(c) ==
  /\ c.op = "submit" /\ c.stage # "asked"
  /\ sent' = sent \ {c}
  /\ waiting' = Ended(c)
  /\ IF c.stage = "done" /\ form \in Dialogs /\ FormOf[form].closes
     THEN /\ open' = Nothing
          /\ text' = IF FormOf[form].empties THEN Nothing ELSE text
     ELSE UNCHANGED <<open, text>>
  /\ UNCHANGED <<form, preview, step, broken>>

\* A preview that cannot be made is an error in its place; the restore form
\* shows it as the text that was stripped.
Previewed(c) ==
  /\ c.op = "preview" /\ c.stage # "asked"
  /\ sent' = sent \ {c}
  /\ preview' = IF c.stage = "done" THEN c.text ELSE preview
  /\ broken' = (c.stage = "refused")
  /\ step' = IF WizardOf[form].steps THEN "preview" ELSE step
  /\ UNCHANGED <<form, open, text, waiting>>

-----------------------------------------------------------------------------
FormsNext ==
  \/ \E i \in Entry : OpenDialog(i)
  \/ \E t \in Entry : Write(t)
  \/ CloseDialog \/ LeavePage \/ Fill \/ Submit \/ AskPreview \/ Back \/ Apply
  \/ \E c \in sent : Served(c) \/ Submitted(c) \/ Previewed(c)

FormsSpec == FormsInit /\ [][FormsNext]_formVars

\* Calls are answered and their continuations run.
FormsFairness ==
  WF_formVars(\E c \in sent : c.op = "submit" /\ (Served(c) \/ Submitted(c)))

-----------------------------------------------------------------------------
\* What is sent about a resource was entered for it, or is the default: the
\* dialog that deletes compares the names, so that a name entered for another
\* resource is good for its namesake; the Helm and port dialogs reset their
\* fields whenever they are opened, a secret's dialog is mounted anew.
SentIsEntered ==
  \A c \in sent :
    /\ form = "delete" => SameName(c.text, c.item)
    /\ form \in {"install", "upgrade", "forward", "secret", "labels", "selectors"}
         => c.text \in {c.item, Nothing}

\* Nothing is sent twice at a time, however often a dialog is closed and opened
\* while its call is under way; except by the Helm dialogs, and the one for port
\* forwards when F opens it again, whose effects forget that call.
OneAtATime ==
  form \notin {"install", "upgrade", "forward"} =>
    Cardinality({c \in sent : c.op = "submit" /\ c.live}) <= 1

\* The wizard for a deployment applies what it shows, also when a preview comes
\* after the fields were changed.
AppliedIsShown ==
  [][\A c \in sent' \ sent :
       form = "deploymentWizard" /\ c.op = "submit" /\ c.stage = "asked" => c.text = preview]_formVars

\* A form can be used again, however its call ends and whatever was opened meanwhile.
FormsComeBack == []<>~waiting

\* A form sends what was entered for its resource, once, and can be used again.
FormsCorrect == [](FormsTypeOK /\ SentIsEntered /\ OneAtATime) /\ AppliedIsShown /\ FormsComeBack
==================================================================================
