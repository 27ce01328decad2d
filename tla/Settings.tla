-------------------------------- MODULE Settings --------------------------------
(***************************************************************************)
(* The settings as the window has them (ui/src/stores/settingsStore.ts),   *)
(* their page (pages/Settings.tsx), the row of an AI provider and the      *)
(* theme.  ConfigStore is the backend's side of the same settings.         *)
(*                                                                         *)
(* A change is shown at once and saved by a call nobody waits for; the     *)
(* handler serves the calls in any order.  What is read back replaces      *)
(* everything.  A section's own state is gone when another one is shown.   *)
(***************************************************************************)
EXTENDS FiniteSets, Naturals, Sequences

CONSTANTS Tracked,   \* sets of settings: one of them is followed in a behaviour
          MaxAsks    \* bound: calls under way

\* The rows of the AI providers have a path each; of these at most one is followed.
ASSUME SettingsAssumption ==
  /\ MaxAsks \in Nat \ {0}
  /\ \A keys \in Tracked : \A i, j \in keys \cap {"aiClaudeCodePath", "aiGeminiCliPath", "aiChatgptCodexPath"} : i = j

VARIABLES
  store,     \* the window's settings
  loaded,
  onDisk,    \* the backend's
  section,   \* the section on the screen; "away": another page
  badge,     \* the input of a path: its timer, and what its verdict is of
  spinning,  \* checking, searching, preflightRunning, connecting
  uiTheme,   \* uiStore's theme, which is drawn, and kept over a restart
  listed,    \* clusterStore has clusters
  asks,      \* calls under way
  unsure,     \* ghost: settings whose calls overlapped, or were refused
  mixed,     \* ghost: two paths were being validated at once
  cycled     \* ghost: the palette has changed uiTheme alone

settingsVars == <<store, loaded, onDisk, section, badge, spinning, uiTheme, listed, asks, unsure, mixed, cycled>>

-----------------------------------------------------------------------------
SettingsKeys == {"defaultNamespace", "startupBehavior", "autoCheckUpdates", "theme", "accentColor",
  "fontSize", "kubeconfigPaths", "autoReloadKubeconfig", "editorTabSize", "editorWordWrap",
  "editorMinimap", "editorFontSize", "terminalFontSize", "terminalCursorStyle",
  "terminalCursorBlink", "terminalShell", "terminalCopyOnSelect", "terminalTheme",
  "k8sRequestTimeoutSec", "k8sQps", "k8sBurst", "clusterFavorites", "aiClaudeCodeEnabled",
  "aiClaudeCodePath", "aiGeminiCliEnabled", "aiGeminiCliPath", "aiChatgptCodexEnabled",
  "aiChatgptCodexPath", "betaFeatures"}

General    == {"defaultNamespace", "startupBehavior", "autoCheckUpdates", "betaFeatures"}
Appearance == {"theme", "accentColor", "fontSize"}
Kubeconfig == {"kubeconfigPaths", "autoReloadKubeconfig"}
Editor     == {"editorTabSize", "editorWordWrap", "editorMinimap", "editorFontSize"}
Terminal   == {"terminalFontSize", "terminalCursorStyle", "terminalCursorBlink", "terminalShell",
               "terminalCopyOnSelect"}
Tuning     == {"k8sRequestTimeoutSec", "k8sQps", "k8sBurst"}
Providers  == {"aiClaudeCodeEnabled", "aiClaudeCodePath", "aiGeminiCliEnabled", "aiGeminiCliPath",
               "aiChatgptCodexEnabled", "aiChatgptCodexPath"}

KeysOf == [general |-> General, appearance |-> Appearance, kubeconfig |-> Kubeconfig,
           ai |-> Providers, editor |-> Editor, terminal |-> Terminal, advanced |-> Tuning,
           clusters |-> {"clusterFavorites"}, away |-> {"theme", "terminalTheme", "clusterFavorites"}]

AIPaths   == {"aiClaudeCodePath", "aiGeminiCliPath", "aiChatgptCodexPath"}
PathInput == AIPaths \cup {"kubeconfigPaths"}

\* "other" stands for a value of the user's, "blank" for '' (of kubeconfigPaths: ['']),
\* "none" for an empty list and "out" for a number beyond the limits of its input.
Themes == <<"default", "light", "monokai", "solarized", "system">>   \* "default" is dark
Choice(k) ==
  CASE k = "theme" -> {Themes[i] : i \in DOMAIN Themes}
    [] k = "kubeconfigPaths" -> {"default", "other", "blank", "none"}
    [] k \in AIPaths \cup {"terminalTheme"} -> {"default", "other", "blank"}
    [] k \in Tuning -> {"default", "other", "out"}
    [] OTHER -> {"default", "other"}

K == DOMAIN store
Configs(keys) == {c \in [keys -> UNION {Choice(k) : k \in keys}] : \A k \in keys : c[k] \in Choice(k)}
DefaultConfig == [k \in K |-> "default"]

\* Several absent values are shown as the default.
ConfigToState(c) ==
  [k \in K |-> IF c[k] = "none" \/ (c[k] = "blank" /\ k # "kubeconfigPaths") THEN "default" ELSE c[k]]

NoBadge == [validated |-> FALSE, of |-> "nothing", timer |-> FALSE]
AskFor(op, k, v) == [op |-> op, key |-> k, value |-> v, live |-> TRUE, stage |-> "asked", got |-> DefaultConfig]

Ops == {"update", "load", "reset", "reread", "import", "validate", "find", "check", "contexts",
        "preflight", "connect"}
Busy == {"validate", "find", "check", "preflight", "connect"}

SettingsTypeOK ==
  /\ {store, onDisk} \subseteq Configs(K) /\ unsure \subseteq K
  /\ section \in DOMAIN KeysOf /\ spinning \subseteq Busy
  /\ badge \in [validated : BOOLEAN, of : {"nothing", "default", "other", "blank", "search"}, timer : BOOLEAN]
  /\ uiTheme \in Choice("theme") /\ {loaded, listed, mixed, cycled} \subseteq BOOLEAN
  /\ Cardinality(asks) <= MaxAsks
  /\ \A a \in asks : /\ a.op \in Ops /\ a.stage \in {"asked", "done", "refused"}
                     /\ a.key \in K \cup {"-"} /\ a.got \in Configs(K)

\* The window opens: the store is not read yet, its theme is the one kept.
SettingsInit ==
  \E keys \in Tracked :
    /\ store = [k \in keys |-> "default"] /\ onDisk \in Configs(keys)
    /\ loaded = FALSE /\ section = "away" /\ badge = NoBadge /\ spinning = {}
    /\ uiTheme \in {"default", "light"} /\ listed = FALSE
    /\ asks = {[n |-> 1, op |-> "load", key |-> "-", value |-> "-", live |-> TRUE, stage |-> "asked",
                got |-> [k \in keys |-> "default"]]}
    /\ unsure = {} /\ mixed = FALSE /\ cycled = FALSE

-----------------------------------------------------------------------------
\* A call is made.  The settings it touches are in doubt if a call under way
\* touches them too, for either may be served first.
Touched(op, k) == IF op = "update" THEN {k} ELSE IF op \in {"load", "reset", "reread", "import"} THEN K ELSE {}

Begin(others, op, k, v, l) ==
  /\ Cardinality(others) < MaxAsks
  /\ LET n == CHOOSE m \in 1..MaxAsks : \A a \in others : a.n # m
     IN asks' = others \cup {[n |-> n, op |-> op, key |-> k, value |-> v, live |-> l,
                              stage |-> "asked", got |-> DefaultConfig]}
  /\ unsure' = (unsure \ Touched(op, k)) \cup
                 UNION {Touched(a.op, a.key) \cap Touched(op, k) : a \in others}

\* The input of a path, one for each section that has one.  Its effect runs when
\* the path changes: the verdict is taken back and comes anew after 300 ms.
InputOf(s) == IF s \in {"kubeconfig", "ai"} THEN K \cap PathInput \cap KeysOf[s] ELSE {}

\* Faulty: the effect runs when the input appears and never again.
BadgeOnce(k, v) ==
  IF badge = NoBadge THEN [NoBadge EXCEPT !.timer = (v # "none")] ELSE badge

Badge(k, v) ==
  IF v = "none" THEN NoBadge
  ELSE IF v = "blank" /\ k = "kubeconfigPaths" THEN [validated |-> TRUE, of |-> v, timer |-> FALSE]
  ELSE [validated |-> FALSE, of |-> "nothing", timer |-> TRUE]

Validating == \E a \in asks : a.op = "validate" /\ a.live

\* The store takes the settings new, b is busy, and the window has drawn a theme
\* already: what depends on the store follows.
Removed(new) == \E k \in InputOf(section) : store[k] # "none" /\ new[k] = "none"
Remaining(rest, new) ==
  {[a EXCEPT !.live = a.live /\ ~(Removed(new) /\ a.op = "validate")] : a \in rest}

ThemeOf(c) == IF "theme" \in K THEN c["theme"] ELSE "system"
Synced == {"default", "light"}

\* The effect that gives the theme of the settings to uiStore.
Syncs(new, isLoaded) ==
  isLoaded /\ (~loaded \/ ThemeOf(new) # ThemeOf(store)) /\ ThemeOf(new) \in Synced

Settle(new, isLoaded, drawn, b) ==
  /\ store' = new /\ loaded' = isLoaded
  /\ uiTheme' = IF Syncs(new, isLoaded) THEN ThemeOf(new) ELSE drawn
  /\ cycled' = (cycled /\ ~Syncs(new, isLoaded))
  /\ spinning' = IF Removed(new) THEN b \ {"validate"} ELSE b
  /\ IF \E k \in InputOf(section) : new[k] # store[k]
     THEN LET k == CHOOSE i \in InputOf(section) : TRUE
          IN /\ badge' = Badge(k, new[k])
             /\ mixed' = (~Removed(new) /\ IF badge'.validated THEN Validating ELSE mixed)
     ELSE UNCHANGED <<badge, mixed>>

\* update: shown at once, saved some time.
ChangeSetting(k, v, drawn, rest, b) ==
  LET new == [store EXCEPT ![k] = v] IN
  /\ k \in SettingsKeys
  /\ Settle(new, loaded, drawn, b)
  /\ Begin(Remaining(rest, new), "update", k, v, TRUE)

-----------------------------------------------------------------------------
\* The inputs of the section on the screen, and of other pages when it is away.
Edit(k, v) ==
  /\ k \in K \cap KeysOf[section] /\ k # "theme" /\ v \in Choice(k) \ {store[k], "out"}
  /\ ChangeSetting(k, v, uiTheme, asks, spinning)
  /\ UNCHANGED <<onDisk, section, listed>>

HandleThemeChange(v) ==
  /\ section = "appearance" /\ "theme" \in K /\ v \in Choice("theme") \ {store["theme"]}
  /\ ChangeSetting("theme", v, IF v # "system" THEN v ELSE uiTheme, asks, spinning)
  /\ UNCHANGED <<onDisk, section, listed>>

\* The button of the top bar, and the palette's command, which saves nothing.
NextTheme == LET i == CHOOSE j \in DOMAIN Themes : Themes[j] = uiTheme IN Themes[(i % Len(Themes)) + 1]
HandleToggle ==
  /\ "theme" \in K
  /\ ChangeSetting("theme", NextTheme, NextTheme, asks, spinning)
  /\ UNCHANGED <<onDisk, section, listed>>
CycleTheme ==
  /\ "theme" \in K
  /\ uiTheme' = NextTheme /\ cycled' = TRUE
  /\ UNCHANGED <<store, loaded, onDisk, section, badge, spinning, listed, asks, unsure, mixed>>

\* Another section, of those with a setting that is followed, or another page: what
\* the section had is gone.
Show(s) ==
  /\ s # section /\ (s = "away" \/ KeysOf[s] \cap K # {})
  /\ section' = s /\ spinning' = {} /\ mixed' = FALSE
  /\ badge' = IF InputOf(s) = {} THEN NoBadge ELSE LET k == CHOOSE i \in InputOf(s) : TRUE IN Badge(k, store[k])
  /\ LET rest == {[a EXCEPT !.live = FALSE] : a \in asks}
     IN IF s = "clusters" THEN Begin(rest, "contexts", "-", "-", TRUE)
                          ELSE asks' = rest /\ UNCHANGED unsure
  /\ UNCHANGED <<store, loaded, onDisk, uiTheme, listed, cycled>>

\* 300 ms after the last change of a path.
Validate ==
  /\ badge.timer
  /\ \E k \in InputOf(section) :
       IF store[k] = "blank"
       THEN /\ badge' = [validated |-> TRUE, of |-> "blank", timer |-> FALSE]
            /\ UNCHANGED <<asks, unsure, spinning>>
       ELSE /\ badge' = [badge EXCEPT !.timer = FALSE]
            /\ spinning' = spinning \cup {"validate"}
            /\ Begin(asks, "validate", k, store[k], TRUE)
  /\ mixed' = Validating
  /\ UNCHANGED <<store, loaded, onDisk, section, uiTheme, listed, cycled>>

PressButton(flag, op, k) ==
  /\ flag \notin spinning
  /\ spinning' = spinning \cup ({op} \cap Busy)
  /\ Begin(asks, op, k, "-", TRUE)
  /\ UNCHANGED <<store, loaded, onDisk, section, badge, uiTheme, listed, mixed, cycled>>

HandleCheckUpdate == section = "general" /\ PressButton("check", "check", "-")
HandleAutoDetect  == section = "ai" /\ \E k \in K \cap AIPaths : PressButton("find", "find", k)
Recheck == section = "clusters" /\ PressButton("preflight", IF listed THEN "preflight" ELSE "contexts", "-")
HandleConnect == section = "clusters" /\ listed /\ PressButton("connect", "connect", "-")
HandleImport  == section = "advanced" /\ PressButton("", "import", "-")
ResetAll         == section = "advanced" /\ PressButton("", "reset", "-")

-----------------------------------------------------------------------------
\* The handler serves a call or refuses it, in any order.  An import resets and
\* updates: a refusal may come in between.
ServeAsk(a) ==
  /\ a.stage = "asked"
  /\ \E ok \in BOOLEAN, c \in Configs(K) :
       /\ onDisk' = CASE ok /\ a.op = "update" -> [onDisk EXCEPT ![a.key] = a.value]
                      [] ok /\ a.op = "import" -> c
                      [] ok /\ a.op = "reset"  -> DefaultConfig
                      [] OTHER -> IF ~ok /\ a.op = "import" /\ c = DefaultConfig THEN c ELSE onDisk
       /\ a.op # "import" => c = onDisk
       /\ a.op = "preflight" => ok
       /\ asks' = (asks \ {a}) \cup
            {[a EXCEPT !.stage = IF ok THEN "done" ELSE "refused", !.got = IF a.op \in {"load", "reread"} THEN onDisk ELSE @]}
       /\ unsure' = IF ok THEN unsure ELSE unsure \cup Touched(a.op, a.key)
  /\ UNCHANGED <<store, loaded, section, badge, spinning, uiTheme, listed, mixed, cycled>>

Rest(a) == asks \ {a}

\* An answer that only ends a spinner, or nothing at all.
Replied(a) ==
  /\ \/ a.op \in {"update", "check", "preflight", "connect"}
     \/ a.op \in {"reset", "import", "reread", "contexts"} /\ a.stage = "refused"
  /\ asks' = Rest(a)
  /\ spinning' = IF a.live THEN spinning \ {a.op} ELSE spinning
  /\ UNCHANGED <<store, loaded, onDisk, section, badge, uiTheme, listed, unsure, mixed, cycled>>

\* load: loaded in any case.
LoadSettings(a) ==
  /\ a.op = "load"
  /\ LET new == IF a.stage = "done" THEN ConfigToState(a.got) ELSE store
     IN Settle(new, TRUE, uiTheme, spinning) /\ asks' = Remaining(Rest(a), new)
  /\ UNCHANGED <<onDisk, section, listed, unsure>>

\* reset and an import read the settings again.
Reread(a) ==
  /\ a.op \in {"reset", "import"} /\ a.stage = "done"
  /\ Begin(Rest(a), IF a.op = "reset" THEN "reread" ELSE "load", "-", "-", TRUE)
  /\ UNCHANGED <<store, loaded, onDisk, section, badge, spinning, uiTheme, listed, mixed, cycled>>
HasReset(a) ==
  /\ a.op = "reread" /\ a.stage = "done"
  /\ LET new == ConfigToState(a.got)
     IN Settle(new, loaded, uiTheme, spinning) /\ asks' = Remaining(Rest(a), new)
  /\ UNCHANGED <<onDisk, section, listed, unsure>>

Verdict(a) ==
  /\ a.op = "validate"
  /\ asks' = Rest(a)
  /\ badge' = IF a.live THEN [badge EXCEPT !.validated = TRUE, !.of = a.value] ELSE badge
  /\ spinning' = IF a.live THEN spinning \ {"validate"} ELSE spinning
  /\ UNCHANGED <<store, loaded, onDisk, section, uiTheme, listed, unsure, mixed, cycled>>

\* handleAutoDetect: what was found becomes the path, whatever it is by now; a search
\* that is refused marks the row as if its path had been judged.
Detected(a) ==
  /\ a.op = "find"
  /\ LET rest == IF a.live THEN spinning \ {"find"} ELSE spinning
     IN \/ /\ a.stage = "done"
           /\ \E v \in {"default", "other"} : ChangeSetting(a.key, v, uiTheme, Rest(a), rest)
           /\ UNCHANGED <<onDisk, section, listed>>
        \/ /\ asks' = Rest(a) /\ spinning' = rest
           /\ badge' = IF a.stage = "refused" /\ a.live
                       THEN [badge EXCEPT !.validated = TRUE, !.of = "search"] ELSE badge
           /\ UNCHANGED <<store, loaded, onDisk, section, uiTheme, listed, unsure, mixed, cycled>>

\* loadClusters: the list, and a preflight of all that is in it.
Contexts(a) ==
  /\ a.op = "contexts" /\ a.stage = "done"
  /\ listed' \in BOOLEAN
  /\ IF listed'
     THEN /\ Begin(Rest(a), "preflight", "-", "-", a.live)
          /\ spinning' = IF a.live THEN spinning \cup {"preflight"} ELSE spinning
     ELSE asks' = Rest(a) /\ UNCHANGED <<unsure, spinning>>
  /\ UNCHANGED <<store, loaded, onDisk, section, badge, uiTheme, mixed, cycled>>

Reply(a) ==
  /\ a.stage # "asked"
  /\ \/ Replied(a) \/ LoadSettings(a) \/ Reread(a) \/ HasReset(a) \/ Verdict(a) \/ Detected(a) \/ Contexts(a)

\* The window is closed and opened again: its calls are gone, the theme is kept.
OpenAgain ==
  /\ store' = DefaultConfig /\ loaded' = FALSE /\ section' = "away" /\ badge' = NoBadge
  /\ spinning' = {} /\ listed' = FALSE /\ mixed' = FALSE /\ cycled' = FALSE
  /\ Begin({}, "load", "-", "-", TRUE)
  /\ UNCHANGED <<onDisk, uiTheme>>

SettingsNext ==
  \/ \E k \in K : \E v \in Choice(k) : Edit(k, v)
  \/ \E v \in Choice("theme") : HandleThemeChange(v)
  \/ HandleToggle \/ CycleTheme \/ Validate \/ Recheck \/ ResetAll \/ OpenAgain
  \/ HandleCheckUpdate \/ HandleAutoDetect \/ HandleConnect \/ HandleImport
  \/ \E s \in DOMAIN KeysOf : Show(s)
  \/ \E a \in asks : ServeAsk(a) \/ Reply(a)

SettingsSpec == SettingsInit /\ [][SettingsNext]_settingsVars

-----------------------------------------------------------------------------
\* When no call is under way the window shows what is saved, but for settings
\* whose calls overlapped or were refused (settingsStore.update waits for no call).
SettledAgrees ==
  asks = {} => \A k \in K \ unsure : store[k] \in {onDisk[k], ConfigToState(onDisk)[k]}

\* Once the settings were read, a dark or light theme of theirs is the one that is
\* drawn, unless the palette, which saves nothing, has changed it since.
ThemeShown == loaded /\ ~cycled /\ ThemeOf(store) \in Synced => uiTheme = ThemeOf(store)

PathOnScreen(k) == k \in InputOf(section) /\ store[k] # "none"

\* The mark beside a path is of this path, or says that the search for one failed,
\* when its timer and its call have ended and no call for another path was under way
\* with it.
VerdictOfPath ==
  \A k \in K : PathOnScreen(k) /\ badge.validated /\ ~badge.timer /\ ~Validating /\ ~mixed
                 => badge.of \in {store[k], "search"}

\* A path without a mark gets one: its timer runs, or its call is under way.
MarkComes ==
  \A k \in K : PathOnScreen(k) /\ ~badge.validated
    => badge.timer \/ \E a \in asks : a.op = "validate" /\ a.live /\ a.value = store[k]

\* A button that is disabled, or spins, waits for a call of this very section.
BusyHasCall == \A f \in spinning : \E a \in asks : a.op = f /\ a.live

\* The settings page and the window agree with the file and with the calls under way.
SettingsSafe ==
  SettingsTypeOK /\ SettledAgrees /\ ThemeShown /\ VerdictOfPath /\ MarkComes /\ BusyHasCall
==============================================================================
