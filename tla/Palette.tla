--------------------------------- MODULE Palette ---------------------------------
(***************************************************************************)
(* The command palette (components/command-palette/CommandPalette.tsx,     *)
(* hooks/useCommandPalette.ts, hooks/useDebounce.ts), the shortcuts of the *)
(* keyboard (hooks/useShortcuts.ts, AppShellShortcuts.tsx) and the shell   *)
(* they are mounted in, which is unmounted while the Welcome screen is     *)
(* shown.  Whether the palette is open is kept outside of it.              *)
(***************************************************************************)
EXTENDS FiniteSets, Naturals

CONSTANTS Query,      \* what is typed into it
          Short,      \* of those, the ones of one character
          NoQuery,    \* ""
          MaxShells,  \* bound: times the shell is mounted
          MaxSearches,\* bound: searches under way
          MaxCommands \* bound: commands under way

ASSUME PaletteAssumption ==
  Short \subseteq Query /\ NoQuery \notin Query /\ {MaxShells, MaxSearches, MaxCommands} \subseteq Nat \ {0}

VARIABLES
  shell,      \* how often the shell was mounted
  mountedShell,
  isOpen,
  query,
  debounced,  \* debouncedQuery
  debounce,   \* its timer is set
  subMenu,
  results,    \* resourceResults: the query they answer
  searching,
  searchError,
  searches,   \* calls of SearchResources under way
  commands,   \* commands of the palette under way: the mount they belong to
  selected,   \* a deployment or a node is the selected resource
  focused,    \* an input has the focus
  chord,      \* chordBuffer
  chordTimer

paletteVars == <<shell, mountedShell, isOpen, query, debounced, debounce, subMenu, results, searching,
                 searchError, searches, commands, selected, focused, chord, chordTimer>>
search == <<query, debounced, debounce, results, searching, searchError, searches>>
keys == <<focused, chord, chordTimer>>

Menu == {"none", "clusters", "namespaces", "create"}
Search(q) == [of |-> q, cancelled |-> FALSE, stage |-> "asked"]

PaletteTypeOK ==
  /\ shell \in 0..MaxShells /\ {mountedShell, isOpen, debounce, searching, searchError, focused, chordTimer} \subseteq BOOLEAN
  /\ {query, debounced, results} \subseteq Query \cup {NoQuery}
  /\ subMenu \in Menu /\ selected \in BOOLEAN
  /\ searches \subseteq [of : Query, cancelled : BOOLEAN, stage : {"asked", "found", "failed"}]
  /\ commands \subseteq [n : 1..MaxCommands, shell : 1..MaxShells]
  /\ chord \in {"", "G"} /\ Cardinality(searches) <= MaxSearches

PaletteInit ==
  /\ shell = 0 /\ mountedShell = FALSE /\ isOpen = FALSE
  /\ query = NoQuery /\ debounced = NoQuery /\ debounce = FALSE
  /\ subMenu = "none" /\ results = NoQuery /\ searching = FALSE /\ searchError = FALSE /\ searches = {}
  /\ commands = {} /\ selected = FALSE /\ focused = FALSE /\ chord = "" /\ chordTimer = FALSE

-----------------------------------------------------------------------------
\* The shell is mounted when a cluster is shown, unmounted for the Welcome screen.
MountShell ==
  /\ ~mountedShell /\ shell < MaxShells
  /\ shell' = shell + 1 /\ mountedShell' = TRUE
  /\ debounce' = TRUE
  /\ focused' = (focused \/ isOpen)
  /\ UNCHANGED <<isOpen, query, debounced, subMenu, results, searching, searchError, searches, commands,
                 selected, chord, chordTimer>>
UnmountShell ==
  /\ mountedShell /\ mountedShell' = FALSE
  /\ query' = NoQuery /\ debounced' = NoQuery /\ debounce' = FALSE /\ subMenu' = "none"
  /\ results' = NoQuery /\ searching' = FALSE /\ searchError' = FALSE /\ searches' = {}
  /\ selected' = FALSE /\ focused' = FALSE
  /\ UNCHANGED <<shell, isOpen, commands, chord, chordTimer>>

\* Open, by a shortcut or the button of the top bar: the input takes the focus.
OpenPalette ==
  /\ isOpen' = TRUE /\ focused' = TRUE
  /\ UNCHANGED <<query, debounce, subMenu, results>>

\* Close: the effect on isOpen resets what the user did; the debounced query only
\* follows when its timer ends.
ClosePalette ==
  /\ isOpen' = FALSE
  /\ focused' = (focused /\ ~isOpen)
  /\ IF isOpen
     THEN /\ query' = NoQuery /\ subMenu' = "none" /\ results' = NoQuery
          /\ debounce' = (debounce \/ query # NoQuery)
     ELSE UNCHANGED <<query, subMenu, results, debounce>>

Toggle == IF isOpen THEN ClosePalette ELSE OpenPalette

\* The button of the top bar, and a click beside the palette.
Press ==
  /\ mountedShell
  /\ Toggle
  /\ UNCHANGED <<shell, mountedShell, debounced, searching, searchError, searches, commands, selected, chord, chordTimer>>

Drawn == mountedShell /\ isOpen

Type(q) ==
  /\ Drawn /\ focused /\ q # query
  /\ query' = q /\ debounce' = TRUE
  /\ UNCHANGED <<shell, mountedShell, isOpen, debounced, subMenu, results, searching, searchError,
                 searches, commands, selected, keys>>

-----------------------------------------------------------------------------
\* 200 ms after the last change: the effect on the debounced query cancels the
\* search before and starts another one.  One of one character finds nothing.
Cancelled == {[s EXCEPT !.cancelled = TRUE] : s \in searches}

Debounce ==
  /\ Cardinality(searches) < MaxSearches
  /\ debounce /\ debounce' = FALSE /\ debounced' = query
  /\ IF query = debounced THEN UNCHANGED <<results, searching, searchError, searches>>
     ELSE /\ searchError' = FALSE
          /\ CASE query = NoQuery ->
                    results' = NoQuery /\ searches' = Cancelled /\ UNCHANGED searching
               [] query \in Short ->
                    results' = NoQuery /\ searching' = FALSE /\ searches' = Cancelled
               [] OTHER ->
                    /\ searching' = TRUE /\ searches' = Cancelled \cup {Search(query)}
                    /\ UNCHANGED results
  /\ UNCHANGED <<shell, mountedShell, isOpen, query, subMenu, commands, selected, keys>>

SearchServed(s) ==
  /\ s.stage = "asked"
  /\ \E stage \in {"found", "failed"} : searches' = (searches \ {s}) \cup {[s EXCEPT !.stage = stage]}
  /\ UNCHANGED <<shell, mountedShell, isOpen, query, debounced, debounce, subMenu, results, searching,
                 searchError, commands, selected, keys>>

Found(s) ==
  /\ s.stage # "asked"
  /\ searches' = searches \ {s}
  /\ IF s.cancelled THEN UNCHANGED <<results, searching, searchError>>
     ELSE /\ searching' = FALSE
          /\ results' = IF s.stage = "found" THEN s.of ELSE results
          /\ searchError' = (searchError \/ s.stage = "failed")
  /\ UNCHANGED <<shell, mountedShell, isOpen, query, debounced, debounce, subMenu, commands, selected, keys>>

-----------------------------------------------------------------------------
\* Commands that do something and close: navigation, recent items, results, the
\* sub-menus' entries, toggles.
Do ==
  /\ Drawn
  /\ ClosePalette
  /\ UNCHANGED <<shell, mountedShell, debounced, searching, searchError, searches, commands, selected, chord, chordTimer>>
EnterMenu(m) ==
  /\ Drawn /\ subMenu # m /\ (subMenu = "none" \/ m = "none")
  /\ subMenu' = m
  /\ UNCHANGED <<shell, mountedShell, isOpen, search, commands, selected, keys>>

\* On the page below the palette another resource is selected, or none.
Select ==
  /\ mountedShell /\ ~isOpen
  /\ selected' = ~selected
  /\ UNCHANGED <<shell, mountedShell, isOpen, search, subMenu, commands, keys>>

\* Restart, cordon and uncordon wait for their answer, and close the palette then
\* if it is still mounted, whether they failed or not.
RunCommand ==
  /\ Drawn /\ subMenu = "none" /\ selected
  /\ \E n \in 1..MaxCommands :
       /\ \A c \in commands : c.n # n
       /\ commands' = commands \cup {[n |-> n, shell |-> shell]}
  /\ UNCHANGED <<shell, mountedShell, isOpen, search, subMenu, selected, keys>>

\* Mutant: it closes the palette of any mount.
StillMountedAny(c) == TRUE
StillMounted(c) == mountedShell /\ c.shell = shell

CommandEnds(c) ==
  /\ commands' = commands \ {c}
  /\ IF StillMounted(c) THEN ClosePalette ELSE UNCHANGED <<isOpen, query, debounce, subMenu, results, focused>>
  /\ UNCHANGED <<shell, mountedShell, debounced, searching, searchError, searches, selected, chord, chordTimer>>

-----------------------------------------------------------------------------
\* Shortcuts, while no input has the focus.  A letter that begins a chord waits
\* 500 ms for the other one; the keys of the registry outlive what registered them.
FocusMoves ==
  /\ focused' = ~focused
  /\ UNCHANGED <<shell, mountedShell, isOpen, search, subMenu, commands, selected, chord, chordTimer>>

ClearChord == chord' = "" /\ chordTimer' = FALSE

StartChord == chord' = "G" /\ chordTimer' = TRUE

KeyG ==
  /\ ~focused /\ shell > 0 /\ IF chord = "" THEN StartChord ELSE ClearChord
  /\ UNCHANGED <<shell, mountedShell, isOpen, search, subMenu, commands, selected, focused>>
KeyOther ==
  /\ ~focused /\ chord # "" /\ ClearChord
  /\ UNCHANGED <<shell, mountedShell, isOpen, search, subMenu, commands, selected, focused>>
KeySlash ==
  /\ ~focused /\ mountedShell /\ chord = "" /\ ClearChord
  /\ Toggle
  /\ UNCHANGED <<shell, mountedShell, debounced, searching, searchError, searches, commands, selected>>
ChordTimeout ==
  /\ chordTimer /\ ClearChord
  /\ UNCHANGED <<shell, mountedShell, isOpen, search, subMenu, commands, selected, focused>>

PaletteNext ==
  \/ MountShell \/ UnmountShell \/ Press \/ Debounce \/ Do \/ Select \/ RunCommand \/ FocusMoves
  \/ KeyG \/ KeyOther \/ KeySlash \/ ChordTimeout
  \/ \E q \in Query \cup {NoQuery} : Type(q)
  \/ \E s \in searches : SearchServed(s) \/ Found(s)
  \/ \E m \in Menu : EnterMenu(m)
  \/ \E c \in commands : CommandEnds(c)

PaletteSpec == PaletteInit /\ [][PaletteNext]_paletteVars

\* Timers end and calls are answered.
PaletteFairness ==
  /\ WF_paletteVars(Debounce)
  /\ WF_paletteVars(ChordTimeout)
  /\ WF_paletteVars(\E s \in searches : SearchServed(s) \/ Found(s))

-----------------------------------------------------------------------------
\* Results on the screen answer the query of now, or its search is under way or
\* has failed: the answer to an earlier one does not take their place.
ResultsAreCurrent ==
  results \notin {NoQuery, debounced}
    => searchError \/ \E s \in searches : ~s.cancelled /\ s.of = debounced

\* With nothing typed nothing is shown, also when the palette was closed during a
\* search, once the debounce has ended.
EmptyShowsNone == query = NoQuery /\ ~debounce => results = NoQuery /\ debounced = NoQuery

\* A search that counts is the one of the debounced query, and it spins.
OneSearchCounts ==
  \A s \in searches : ~s.cancelled => s.of = debounced /\ searching

\* A command that ends after its palette was unmounted closes no other palette.
ClosesItsOwn ==
  [][\A c \in commands \ commands' : isOpen /\ ~isOpen' => mountedShell /\ c.shell = shell]_paletteVars

\* A chord somebody has begun ends by itself.
ChordEnds == []<>(chord = "")

\* The palette shows the answer to its query and ends what it has begun.
PaletteCorrect ==
  /\ [](PaletteTypeOK /\ ResultsAreCurrent /\ EmptyShowsNone /\ OneSearchCounts)
  /\ ClosesItsOwn /\ ChordEnds
==============================================================================
