------------------------------- MODULE Favorites -------------------------------
(***************************************************************************)
(* The favorites and the recent items of the window                        *)
(* (ui/src/stores/favoritesStore.ts), which outlive a restart.  Nothing on *)
(* the screen calls the operations on favorites yet; the palette and the   *)
(* namespace filter call those on recent items.                            *)
(***************************************************************************)
EXTENDS Naturals, Sequences, SequencesExt, Selection

CONSTANTS Favorite,       \* paths, namespaces
          MaxRecent,  \* MAX_RECENT
          MaxRecentNs \* MAX_RECENT_NS

ASSUME FavoritesAssumption == {MaxRecent, MaxRecentNs} \subseteq Nat \ {0}

VARIABLES favorites, recentItems, recentNamespaces

favoriteVars == <<favorites, recentItems, recentNamespaces>>

\* filter(x): what is left of a list without an item.
AllBut(list, x) == AtPlaces(list, {i \in DOMAIN list : list[i] # x})

\* An item comes first, once; what it pushes out is gone.
\* Mutants: it is added again; the longest one is one too long.
PushedAgain(list, x, max) == SubSeq(<<x>> \o list, 1, IF Len(list) < max THEN Len(list) + 1 ELSE max)
Pushed(list, x, max) ==
  LET rest == AllBut(list, x)
  IN SubSeq(<<x>> \o rest, 1, IF Len(rest) < max THEN Len(rest) + 1 ELSE max)

\* splice(from, 1), splice(to, 0, item).
Moved(list, from, to) == InsertAt(RemoveAt(list, from), to, list[from])

FavoritesTypeOK ==
  /\ favorites \in Seq(Favorite)
  /\ recentItems \in Seq(Favorite) /\ Len(recentItems) <= MaxRecent
  /\ recentNamespaces \in Seq(Favorite) /\ Len(recentNamespaces) <= MaxRecentNs

FavoritesInit == favorites = <<>> /\ recentItems = <<>> /\ recentNamespaces = <<>>

AddFavorite(x) ==
  /\ favorites' = IF Contains(favorites, x) THEN favorites ELSE Append(favorites, x)
  /\ UNCHANGED <<recentItems, recentNamespaces>>
RemoveFavorite(x) ==
  /\ favorites' = AllBut(favorites, x)
  /\ UNCHANGED <<recentItems, recentNamespaces>>
\* Indices out of range change nothing.
ReorderFavorites(from, to) ==
  /\ favorites' = IF {from, to} \subseteq DOMAIN favorites THEN Moved(favorites, from, to) ELSE favorites
  /\ UNCHANGED <<recentItems, recentNamespaces>>
AddRecentItem(x) ==
  /\ recentItems' = Pushed(recentItems, x, MaxRecent)
  /\ UNCHANGED <<favorites, recentNamespaces>>
ClearRecent == recentItems' = <<>> /\ UNCHANGED <<favorites, recentNamespaces>>
\* The filter calls it for a namespace, not for all of them.
AddRecentNamespace(x) ==
  /\ recentNamespaces' = Pushed(recentNamespaces, x, MaxRecentNs)
  /\ UNCHANGED <<favorites, recentItems>>

FavoritesNext ==
  \/ \E x \in Favorite : AddFavorite(x) \/ RemoveFavorite(x) \/ AddRecentItem(x) \/ AddRecentNamespace(x)
  \/ \E from, to \in 0..Len(favorites) + 1 : ReorderFavorites(from, to)
  \/ ClearRecent

FavoritesSpec == FavoritesInit /\ [][FavoritesNext]_favoriteVars

Distinct(s) == \A i, j \in DOMAIN s : s[i] = s[j] => i = j

\* However items come and move, no list holds one twice (they are React keys).
EachOnce == Distinct(favorites) /\ Distinct(recentItems) /\ Distinct(recentNamespaces)

\* The lists of the bookmarks store, however they are filled, moved and cut.
FavoritesSafe == FavoritesTypeOK /\ EachOnce
==============================================================================
