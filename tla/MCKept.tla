--------------------------------- MODULE MCKept ---------------------------------
(***************************************************************************)
(* What the program keeps: the config file and the window's copy of it,    *)
(* bookmarks, the audit log, the permission caches, the change timeline    *)
(* and, of a node that is drained, its pods.  The modules share no         *)
(* variable, so one behaviour runs one of them while the others stand      *)
(* still.                                                                  *)
(***************************************************************************)
EXTENDS ConfigStore, AuditLog, NodeDrain, Permissions, Timeline, Settings, Favorites

CONSTANTS ui, window,  \* two calls of one handler that overlap
          p, q,        \* two settings; p: what is asked for
          a, b         \* what a setting is set to; two contexts; bookmarks

\* A number with limits, the theme, the two kinds of path, and two settings at once.
MCTracked == {{"k8sQps"}, {"theme"}, {"kubeconfigPaths"}, {"aiClaudeCodePath"},
              {"defaultNamespace", "clusterFavorites"}}

VARIABLE what

MCInit ==
  /\ what \in {"config", "audit", "drain", "permissions", "timeline", "settings", "bookmarks"}
  /\ ConfigInit /\ AuditInit /\ DrainInit /\ PermissionsInit /\ TimelineInit
  /\ SettingsInit /\ FavoritesInit
  /\ what # "drain" => force
  /\ what # "settings" => DOMAIN store = {"theme"} /\ onDisk = store /\ uiTheme = "default"

windowVars == <<settingsVars, favoriteVars>>

MCNext ==
  /\ UNCHANGED what
  /\ \/ /\ what = "config" /\ ConfigNext
        /\ UNCHANGED <<auditVars, drainVars, permissionVars, timelineVars, windowVars>>
     \/ /\ what = "audit" /\ AuditNext
        /\ UNCHANGED <<configVars, drainVars, permissionVars, timelineVars, windowVars>>
     \/ /\ what = "drain" /\ DrainNext
        /\ UNCHANGED <<configVars, auditVars, permissionVars, timelineVars, windowVars>>
     \/ /\ what = "permissions" /\ PermissionsNext
        /\ UNCHANGED <<configVars, auditVars, drainVars, timelineVars, windowVars>>
     \/ /\ what = "timeline" /\ TimelineNext
        /\ UNCHANGED <<configVars, auditVars, drainVars, permissionVars, windowVars>>
     \/ /\ what = "settings" /\ SettingsNext
        /\ UNCHANGED <<configVars, auditVars, drainVars, permissionVars, timelineVars, favoriteVars>>
     \/ /\ what = "bookmarks" /\ FavoritesNext
        /\ UNCHANGED <<configVars, auditVars, drainVars, permissionVars, timelineVars, settingsVars>>

MCSpec ==
  /\ MCInit
  /\ [][MCNext]_<<what, configVars, auditVars, drainVars, permissionVars, timelineVars, windowVars>>
================================================================================
