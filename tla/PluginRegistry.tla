--------------------------- MODULE PluginRegistry ---------------------------
(***************************************************************************)
(* What the plugin registry promises to its readers: a version moves       *)
(* through the documented life cycle, one plugin never has two enabled     *)
(* versions, and a version is enabled only from "enabling".  No runtime,   *)
(* no files, no locks, no requests.                                        *)
(***************************************************************************)
CONSTANTS Plugins, Versions

VARIABLE state   \* the state of every <<plugin, version>>

Key == Plugins \X Versions

Move(k, from, to) == state[k] \in from /\ state' = [state EXCEPT ![k] = to]

StartInstall(k) == Move(k, {"absent", "install_failed", "uninstalled"}, "installing")

EndInstall(k) == \/ Move(k, {"installing"}, "installed")
                 \/ Move(k, {"installing"}, "install_failed")

StartEnable(k) == Move(k, {"installed", "enable_failed"}, "enabling")

OtherEnabled(k) == \E v \in Versions \ {k[2]} : state[<<k[1], v>>] = "enabled"

EndEnable(k) == \/ ~OtherEnabled(k) /\ Move(k, {"enabling"}, "enabled")
                \/ Move(k, {"enabling"}, "enable_failed")

\* The hooks could not be refreshed: the enabled version is taken back.
UndoEnable(k) == Move(k, {"enabled"}, "enable_failed")

StartDisable(k) == Move(k, {"enabled"}, "disabling")

EndDisable(k) == \/ Move(k, {"disabling"}, "installed")
                 \/ ~OtherEnabled(k) /\ Move(k, {"disabling"}, "enabled")

\* A switch whose configuration migration failed.
RejectSwitch(k) == Move(k, {"enable_failed"}, "installed")

StartUninstall(k) ==
    Move(k, {"installed", "install_failed", "enable_failed"}, "uninstalling")

EndUninstall(k) == \/ Move(k, {"uninstalling"}, "uninstalled")
                   \/ Move(k, {"uninstalling"}, "installed")

Purge(k) == Move(k, {"uninstalled"}, "absent")

\* Reconciliation finishes the uninstalls whose files could not be deleted.
Cleanup(S) ==
    /\ \A k \in S : state[k] = "installed"
    /\ state' = [k \in Key |-> IF k \in S THEN "uninstalled" ELSE state[k]]

Init == state = [k \in Key |-> "absent"]

Next ==
    \/ \E k \in Key :
          \/ StartInstall(k) \/ EndInstall(k) \/ StartEnable(k) \/ EndEnable(k)
          \/ UndoEnable(k) \/ StartDisable(k) \/ EndDisable(k) \/ RejectSwitch(k)
          \/ StartUninstall(k) \/ EndUninstall(k) \/ Purge(k)
    \/ \E S \in SUBSET Key : Cleanup(S)

Spec == Init /\ [][Next]_state

=============================================================================
