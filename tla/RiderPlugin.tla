---------------------------- MODULE RiderPlugin ----------------------------
(***************************************************************************)
(* The plugin in the editor.  A behaviour exercises the life of the model  *)
(* over several connections, or the game control during one model.         *)
(***************************************************************************)
EXTENDS RiderLinkModule, RiderGameControl

VARIABLE focus      \* what this behaviour exercises

pluginVars == <<linkVars, controlVars, focus>>

PluginInit == LinkInit /\ ControlInit /\ focus \in {"link", "control"}

OnlyLink == focus = "link" /\ UNCHANGED <<controlVars, focus>>
OnlyControl == focus = "control" /\ UNCHANGED <<linkVars, focus>>

PluginNext ==
    \/ OnlyLink /\ LinkNext
    \/ OnlyControl /\ ControlNext

\* Threads go on with what they have to do; Rider reads.
PluginSpec ==
    /\ PluginInit /\ [][PluginNext]_pluginVars
    /\ WF_pluginVars(OnlyLink /\ Scheduled) /\ WF_pluginVars(OnlyLink /\ Logs)
    /\ WF_pluginVars(OnlyLink /\ Unbind)
    /\ WF_pluginVars(OnlyControl /\ SchedulerThread)
    /\ WF_pluginVars(OnlyControl /\ GameThread)
    /\ WF_pluginVars(OnlyControl /\ RiderHears)
=============================================================================
