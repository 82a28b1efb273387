-------------------------- MODULE MCMonitorService --------------------------
(***************************************************************************)
(* MonitorService with one system bundle, which the process bundles list   *)
(* again after another one, a name that is not configured, and two of the  *)
(* pairs of columns a row can show.                                        *)
(***************************************************************************)
EXTENDS MonitorService

MCNames          == {"core", "route", "other"}
MCSystemBundles  == <<"core">>
MCProcessBundles == <<"route", "core">>

\* Running, and Failed with a blank spring column.
MCConditions == {[state |-> "Active", spring |-> "Started"],
                 [state |-> "Failed", spring |-> ""]}

=============================================================================
