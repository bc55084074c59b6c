-------------------------- MODULE MCPluginLifecycle --------------------------
(* Values of PluginLifecycle's constants for TLC.                           *)
EXTENDS PluginLifecycle, TLC

\* The bundled index holds version 1 of every plugin.
MCBundled == {<<p, 1>> : p \in Plugins}

RequestSymmetry == Permutations(Requests)
=============================================================================
