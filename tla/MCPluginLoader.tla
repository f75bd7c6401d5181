-------------------------- MODULE MCPluginLoader --------------------------
(* Two plugins that are installed and removed at any time.                 *)
EXTENDS PluginLoader
=============================================================================
