--------------------------- MODULE PluginLifecycle ---------------------------
(***************************************************************************)
(* PluginManager over PluginLoader and PluginRegistry: which object of a   *)
(* plugin's class is registered, which one is active, and whose hooks the  *)
(* requests run.                                                           *)
(*                                                                         *)
(* Operations come one after the other, as at start, from the command line *)
(* and at shutdown.  A plugin's initialize and cleanup may succeed, return *)
(* False or raise, and its module may fail to import.  All hook types are  *)
(* alike.  The registry's file and the status of an object are written and *)
(* shown, and decide nothing of this.                                      *)
(***************************************************************************)
EXTENDS Naturals, FiniteSetsExt

CONSTANTS
  Plugins,       \* plugin identifiers
  Dependencies,  \* what each of them depends on
  Copies         \* names of the objects of one plugin

\* A load makes an object that is neither the registered nor the active one.
ASSUME PluginLifecycleAssumption ==
  /\ Dependencies \in [Plugins -> SUBSET Plugins]
  /\ Copies \subseteq Nat \ {0} /\ Copies # {}
  /\ \A c, d \in Copies : Copies \ {c, d} # {}

NoCopy == 0

\* registered: PluginRegistry.plugins; active: active_plugins; hooked:
\* hook_registry.
\* History: uncleaned, plugins whose cleanup failed when they were to be stopped;
\* replaced, those registered anew while an object was active.
VARIABLES plugins

pluginVars == <<plugins>>

PluginsTypeOK ==
  plugins \in [registered : [Plugins -> Copies \cup {NoCopy}],
               active : [Plugins -> Copies \cup {NoCopy}],
               hooked : [Plugins -> SUBSET Copies],
               uncleaned : SUBSET Plugins, replaced : SUBSET Plugins]

PluginsInit ==
  plugins = [registered |-> [p \in Plugins |-> NoCopy],
             active |-> [p \in Plugins |-> NoCopy],
             hooked |-> [p \in Plugins |-> {}],
             uncleaned |-> {}, replaced |-> {}]

-----------------------------------------------------------------------------
(* What each operation can make of a state s: a set of states *)

\* Mutant: a plugin that is active is started again.
StartedAgain(s, p) ==
  LET c == s.registered[p]
  IN  IF c = NoCopy THEN {s}
      ELSE {s, [s EXCEPT !.active[p] = c, !.hooked[p] = @ \cup {c}]}

\* start_plugin: initialize raises, returns False or succeeds.
Started(s, p) ==
  LET c == s.registered[p]
  IN  IF c = NoCopy \/ s.active[p] # NoCopy THEN {s}
      ELSE {s, [s EXCEPT !.active[p] = c, !.hooked[p] = @ \cup {c}]}

\* stop_plugin: cleanup raises, returns False or succeeds.
Stopped(s, p) ==
  IF s.active[p] = NoCopy THEN {s}
  ELSE {[s EXCEPT !.uncleaned = @ \cup {p}],
        [s EXCEPT !.active[p] = NoCopy, !.hooked[p] = {},
                  !.uncleaned = @ \ {p}, !.replaced = @ \ {p}]}

\* register_plugin, of a new object: its configuration is found invalid, or it
\* takes the place of the one that was there.
Registered(s, p) ==
  LET c == Min(Copies \ ({s.registered[p], s.active[p]} \cup s.hooked[p]))
      over == IF s.active[p] = NoCopy THEN {} ELSE {p}
  IN  {s, [s EXCEPT !.registered[p] = c, !.replaced = @ \cup over]}

\* The registered plugins that depend on p.
Dependents(s, p) == {q \in Plugins : s.registered[q] # NoCopy /\ p \in Dependencies[q]}

\* unregister_plugin, with a cleanup of its own that may raise.
Unregistered(s, p) ==
  IF s.registered[p] = NoCopy \/ Dependents(s, p) # {} THEN {s}
  ELSE {s, [s EXCEPT !.registered[p] = NoCopy]}

\* Mutant: a plugin that is active is unloaded without being stopped.
UnloadedRunning(s, p) == Unregistered([s EXCEPT !.hooked[p] = {}], p)

\* unload_plugin takes the hooks out whether or not the plugin could be stopped,
\* and before the registry may refuse.
Unloaded(s, p) ==
  UNION {Unregistered([t EXCEPT !.hooked[p] = {}], p) : t \in Stopped(s, p)}

\* load_plugin without auto_start; the import may fail.
Loaded(s, p) == {s} \cup Registered(s, p)

\* reload_plugin: stopped; then, if its file is known, unregistered if that is not
\* refused; imported and registered again; and, if so far all went well, started.
Reloaded(s, p) ==
  LET stopped == Stopped(s, p)
      removed == UNION {Unregistered(t, p) : t \in {t \in stopped : t.registered[p] # NoCopy}}
      renewed == UNION {Registered(t, p) \ {t} : t \in removed}
  IN  stopped \cup removed \cup UNION {Started(t, p) : t \in renewed}

-----------------------------------------------------------------------------
LoadPlugin(p) == plugins' \in UNION {Started(s, p) : s \in Loaded(plugins, p)}

\* load_plugins_from_directory, which starts them after it loaded all; at start
\* it runs up to three times.
LoadOnly(p) == plugins' \in Loaded(plugins, p)

StartPlugin(p) == plugins' \in Started(plugins, p)
StopPlugin(p) == plugins' \in Stopped(plugins, p)
UnloadPlugin(p) == plugins' \in Unloaded(plugins, p)
ReloadPlugin(p) == plugins' \in Reloaded(plugins, p)

PluginsNext ==
  \E p \in Plugins :
    \/ LoadPlugin(p) \/ LoadOnly(p) \/ StartPlugin(p) \/ StopPlugin(p)
    \/ UnloadPlugin(p) \/ ReloadPlugin(p)

PluginsSpec == PluginsInit /\ [][PluginsNext]_pluginVars

-----------------------------------------------------------------------------
(* Properties *)

\* execute_plugin and the list of plugins look at the registered object, requests
\* at the active one.  They are the same, through any loads, reloads and refused
\* or failed steps, unless the plugin was registered anew while it was active or
\* a cleanup failed.
ActiveIsRegistered ==
  \A p \in Plugins :
    plugins.active[p] \in {NoCopy, plugins.registered[p]}
      \/ p \in plugins.replaced \cup plugins.uncleaned

\* Requests run the hooks of the active object of each plugin and of no other;
\* one that could not be cleaned up stays active, and may have lost them.
HooksFollowActive ==
  \A p \in Plugins :
    \/ plugins.hooked[p] = {plugins.active[p]} \ {NoCopy}
    \/ p \in plugins.uncleaned /\ plugins.hooked[p] = {}
=============================================================================
