--------------------------- MODULE QPluginManager ---------------------------
(***************************************************************************)
(* The plugins that are linked to the application: the types they are of,  *)
(* the containers the manager makes for them, by type and by name, and     *)
(* what it tells of them. It never looks for plugins in files: nothing     *)
(* calls scanPlugins().                                                    *)
(*                                                                         *)
(* A plugin is accepted by the first registered type whose test it passes. *)
(***************************************************************************)
EXTENDS Naturals, Sequences, SequencesExt, FiniteSets

CONSTANTS Types, Plugins, Names,
          NameOf,       \* name() of each plugin
          TypesOf,      \* the types whose test() each plugin passes
          Failing,      \* the plugins whose init() fails
          MaxLoads      \* bounds the calls of loadBuiltInPlugin()

PluginAssumption ==
  /\ NameOf \in [Plugins -> Names] /\ TypesOf \in [Plugins -> SUBSET Types]
  /\ Failing \subseteq Plugins /\ MaxLoads \in Nat

VARIABLES m_registeredPluginTypes,
          m_pluginCategories,       \* the containers of each type, oldest first
          m_pluginNameToContainer,  \* the container of each name, 0 for none
          containers,               \* every container, in the order they were made
          emitted,                  \* the plugins, with their types, that loaded() told of
          answers                   \* history: the plugins loaded, and what each call returned

vars == <<m_registeredPluginTypes, m_pluginCategories, m_pluginNameToContainer, containers,
          emitted, answers>>

Init ==
  /\ m_registeredPluginTypes = <<>>
  /\ m_pluginCategories = [t \in Types |-> <<>>]
  /\ m_pluginNameToContainer = [n \in Names |-> 0]
  /\ containers = <<>> /\ emitted = <<>> /\ answers = <<>>

registerPluginType(type) ==
  /\ type \notin Range(m_registeredPluginTypes)
  /\ m_registeredPluginTypes' = Append(m_registeredPluginTypes, type)
  /\ UNCHANGED <<m_pluginCategories, m_pluginNameToContainer, containers, emitted, answers>>

\* Where the first registered type that accepts a plugin is, 0 if none does.
Accepting(plugin) == SelectInSeq(m_registeredPluginTypes, LAMBDA t : t \in TypesOf[plugin])

ContainerFault(plugin, type) == [plugin |-> plugin, type |-> type, name |-> NameOf[plugin],
                                 isLoaded |-> FALSE, isBuiltIn |-> TRUE]

\* What readMetaData() makes of a container.
Container(plugin, type) == [plugin |-> plugin, type |-> type, name |-> NameOf[plugin],
                            isLoaded |-> TRUE, isBuiltIn |-> TRUE]

initPlugin(plugin) ==
  LET type == m_registeredPluginTypes[Accepting(plugin)]
      id   == Len(containers) + 1
  IN  /\ containers' = Append(containers, Container(plugin, type))
      /\ m_pluginCategories' = [m_pluginCategories EXCEPT ![type] = Append(@, id)]
      /\ m_pluginNameToContainer' = [m_pluginNameToContainer EXCEPT ![NameOf[plugin]] = id]
      /\ emitted' = Append(emitted, [plugin |-> plugin, type |-> type])

\* The answer is init()'s, but the plugin stays where it is when that fails.
loadBuiltInPlugin(plugin) ==
  /\ Len(answers) < MaxLoads
  /\ IF Accepting(plugin) = 0
     THEN /\ answers' = Append(answers, <<plugin, FALSE>>)
          /\ UNCHANGED <<m_pluginCategories, m_pluginNameToContainer, containers, emitted>>
     ELSE /\ initPlugin(plugin)
          /\ answers' = Append(answers, <<plugin, plugin \notin Failing>>)
  /\ UNCHANGED m_registeredPluginTypes

\* The containers of a type whose plugins are in the list that is returned, in that order.
loadedPlugins(type) == {id \in Range(m_pluginCategories[type]) : containers[id].isLoaded}

Next ==
  \/ \E t \in Types : registerPluginType(t)
  \/ \E p \in Plugins : loadBuiltInPlugin(p)

-----------------------------------------------------------------------------
(* Properties                                                               *)

TypeOK ==
  /\ Range(m_registeredPluginTypes) \subseteq Types
  /\ \A t \in Types : Range(m_pluginCategories[t]) \subseteq DOMAIN containers
  /\ m_pluginNameToContainer \in [Names -> 0 .. Len(containers)]

\* Every container is in the list of its type, once, and of no other, the oldest first; the
\* name of a plugin leads to its container, if no other that was loaded has that name;
\* whoever was told of a plugin finds it among the plugins of its type, in the same order;
\* and a load that succeeded is one of them (qpluginmanager_p.cpp:81-116, 137-160). Of two
\* plugins with one name, and of a plugin whose init() fails, the documentation promises
\* what the code does not do (qtplugin.h:15-16, 84-85); nothing is claimed of them here.
RegistriesAgree ==
  /\ \A t \in Types :
       LET ids == m_pluginCategories[t]
       IN  /\ \A j, k \in DOMAIN ids : j < k => ids[j] < ids[k]
           /\ Range(ids) = {id \in DOMAIN containers : containers[id].type = t}
  /\ \A n \in Names :
       LET named == {id \in DOMAIN containers : NameOf[containers[id].plugin] = n}
       IN  /\ named = {} => m_pluginNameToContainer[n] = 0
           /\ \A id \in named : named = {id} => m_pluginNameToContainer[n] = id
  /\ \A t \in Types :
       /\ loadedPlugins(t) = {i \in DOMAIN emitted : emitted[i].type = t}
       /\ \A id \in loadedPlugins(t) : containers[id].plugin = emitted[id].plugin
  /\ \A k \in DOMAIN answers :
       answers[k][2] => \E t \in TypesOf[answers[k][1]] : \E id \in loadedPlugins(t) :
                          containers[id].plugin = answers[k][1]

=============================================================================
