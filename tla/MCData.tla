------------------------------- MODULE MCData -------------------------------
(***************************************************************************)
(* The parts of MCObjects that keep data or pass it on: the configuration; *)
(* containers of JSON, lists of strings and addresses, which share what    *)
(* they copy; plugins, maps, words, libraries and files, which are stored  *)
(* in two ways; and messages, loggers, the application and the events of   *)
(* the mouse, which have to arrive. Loggers, the application and what is   *)
(* stored in two ways keep their state in x1 to x11, as the other services *)
(* of MCObjects do.                                                        *)
(***************************************************************************)
EXTENDS Integers, Sequences, TLC

CONSTANTS Entries, Persistable, Categories, Mains,     \* entries of the configuration,
          Settings, Default, Null,                     \* and their values
          ArrayHolders, ObjectHolders, DocumentHolders, ValueHolders, ItemKeys, \* JSON
          TreeIds, JsonItems, MaxRef, MaxItems,
          Chains, ChainIds, Elements, MaxLength,       \* string lists
          Handles, PrivateIds, IPv4Addresses, IPv6Addresses,  \* addresses
          Threads, Maxima, MaxMessages,                \* messages
          Callbacks, Loggers, LogLevels, Labels, Full, Labelled, Plain, Builtin,  \* loggers
          Quitters, ConsoleHandlers,                   \* the application
          Pixels, ClientWidth, ClientHeight, ResizeFrame, TitlePixels, ButtonPixels,
          Outside, MaxPosted,                          \* the mouse on Windows
          MaxFilters, MaxQueue,                        \* the mouse elsewhere
          Plugins, PluginTypes, Names, NameOf, TypesOf, Failing, MaxLoads,    \* plugins
          plug1, plug2, plug3, type1, type2,
          QtKeys, QtVals, DefaultKey, DefaultVal,       \* a two-way map
          Spellings, WordValues, toLower, ab, AB, cd,   \* words, AB is ab in upper case
          Paths, FunctionNames, fileNameOf, symbols, noName,   \* libraries
          lib, sysLib, dirLib, fn1, fn2,                \* the last two of one name
          Chosen, Portable, Standard, Memory, Foreign, FileValues,  \* directories, a table
          NoValue, Nil

VARIABLES
  entry, m_pConfig, store, committed, m_isMassSaving, unsaved, clean, \* the configuration
  root, data, expected, uncounted,                     \* JSON
  chain, node, meant, undefined,                       \* string lists
  pointer, private, told,                              \* addresses
  recent, maxRecentMessages, mutex, pc, local, sent, limit,  \* messages
  pos, state, fixed, hooked, moved, posted, lastHitTestResult, isMouseLeaveBlocked,
  tracking, ncTracking, tracked, hover,                \* the mouse on Windows
  dragData, filters, isWindowFixedSize, windowState, cursor, down, moving, input, events, \* elsewhere
  x1, x2, x3, x4, x5, x6, x7, x8, x9, x10, x11         \* the service in use

configVars == <<entry, m_pConfig, store, committed, m_isMassSaving, unsaved, clean>>
jsonVars == <<root, data, expected, uncounted>>
stringListVars == <<chain, node, meant, undefined>>
addressVars == <<pointer, private, told>>
messageVars == <<recent, maxRecentMessages, mutex, pc, local, sent, limit>>
mouseVars == <<pos, state, fixed, hooked, moved, posted, lastHitTestResult, isMouseLeaveBlocked,
               tracking, ncTracking, tracked, hover>>
dragVars == <<dragData, filters, isWindowFixedSize, windowState, cursor, down, moving, input, events>>
serviceVars == <<x1, x2, x3, x4, x5, x6, x7, x8, x9, x10, x11>>

\* One entry has no default value.
MCDefault ==
  LET bare == CHOOSE e \in Entries : TRUE
  IN  [e \in Entries |-> IF e = bare THEN Null ELSE CHOOSE v \in Settings : TRUE]

Config == INSTANCE QConfiguration WITH Values <- Settings

Json == INSTANCE ScJson WITH d <- root, DataIds <- TreeIds, Items <- JsonItems, None <- NoValue

StringList == INSTANCE ScStringList WITH Lists <- Chains, d <- chain, DataIds <- ChainIds

Address == INSTANCE ScHostAddress WITH DataIds <- PrivateIds, Null <- NoValue

Messages == INSTANCE QNotifyManager WITH None <- Nil

LevelSettings == INSTANCE ScLogger WITH
  Levels <- LogLevels, None <- Nil,
  d <- x1, built <- x2, level <- x3, formatterOf <- x4, text <- x5, asked <- x6, told <- x7,
  limit <- x8, sent <- x9

Application == INSTANCE ScApplication WITH
  Handlers <- ConsoleHandlers,
  linux <- x1, self <- x2, main <- x3, found <- x4, reason <- x5, hwnd <- x6, queue <- x7,
  handler <- x8

\* A window 12 pixels wide and 16 high with a frame of 3: points in the system
\* buttons, in the title bar, in the client area, and within and at the frame.
MCPixels == {<<8, 4>>, <<8, 1>>, <<5, 4>>, <<5, 1>>, <<5, 10>>, <<0, 10>>, <<-1, 10>>}
MCTitlePixels == {<<5, 4>>, <<5, 1>>, <<8, 4>>, <<8, 1>>}
MCButtonPixels == {<<8, 4>>, <<8, 1>>}
Mouse == INSTANCE QFramelessMouse WITH
  Points <- Pixels, Width <- ClientWidth, Height <- ClientHeight, FrameSize <- ResizeFrame,
  TitleBar <- TitlePixels, Button <- ButtonPixels

Drag == INSTANCE QFramelessDrag WITH data <- dragData, posted <- events

\* Two plugins have the same name, one of which cannot be initialised.
MCNameOf == plug1 :> 1 @@ plug2 :> 1 @@ plug3 :> 2
MCTypesOf == plug1 :> {type1, type2} @@ plug2 :> {type2} @@ plug3 :> {type1}
Plugin == INSTANCE QPluginManager WITH
  Types <- PluginTypes,
  m_registeredPluginTypes <- x1, m_pluginCategories <- x2, m_pluginNameToContainer <- x3,
  containers <- x4, emitted <- x5, answers <- x6

QtMap == INSTANCE ScBiHash WITH
  Keys <- QtKeys, Vals <- QtVals,
  hash <- x1, inverted <- x2, replaced <- x3

MCToLower == ab :> ab @@ AB :> ab @@ cd :> cd
WordMap == INSTANCE QStringHash WITH
  Values <- WordValues, NoValue <- Nil, hash <- x1, lowerCaseHash <- x2, latest <- x3, doubtful <- x4

MCFileNameOf == lib :> 1 @@ sysLib :> 2 @@ dirLib :> 2
MCSymbols == lib :> {fn1} @@ sysLib :> {fn1, fn2} @@ dirLib :> {fn1}
Loader == INSTANCE QSysApiLoader WITH
  Empty <- noName, null <- Nil,
  g_sysApiLoaderData <- x1, told <- x2, available <- x3

File == INSTANCE QConfigurationFile WITH
  Values <- FileValues, NoRow <- Nil,
  directories <- x1, tables <- x2, row <- x3, phase <- x4, m_db <- x5, known <- x6, stored <- x7,
  unversioned <- x8

ASSUME DataAssumption ==
  /\ Config!ConfigAssumption /\ Json!JsonAssumption /\ StringList!ListAssumption
  /\ Address!AddressAssumption /\ Messages!NotifyAssumption /\ LevelSettings!LoggerAssumption
  /\ Mouse!MouseAssumption /\ Drag!DragAssumption /\ Plugin!PluginAssumption
  /\ QtMap!BiHashAssumption /\ WordMap!QStringHashAssumption /\ Loader!LoaderAssumption
  /\ File!FileAssumption
=============================================================================
