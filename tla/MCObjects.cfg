SPECIFICATION PartSpec
CONSTANTS
  Entries = {e1, e2}
  Persistable = {e1, e2}
  Categories = {{e1, e2}}
  Mains = {{e1, e2}}
  Settings = {v1, v2}
  Default <- MCDefault
  Null = Null
  Threads = {p1, p2}
  Maxima = {1, 2}
  MaxMessages = 5
  main = main
  dialog = dialog
  tool = tool
  Windows = {main, dialog, tool}
  Ids = {1, 2, 3, 4}
  None = None
  Inside <- MCInside
  Pixels <- MCPixels
  ClientWidth = 12
  ClientHeight = 16
  ResizeFrame = 3
  TitlePixels <- MCTitlePixels
  ButtonPixels <- MCButtonPixels
  Outside = Outside
  MaxPosted = 7
  MaxFilters = 2
  MaxQueue = 2
  Containers = {widget}
  Global = Global
  Roles = {active}
  Colors = {red, blue}
  Invalid = Invalid
  Thicknesses = {0, 1, 4}
  Heights = {30, 40}
  NormalHeight = 22
  ArrayHolders = {a1, a2}
  ObjectHolders = {o1}
  DocumentHolders = {d1, d2}
  ValueHolders = {w1}
  ItemKeys = {i1, i2}
  TreeIds = {1, 2}
  JsonItems = {alpha}
  MaxRef = 3
  MaxItems = 2
  Chains = {c1, c2, c3}
  ChainIds = {1, 2, 3}
  Elements = {alpha, beta}
  MaxLength = 2
  Handles = {h1, h2}
  PrivateIds = {1, 2, 3}
  IPv4Addresses <- MCIPv4Addresses
  IPv6Addresses <- MCIPv6Addresses
  Connections = {x1, x2}
  NoValue = NoValue
  Callbacks = {b1}
  Loggers = {g1}
  LogLevels = {0, 1, 3}
  Labels = {L1}
  Full = Full
  Labelled = Labelled
  Plain = Plain
  Builtin = Builtin
  Quitters = {q1, q2}
  ConsoleHandlers = {k1, k2, k3}
  Plugins = {plug1, plug2, plug3}
  PluginTypes = {type1, type2}
  Names = {1, 2}
  NameOf <- MCNameOf
  TypesOf <- MCTypesOf
  Failing = {plug2}
  MaxLoads = 4
  plug1 = plug1
  plug2 = plug2
  plug3 = plug3
  type1 = type1
  type2 = type2
  QtKeys = {1, 2, 3}
  QtVals = {1, 2}
  DefaultKey = 1
  DefaultVal = 1
  Spellings = {ab, AB, cd}
  WordValues = {One, Two}
  toLower <- MCToLower
  ab = ab
  AB = AB
  cd = cd
  Paths = {lib, sysLib, dirLib, noName}
  FunctionNames = {fn1, fn2, noName}
  fileNameOf <- MCFileNameOf
  symbols <- MCSymbols
  lib = lib
  sysLib = sysLib
  dirLib = dirLib
  fn1 = fn1
  fn2 = fn2
  noName = noName
  Chosen = Chosen
  Portable = Portable
  Standard = Standard
  Memory = Memory
  Foreign = Foreign
  FileValues = {One}
  ButtonTypes = {"Close", "Maximize"}
  Glyphs = {glyph}
  Fields = {"hoverColor", "activeForegroundColor"}
  ButtonColors = {green}
  grey = grey
  white = white
  MaxCommands = 2
  NoColor = NoColor
  BarWindows = {y1, y2}
  Bar = Bar
  Nil = Nil
INVARIANTS TypesOK MapsAgree HookForwards HoverFollows NoStuckDrag LookFollowsStyle StoresAgree MessagesArrive CopiesAreTheirOwn HandshakeIsSound MatchesReference
PROPERTIES TransactionKeepsRow
CHECK_DEADLOCK FALSE
