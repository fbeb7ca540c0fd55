----------------------------- MODULE MCObjects -----------------------------
(***************************************************************************)
(* Small instances of the parts that one thread uses, or that need few     *)
(* states, and that keep no state in common. A behaviour uses one of them, *)
(* part, and leaves the others as they began. First the server of          *)
(* ScNetwork and the pure functions; then the services, which keep their   *)
(* state in the same variables x1 to x11, since a behaviour uses only one  *)
(* of them; then QtFrameless. The parts that keep data or pass it on are   *)
(* in MCData, the windows in QFramelessWindows.                            *)
(***************************************************************************)
EXTENDS QFramelessWindows, MCData, Integers, TLC

CONSTANTS Connections                                  \* the server

VARIABLES
  phases, steps, request, extra, contexts, answer, released,   \* the server
  hashed, offset, words, round, work, hashParts,       \* the digest
  trial                                                \* a pure function and its arguments

serverVars == <<phases, steps, request, extra, contexts, answer, released>>
shaVars == <<hashed, offset, words, round, work, hashParts>>
valueVars == <<jsonVars, stringListVars, addressVars, serverVars, shaVars, trial>>

\* Addresses that IPv4 has, as such and mapped, that it had, and that it has not.
SomeIPv4 == <<2570, 3>>
MCIPv4Addresses == {<<0, 0>>, SomeIPv4}
MCIPv6Addresses == {<< <<0, 0>>, <<0, 0>>, <<0, 65535>>, SomeIPv4 >>,
                    << <<0, 0>>, <<0, 0>>, <<0, 0>>, SomeIPv4 >>,
                    << SomeIPv4, <<0, 0>>, <<0, 65535>>, SomeIPv4 >>}

Server == INSTANCE ScWebSocketServer WITH
  state <- phases, phase <- steps, NoContext <- NoValue, NoAnswer <- NoValue

ASSUME ValueAssumption == Server!ServerAssumption

-----------------------------------------------------------------------------
(* The pure functions, each on its inputs. A trial is a kind and its       *)
(* arguments, which are chosen one after the other.                        *)

Algorithms == INSTANCE ScStringAlgorithms WITH
  SizeCount <- 8, Bits <- 4, ByteBits <- 4, Bytes <- 4
JsonValue == INSTANCE ScJsonValue WITH IntBits <- 4, DoubleBits <- 5, LongBits <- 7
Screens == INSTANCE QFramelessUtils

\* The example of RFC 6455, 1.3: a key and its answer; and digests of as many letters
\* as leave room for the length in one block, in two, and none at all.
SampleKey == << 100,71,104,108,73,72,78,104,98,88,66,115,90,83,66,117,98,50,53,106,90,81,61,61 >>
SampleDigest == << 179,122,79,44,192,98,79,22,144,246,70,6,207,56,89,69,178,190,196,234 >>
SampleAnswer == << 44,55,41,15,11,12,1,34,19,49,26,16,61,36,24,6,51,51,33,25,17,27,10,62,49,14,40,64 >>

Letters(n) == [i \in 1 .. n |-> 97]
OtherDigests ==
     Letters(0) :> << 218,57,163,238,94,107,75,13,50,85,191,239,149,96,24,144,175,216,7,9 >>
  @@ Letters(55) :> << 193,200,187,220,34,121,110,40,192,225,81,99,210,8,153,182,86,33,214,90 >>
  @@ Letters(64) :> << 0,152,186,130,75,92,22,66,123,215,161,18,42,90,68,42,37,236,100,77 >>

WebSocket == INSTANCE ScWebSocketUtils WITH
  Keys <- {SampleKey}, Inputs <- DOMAIN OtherDigests, input <- hashed

UpTo(n, S) == UNION {[1 .. k -> S] : k \in 0 .. n}

Texts == UpTo(3, {65, 97, 98})                   \* "A", "a", "b"
Needles == Texts \cup {<<97, 98, 97, 98>>}
HeaderFields == UpTo(4, {32, 44, 65})                  \* " ", ",", "A"
JsonTexts == UpTo(4, {32, 91, 93, 123, 125, 120}) \ {<<>>}
Bytes == {0, 127, 128, 143, 144, 159, 160, 191, 192, 193, 194, 223, 224, 225, 237, 239,
          240, 241, 244, 245, 255}
Tails == {<<>>} \cup {<<x>> : x \in Bytes} \cup {<<x, y>> : x \in Bytes, y \in Bytes}
           \cup {<<x, 128, 191>> : x \in Bytes}

JsonValues ==
  {JsonValue!OfBool(b) : b \in BOOLEAN}
    \cup {JsonValue!OfDouble(halves) : halves \in {0, 3, 4, 40}}
    \cup {JsonValue!OfString(s) : s \in {<<>>, <<97>>, <<97, 0, 97>>}}
    \cup {JsonValue!OfArray, JsonValue!OfObject, JsonValue!NullValue, JsonValue!InvalidValue, JsonValue!Nothing}
JsonKeys == {<<"a", 1>>, <<"a", 2>>, <<"b", 1>>}      \* a word and its case

TitleBarSizes == [width : {0, 60, 61, 200}, margin : {1, 7}, buttons : {0, 46, 138}, icon : {0, 16}]

\* What Windows offers, from Vista to Windows 10 Version 1803.
Vista == {"IsProcessDPIAware", "SetProcessDPIAware"}
Windows8 == Vista \cup {"GetProcessDpiAwareness", "SetProcessDpiAwareness"}
Build1607 == Windows8 \cup {"GetThreadDpiAwarenessContext", "AreDpiAwarenessContextsEqual",
                            "GetAwarenessFromDpiAwarenessContext"}
Build1703 == Build1607 \cup {"SetProcessDpiAwarenessContext"}
Offers ==
  {[api |-> Vista, contexts |-> {}, best |-> "System"],
   [api |-> Windows8, contexts |-> {}, best |-> "PerMonitor"],
   [api |-> Build1607, contexts |-> {}, best |-> "PerMonitor"]}
    \cup {[api |-> api, contexts |-> {"PerMonitorVersion2", "PerMonitor", "System"} \cup more,
           best |-> "PerMonitorVersion2"] :
             api \in {Build1703, Build1703 \cup {"GetDpiAwarenessContextForProcess"}},
             more \in {{}, {"Unaware_GdiScaled"}}}
Processes(offer) ==
  {[level |-> "Unaware", isSet |-> FALSE], [level |-> offer.best, isSet |-> TRUE],
   [level |-> "System", isSet |-> TRUE]}
    \cup {[level |-> level, isSet |-> TRUE] : level \in offer.contexts}
Displays == [windowDpi : {0, 120, 192}, monitorDpi : {0, 96, 144}, scaleFactor : {0, 150},
             deviceCaps : {0, 96}, desktopDpi : {0, 120}, screenCaps : {0, 96}, forDpi : BOOLEAN,
             systemDpi : {96, 120, 144}]

Screen == [left |-> 0, top |-> 0, right |-> 100, bottom |-> 80]
Rects(frame) == {Screens!Zoomed(Screen, frame), Screen, [Screen EXCEPT !.bottom = 40],
                 [left |-> 10, top |-> 10, right |-> 60, bottom |-> 60]}
Frames == UNION {[rect : Rects(frame), before : Rects(frame), frame : {frame}, monitor : {Screen}, isWin11 : BOOLEAN,
                  zoomed : BOOLEAN,
                  autohide : SUBSET {"top", "bottom", "left", "right"}] : frame \in {4, 8}}

\* The first arguments of each function, and the second ones of those that have two.
FirstInputs ==
  [search    |-> Needles \cup {<<97, 98, 98, 97, 98, 97>>},
   pieces    |-> UpTo(5, {32, 97}),
   token     |-> UpTo(2, {65, 97}),
   sum       |-> Algorithms!Signed,
   bytes     |-> {0, 9, 10, 99, 100, 255, 256, 4660, 65535},
   base64    |-> UpTo(4, {0, 65, 255}),
   utf8      |-> Bytes,
   json      |-> JsonTexts,
   integer   |-> JsonValue!Long,
   value     |-> JsonValues,
   members   |-> UpTo(3, JsonKeys),
   items     |-> UpTo(2, {v \in JsonValues : JsonValue!Convertible(v)}),
   version   |-> Screens!SomeVersions,
   label     |-> TitleBarSizes,
   awareness |-> Offers,
   metrics   |-> Displays,
   client    |-> Frames]

SecondInputs(kind, first) ==
  CASE kind = "search"    -> Needles
    [] kind = "token"     -> HeaderFields
    [] kind = "sum"       -> Algorithms!Signed
    [] kind = "value"     -> JsonValues
    [] kind = "members"   -> [DOMAIN first -> {JsonValue!OfBool(TRUE), JsonValue!OfDouble(3)}]
    [] kind = "awareness" -> Processes(first)
    [] kind = "metrics"   -> {1, 4, 8, 23}
    [] kind = "utf8"      -> Tails
    [] OTHER              -> {}

TrialNext ==
  \/ /\ trial = <<>>
     /\ \E kind \in DOMAIN FirstInputs : \E first \in FirstInputs[kind] : trial' = <<kind, first>>
  \/ /\ Len(trial) = 2
     /\ \E second \in SecondInputs(trial[1], trial[2]) : trial' = Append(trial, second)

-----------------------------------------------------------------------------

ValueInit ==
  Json!Init /\ StringList!Init /\ Address!Init /\ Server!Init /\ WebSocket!Init /\ trial = <<>>

JsonNext == Json!Next /\ UNCHANGED <<stringListVars, addressVars, serverVars, shaVars, trial>>
StringListNext == StringList!Next /\ UNCHANGED <<jsonVars, addressVars, serverVars, shaVars, trial>>
AddressNext == Address!Next /\ UNCHANGED <<jsonVars, stringListVars, serverVars, shaVars, trial>>
ServerNext == Server!Next /\ UNCHANGED <<jsonVars, stringListVars, addressVars, shaVars, trial>>
Sha1Next == WebSocket!Next /\ UNCHANGED <<jsonVars, stringListVars, addressVars, serverVars, trial>>
FunctionNext ==
  TrialNext /\ UNCHANGED <<jsonVars, stringListVars, addressVars, serverVars, shaVars>>

-----------------------------------------------------------------------------
(* Properties                                                               *)

\* Whoever shares what with whom, every list, address and container of JSON shows
\* what its own calls gave it, what is shared counts its users, and what a container
\* remembers of its size is right, until a call on a list is undefined or a document is
\* copied, after which nothing is said (scstringlist.cpp:36-127, scjson_p.cpp:406-424,
\* scjsonarray.cpp:26-109, schostaddress.cpp:86-134, 225-253).
CopiesAreTheirOwn ==
  StringList!SharingIsInvisible /\ Json!SharingIsInvisible /\ Address!SharingIsInvisible

\* A connection's context lives as long as the connection, only the answer 101 to a GET for
\* version 13 that lists the tokens makes a WebSocket of it, and any other answer lets go of
\* it (scwebsocketserver_hp.cpp:89-110, 146-245).
HandshakeIsSound == Server!HandshakeIsSound

\* The functions on strings, numbers, bytes, texts, values of JSON, versions of
\* Windows and its screens give what they should (qframelessutils_win.cpp:416-960,
\* qframelesshelper_win.cpp:830-937, scstringalgorithms.cpp:49-230, scnumeric.h:33-157,
\* scwebsocketutils_hp.cpp:12-187, scjson_p.cpp:28-140, scjsonvalue.cpp:3-379,
\* qsystemversion_win.cpp:80-201).
MatchesReference ==
  /\ WebSocket!Done =>
       /\ WebSocket!Digest = IF hashed \in DOMAIN OtherDigests THEN OtherDigests[hashed] ELSE SampleDigest
       /\ WebSocket!Digest = SampleDigest => WebSocket!base64Encode(WebSocket!Digest) = SampleAnswer
  /\ Len(trial) = 2 =>
       CASE trial[1] = "pieces" -> Algorithms!PiecesAreRight(trial[2])
         [] trial[1] = "bytes"  -> Algorithms!BytesAreRight(trial[2])
         [] trial[1] = "base64" -> WebSocket!Base64IsRight(trial[2])
         [] trial[1] = "integer" -> JsonValue!IntegersAreRight(trial[2])
         [] trial[1] = "json"    -> JsonValue!ErrorIsRight(trial[2])
         [] trial[1] = "items"  -> JsonValue!ItemsAreRight(trial[2])
         [] trial[1] = "version" -> Screens!VersionsAreRight(trial[2])
         [] trial[1] = "client" -> Screens!ClientRectIsRight(trial[2])
         [] OTHER               -> TRUE
  /\ Len(trial) = 3 =>
       CASE trial[1] = "search" -> Algorithms!SearchIsRight(trial[2], trial[3])
         [] trial[1] = "token"  -> Algorithms!TokenIsRight(trial[3], trial[2])
         [] trial[1] = "sum"    -> Algorithms!OverflowIsSeen(trial[2], trial[3])
         [] trial[1] = "value"  -> JsonValue!ValuesAreRight(trial[2], trial[3])
         [] trial[1] = "members" -> JsonValue!MembersAreRight(trial[2], trial[3])
         [] trial[1] = "awareness" -> Screens!AwarenessIsHighest(trial[2], trial[3])
         [] trial[1] = "metrics" -> Screens!MetricsAreRight(trial[2], trial[3])
         [] trial[1] = "utf8"   -> WebSocket!Utf8IsRight(<<trial[2]>> \o trial[3])

-----------------------------------------------------------------------------
(* The services *)

CONSTANTS ButtonTypes, Glyphs, Fields, ButtonColors, grey, white, NoColor, \* buttons
          MaxCommands,                                  \* the system menu
          BarWindows, Bar

SystemButtons == INSTANCE QSystemButton WITH
  Types <- ButtonTypes, Colors <- ButtonColors, Invalid <- NoColor, Nothing <- Nil,
  DefaultColor <- [hoverColor |-> grey, pressColor |-> grey, normalColor |-> white,
                   activeForegroundColor |-> NoColor, inactiveForegroundColor |-> NoColor],
  StyleColor <- [enabled \in BOOLEAN |-> IF enabled THEN white ELSE grey],
  button <- x1, underMouse <- x2, inside <- x3, checks <- x4, dirty <- x5, shown <- x6,
  unseen <- x7, named <- x8

TitleBars == INSTANCE QStandardTitleBar WITH
  Windows <- BarWindows,
  place <- x1, window <- x2, connects <- x3, states <- x4, fixed <- x5, qss <- x6, barStyle <- x7,
  buttons <- x8, maxiEnabled <- x9, moved <- x10, styled <- x11

Menu == INSTANCE QSystemMenu WITH
  MaxPosted <- MaxCommands,
  state <- x1, fixed <- x2, isWin11 <- x3, menu <- x4, defaultItem <- x5, lit <- x6, up <- x7,
  posted <- x8, stretched <- x9

ASSUME ServiceAssumption == SystemButtons!ButtonAssumption

-----------------------------------------------------------------------------

Services == {"levels", "application", "plugins", "qtMap", "words", "loader", "file", "button", "bar",
             "menu"}

ServiceInit(part) ==
  \/ /\ \/ part = "levels" /\ LevelSettings!Init
        \/ part = "menu" /\ Menu!Init
     /\ x10 = 0 /\ x11 = 0
  \/ /\ part = "application" /\ Application!Init
     /\ x9 = 0 /\ x10 = 0 /\ x11 = 0
  \/ /\ part = "plugins" /\ Plugin!Init
     /\ x7 = 0 /\ x8 = 0 /\ x9 = 0 /\ x10 = 0 /\ x11 = 0
  \/ /\ \/ part = "qtMap" /\ QtMap!QInit
        \/ part = "loader" /\ Loader!Init
        \/ part \notin Services /\ x1 = 0 /\ x2 = 0 /\ x3 = 0
     /\ x4 = 0 /\ x5 = 0 /\ x6 = 0 /\ x7 = 0 /\ x8 = 0 /\ x9 = 0 /\ x10 = 0 /\ x11 = 0
  \/ /\ part = "words" /\ WordMap!Init
     /\ x5 = 0 /\ x6 = 0 /\ x7 = 0 /\ x8 = 0 /\ x9 = 0 /\ x10 = 0 /\ x11 = 0
  \/ /\ \/ part = "file" /\ File!Init
        \/ part = "button" /\ SystemButtons!Init
     /\ x9 = 0 /\ x10 = 0 /\ x11 = 0
  \/ part = "bar" /\ TitleBars!Init

ServiceNext(part) ==
  \/ /\ \/ part = "levels" /\ LevelSettings!Next
        \/ part = "menu" /\ Menu!Next
     /\ UNCHANGED <<x10, x11>>
  \/ /\ part = "application" /\ Application!Next
     /\ UNCHANGED <<x9, x10, x11>>
  \/ /\ part = "plugins" /\ Plugin!Next
     /\ UNCHANGED <<x7, x8, x9, x10, x11>>
  \/ /\ \/ part = "qtMap" /\ QtMap!QNext
        \/ part = "loader" /\ Loader!Next
     /\ UNCHANGED <<x4, x5, x6, x7, x8, x9, x10, x11>>
  \/ /\ part = "words" /\ WordMap!Next
     /\ UNCHANGED <<x5, x6, x7, x8, x9, x10, x11>>
  \/ /\ \/ part = "file" /\ File!Next
        \/ part = "button" /\ SystemButtons!Next
     /\ UNCHANGED <<x9, x10, x11>>
  \/ part = "bar" /\ TitleBars!Next

ServiceTypeOK(part) ==
  CASE part = "levels"      -> LevelSettings!TypeOK
    [] part = "application" -> Application!TypeOK
    [] part = "plugins"     -> Plugin!TypeOK
    [] part = "qtMap"       -> QtMap!TypeOK
    [] part = "words"       -> WordMap!TypeOK
    [] part = "loader"      -> TRUE
    [] part = "file"        -> File!TypeOK
    [] part = "button"      -> SystemButtons!TypeOK
    [] part = "bar"         -> TitleBars!TypeOK
    [] part = "menu"        -> Menu!TypeOK

-----------------------------------------------------------------------------
(* QtFrameless, and the composition *)

CONSTANTS main, dialog, tool,         \* windows, dialog inside main
          Containers, Global, Roles, Colors, Invalid, Thicknesses, Heights, NormalHeight  \* styles

VARIABLES part,
          style, border, margins, shown, titleBar

styleVars == <<style, border, margins, shown, titleBar>>
allVars == <<configVars, messageVars, vars, mouseVars, dragVars, styleVars, valueVars,
             serviceVars, part>>

MCInside == [x \in {main, dialog, tool} |-> IF x = main THEN {dialog} ELSE {}]

MCStyle ==
  [isWindowBorderEnabled |-> TRUE, thickness |-> 1, color |-> [r \in Roles |-> CHOOSE c \in Colors : TRUE]]

Style == INSTANCE QFramelessStyle WITH Widgets <- Containers, state <- shown, DefaultStyle <- MCStyle

ASSUME QtAssumption == Style!StyleAssumption

QtVars == <<configVars, messageVars, vars, mouseVars, dragVars, styleVars>>

PartInit ==
  /\ part \in {"configuration", "messages", "windows", "mouse", "drag", "style",
               "json", "stringList", "address", "server", "sha1", "function"} \cup Services
  /\ Config!Init /\ Messages!Init /\ Init /\ Mouse!Init /\ Drag!Init /\ Style!Init
  /\ ValueInit /\ ServiceInit(part)
  /\ part # "messages" => \A max \in Maxima : limit <= max
  /\ part # "drag" => ~isWindowFixedSize
  /\ part # "mouse" => ~fixed /\ hooked /\ state = "normal"

PartNext ==
  /\ UNCHANGED part
  /\ \/ /\ UNCHANGED <<valueVars, serviceVars>>
        /\ \/ part = "configuration" /\ Config!Next
              /\ UNCHANGED <<messageVars, vars, mouseVars, dragVars, styleVars>>
           \/ part = "messages" /\ Messages!Next
              /\ UNCHANGED <<configVars, vars, mouseVars, dragVars, styleVars>>
           \/ part = "windows" /\ Next
              /\ UNCHANGED <<configVars, messageVars, mouseVars, dragVars, styleVars>>
           \/ part = "mouse" /\ Mouse!Next
              /\ UNCHANGED <<configVars, messageVars, vars, dragVars, styleVars>>
           \/ part = "drag" /\ Drag!Next
              /\ UNCHANGED <<configVars, messageVars, vars, mouseVars, styleVars>>
           \/ part = "style" /\ Style!Next
              /\ UNCHANGED <<configVars, messageVars, vars, mouseVars, dragVars>>
     \/ /\ UNCHANGED <<QtVars, serviceVars>>
        /\ \/ part = "json" /\ JsonNext
           \/ part = "stringList" /\ StringListNext
           \/ part = "address" /\ AddressNext
           \/ part = "server" /\ ServerNext
           \/ part = "sha1" /\ Sha1Next
           \/ part = "function" /\ FunctionNext
     \/ UNCHANGED <<QtVars, valueVars>> /\ ServiceNext(part)

PartSpec == PartInit /\ [][PartNext]_allVars

-----------------------------------------------------------------------------
(* Properties                                                               *)

\* Every variable of the part in use keeps its type.
TypesOK ==
  CASE part = "configuration" -> Config!TypeOK
    [] part = "messages"   -> Messages!TypeOK
    [] part = "windows"    -> TypeOK
    [] part = "mouse"      -> Mouse!TypeOK
    [] part = "drag"       -> Drag!TypeOK
    [] part = "style"      -> Style!TypeOK
    [] part = "json"       -> Json!TypeOK
    [] part = "stringList" -> StringList!TypeOK
    [] part = "address"    -> Address!TypeOK
    [] part = "server"     -> Server!TypeOK
    [] part \in Services    -> ServiceTypeOK(part)
    [] OTHER               -> TRUE

\* What is kept in two places agrees: an entry of the configuration and what a restarted
\* program would read (qconfigentry.cpp:46-140), and the rows survive the next start
\* (qconfiguration_p.cpp:57-167); the registries of plugins (qpluginmanager_p.cpp:81-116);
\* the two maps of QStringHash (qstringhash.h:58-158); the symbols and the libraries they
\* are of (qsysapiloader.cpp:45-113).
StoresAgree ==
  CASE part = "configuration" -> Config!CacheAgreesWithStore
    [] part = "file"    -> File!RowsAreKept
    [] part = "plugins" -> Plugin!RegistriesAgree
    [] part = "words"   -> WordMap!OneSpelling
    [] part = "loader"  -> Loader!OneAnswer
    [] OTHER            -> TRUE

\* Nothing of a transaction reaches the row (qconfigentry.cpp:71).
TransactionKeepsRow == Config!TransactionKeepsRow

\* The recent messages are in order and not too many (qnotifymanager.cpp:26-35); a
\* callback gets the messages of a synchronous logger that the level lets through, in the
\* pattern and with the names that were asked for (scloggerfactorybuilder.cpp:26-104,
\* sclogger_p.cpp:43-167); and an application ends for a reason, the console's handler
\* after its window (scapplication_linux.cpp:44-103, scapplication_win.cpp:26-126).
MessagesArrive ==
  CASE part = "messages"    -> Messages!RecentIsBounded
    [] part = "levels"      -> LevelSettings!MessagesArrive
    [] part = "application" -> Application!CloseArrives
    [] OTHER                -> TRUE

\* Qt knows whether the pointer is over the window (qframelesshelper_win.cpp:1115-1208).
HoverFollows == Mouse!HoverFollows

\* No drag goes on without the button (qframelesshelper_unix.cpp:140-199).
NoStuckDrag == Drag!NoStuckDrag

\* Border, margins and title bar are what the style and the window's state ask
\* for (qwidgetscontainer.cpp:185-295); the buttons of a title bar act on its window and
\* follow that window's style, and its label has room (qstandardtitlebar.cpp:17-65,
\* 277-284, 323-443); and a button shows
\* its state, or will (qsystembutton.cpp:106-358); the system menu offers what the
\* window allows (qframelesshelper_win.cpp:308-426, 1140-1149).
LookFollowsStyle ==
  CASE part = "style"  -> Style!LookFollowsStyle
    [] part = "bar"    -> TitleBars!ActsOnItsWindow
    [] part = "button" -> SystemButtons!ShowsItsState
    [] part = "menu"   -> Menu!MenuIsRight
    [] part = "function" /\ Len(trial) = 2 ->
         trial[1] = "label" => TitleBars!LabelsFit(trial[2])
    [] OTHER           -> TRUE
=============================================================================
