-------------------------- MODULE ScLoggerFactory --------------------------
(***************************************************************************)
(* The loggers: builders that make the one factory or hand their data to   *)
(* the default logger, the factory with its map of loggers by name, and    *)
(* the default logger. From src/src/ScUtils/src/io/scloggerfactory.cpp,    *)
(* scloggerfactorybuilder.cpp and sclogger_p.cpp.                          *)
(*                                                                         *)
(* All of them are made when they are first asked for, by a look without   *)
(* the mutex and another with it. The look without it races with the       *)
(* thread that has it; a pointer is then found old or new, and a name in   *)
(* the map is found, or missed, or found before its logger is assigned.    *)
(***************************************************************************)
EXTENDS Naturals, FiniteSets

CONSTANTS Threads, Names,
          Default,       \* stands for the name of the default logger
          Own,           \* the data that defaultLogger() makes
          None

LoggerAssumption ==
  /\ Threads # {} /\ Own \notin Threads /\ Default \notin Names
  /\ None \notin Threads \cup Names \cup {Own}

VARIABLES g_factory,     \* the data of the factory, None if there is none
          g_factoryData, \* the data of the default logger
          map,           \* g_loggerMap, and the default logger
          d,             \* the data of each thread's builder
          built,         \* whether each thread has its builder yet
          formatter,     \* the data whose formatter is set up
          deleted,       \* how often each data was deleted
          factoryMutex, loggerMapMutex,
          pc, arg,
          made,          \* history: the loggers made for each name...
          returned,      \* ...and returned to somebody
          unformatted    \* history: a logger was made without the formatter

statics == <<g_factory, g_factoryData, map>>
history == <<made, returned, unformatted>>
vars == <<statics, d, built, formatter, deleted, factoryMutex, loggerMapMutex, pc, arg, history>>

\* A data is named by the thread whose builder made it.
Datas == Threads \cup {Own}
AllNames == Names \cup {Default}

\* A logger is the number it has among those made for its name; an entry of
\* the map is absent, or null, or that number.
Absent == 0
Null == 100
Loggers == 1..Cardinality(Threads)

Places == {"idle", "building", "buildingDefault", "adopting", "defaultLogger", "logger", "assigning"}

\* Every variable has its type (sclogger_p.h:74-147).
TypeOK ==
  /\ g_factory \in Threads \cup {None} /\ g_factoryData \in Datas \cup {None}
  /\ map \in [AllNames -> Loggers \cup {Absent, Null}]
  /\ d \in [Threads -> Threads \cup {None}] /\ built \in [Threads -> BOOLEAN]
  /\ formatter \subseteq Datas /\ deleted \in [Datas -> Nat]
  /\ factoryMutex \in Threads \cup {None} /\ loggerMapMutex \in Threads \cup {None}
  /\ pc \in [Threads -> Places] /\ arg \in [Threads -> Names \cup {None}]
  /\ made \in [AllNames -> Nat] /\ returned \in [AllNames -> SUBSET (Loggers \cup {Null})]
  /\ unformatted \in BOOLEAN

Init ==
  /\ g_factory = None /\ g_factoryData = None
  /\ map = [n \in AllNames |-> Absent]
  /\ d = [t \in Threads |-> None] /\ built = [t \in Threads |-> FALSE]
  /\ formatter = {} /\ deleted = [x \in Datas |-> 0]
  /\ factoryMutex = None /\ loggerMapMutex = None
  /\ pc = [t \in Threads |-> "idle"] /\ arg = [t \in Threads |-> None]
  /\ made = [n \in AllNames |-> 0] /\ returned = [n \in AllNames |-> {}] /\ unformatted = FALSE

Goto(t, place) == pc' = [pc EXCEPT ![t] = place]

Delete(x) == IF x = None THEN deleted ELSE [deleted EXCEPT ![x] = @ + 1]

-----------------------------------------------------------------------------
(* Builders                                                                 *)

\* ScLoggerFactoryBuilder(factoryName, path, fileName)
Builder(t) ==
  /\ pc[t] = "idle" /\ ~built[t]
  /\ built' = [built EXCEPT ![t] = TRUE]
  /\ d' = [d EXCEPT ![t] = t]
  /\ UNCHANGED <<statics, formatter, deleted, factoryMutex, loggerMapMutex, pc, arg, history>>

DestroyBuilder(t) ==
  /\ pc[t] = "idle" /\ d[t] # None
  /\ deleted' = Delete(d[t])
  /\ d' = [d EXCEPT ![t] = None]
  /\ UNCHANGED <<statics, built, formatter, factoryMutex, loggerMapMutex, pc, arg, history>>

\* What a builder has left after it gave its data away.
Released(t) == [d EXCEPT ![t] = None]

\* build(): a builder that has given its data away may only find the factory.
Build(t) ==
  /\ pc[t] = "idle" /\ built[t] /\ (d[t] # None \/ g_factory # None)
  /\ IF g_factory = None THEN Goto(t, "building") ELSE UNCHANGED pc
  /\ UNCHANGED <<statics, d, built, formatter, deleted, factoryMutex, loggerMapMutex, arg, history>>

BuildLocked(t) ==
  /\ pc[t] = "building" /\ factoryMutex = None
  /\ IF g_factory # None THEN UNCHANGED <<g_factory, d, formatter>>
     ELSE /\ g_factory' = d[t]
          /\ formatter' = formatter \cup {d[t]}
          /\ d' = Released(t)
  /\ Goto(t, "idle")
  /\ UNCHANGED <<g_factoryData, map, built, deleted, factoryMutex, loggerMapMutex, arg, history>>

\* buildDefault() publishes the data before it sets up the formatter.
BuildDefault(t) ==
  /\ pc[t] = "idle" /\ built[t] /\ (d[t] # None \/ g_factoryData # None)
  /\ IF g_factoryData = None THEN Goto(t, "buildingDefault") ELSE UNCHANGED pc
  /\ UNCHANGED <<statics, d, built, formatter, deleted, factoryMutex, loggerMapMutex, arg, history>>

BuildDefaultLocked(t) ==
  /\ pc[t] = "buildingDefault" /\ factoryMutex = None
  /\ IF g_factoryData # None
     THEN Goto(t, "idle") /\ UNCHANGED <<g_factoryData, factoryMutex>>
     ELSE /\ g_factoryData' = d[t]
          /\ factoryMutex' = t
          /\ Goto(t, "adopting")
  /\ UNCHANGED <<g_factory, map, d, built, formatter, deleted, loggerMapMutex, arg, history>>

Adopt(t) ==
  /\ pc[t] = "adopting"
  /\ formatter' = formatter \cup {d[t]}
  /\ d' = Released(t)
  /\ factoryMutex' = None
  /\ Goto(t, "idle")
  /\ UNCHANGED <<statics, built, deleted, loggerMapMutex, arg, history>>

-----------------------------------------------------------------------------
(* Loggers                                                                  *)

Return(n, logger) == returned' = [returned EXCEPT ![n] = @ \cup {logger}]

\* createLogger(); the data that defaultLogger() makes needs no formatter.
Create(n, x) ==
  /\ made' = [made EXCEPT ![n] = @ + 1]
  /\ unformatted' = (unformatted \/ x \notin formatter \cup {Own})

MutexFreeFault(t) == TRUE

MutexFree(t) == factoryMutex = None

DefaultLogger(t) ==
  /\ pc[t] = "idle"
  /\ IF map[Default] = Absent THEN Goto(t, "defaultLogger") /\ UNCHANGED returned
     ELSE Return(Default, map[Default]) /\ UNCHANGED pc
  /\ UNCHANGED <<statics, d, built, formatter, deleted, factoryMutex, loggerMapMutex, arg, made, unformatted>>

DefaultLoggerLocked(t) ==
  /\ pc[t] = "defaultLogger" /\ MutexFree(t)
  /\ IF map[Default] = Absent
     THEN /\ g_factoryData' = IF g_factoryData = None THEN Own ELSE g_factoryData
          /\ Create(Default, g_factoryData')
          /\ map' = [map EXCEPT ![Default] = made'[Default]]
     ELSE UNCHANGED <<g_factoryData, map, made, unformatted>>
  /\ Return(Default, map'[Default])
  /\ Goto(t, "idle")
  /\ UNCHANGED <<g_factory, d, built, formatter, deleted, factoryMutex, loggerMapMutex, arg>>

\* logger(name): the look without the mutex may miss a name while another
\* thread inserts into the map.
Logger(t, n) ==
  /\ pc[t] = "idle" /\ g_factory # None
  /\ \/ /\ map[n] # Absent
        /\ Return(n, map[n])
        /\ UNCHANGED <<pc, arg>>
     \/ /\ map[n] = Absent \/ loggerMapMutex # None
        /\ Goto(t, "logger")
        /\ arg' = [arg EXCEPT ![t] = n]
        /\ UNCHANGED returned
  /\ UNCHANGED <<statics, d, built, formatter, deleted, factoryMutex, loggerMapMutex, made, unformatted>>

\* The second look, with the mutex.
MissingFault(n) == TRUE

Missing(n) == map[n] = Absent

\* operator[] of the map inserts a null logger first.
LoggerLocked(t) ==
  /\ pc[t] = "logger" /\ loggerMapMutex = None
  /\ IF Missing(arg[t])
     THEN /\ Create(arg[t], g_factory)
          /\ map' = [map EXCEPT ![arg[t]] = Null]
          /\ loggerMapMutex' = t
          /\ Goto(t, "assigning")
          /\ UNCHANGED <<arg, returned>>
     ELSE /\ Return(arg[t], map[arg[t]])
          /\ Goto(t, "idle")
          /\ arg' = [arg EXCEPT ![t] = None]
          /\ UNCHANGED <<map, loggerMapMutex, made, unformatted>>
  /\ UNCHANGED <<g_factory, g_factoryData, d, built, formatter, deleted, factoryMutex>>

Assign(t) ==
  /\ pc[t] = "assigning"
  /\ map' = [map EXCEPT ![arg[t]] = made[arg[t]]]
  /\ Return(arg[t], made[arg[t]])
  /\ loggerMapMutex' = None
  /\ Goto(t, "idle")
  /\ arg' = [arg EXCEPT ![t] = None]
  /\ UNCHANGED <<g_factory, g_factoryData, d, built, formatter, deleted, factoryMutex, made, unformatted>>

\* clearup() when the program ends, after which nothing is asked for.
Clearup ==
  /\ \A t \in Threads : pc[t] = "idle" /\ d[t] = None /\ built[t]
  /\ g_factory # None
  /\ deleted' = Delete(g_factory)
  /\ g_factory' = None
  /\ UNCHANGED <<g_factoryData, map, d, built, formatter, factoryMutex, loggerMapMutex, pc, arg, history>>

Next ==
  \/ \E t \in Threads :
       \/ Builder(t) \/ DestroyBuilder(t)
       \/ Build(t) \/ BuildLocked(t)
       \/ BuildDefault(t) \/ BuildDefaultLocked(t) \/ Adopt(t)
       \/ DefaultLogger(t) \/ DefaultLoggerLocked(t)
       \/ \E n \in Names : Logger(t, n)
       \/ LoggerLocked(t) \/ Assign(t)
  \/ Clearup

Spec == Init /\ [][Next]_vars

-----------------------------------------------------------------------------
(* Properties                                                               *)

\* All who ask for a name get the same logger, however they overlap; only the
\* look without the mutex can come back with a null one, and only while that
\* logger is on its way (scloggerfactory.cpp:23-55).
OneLoggerPerName ==
  /\ \A n \in AllNames : made[n] <= 1 /\ Cardinality(returned[n] \ {Null}) <= 1
  /\ \A n \in AllNames : map[n] = Null => loggerMapMutex # None
  /\ Null \notin returned[Default]

\* What a builder was told has one owner: the builder, the factory or the
\* default logger, and is deleted at most once; and no logger is made from data
\* whose formatter is not there yet (scloggerfactorybuilder.cpp:15-18, 88-118).
DataHasOneOwner ==
  /\ \A x \in Datas :
       /\ deleted[x] <= 1
       /\ deleted[x] = 1 => x # g_factory /\ x # g_factoryData
       /\ Cardinality({t \in Threads : d[t] = x /\ pc[t] # "adopting"})
          + (IF g_factory = x THEN 1 ELSE 0) + (IF g_factoryData = x THEN 1 ELSE 0) <= 1
  /\ ~unformatted

\* Both: whoever asks, and whoever builds, there is one of everything.
OneOfEach == OneLoggerPerName /\ DataHasOneOwner
=============================================================================
