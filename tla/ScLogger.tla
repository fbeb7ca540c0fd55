------------------------------ MODULE ScLogger ------------------------------
(***************************************************************************)
(* What a message of ScLogger becomes: the settings of the builder, the    *)
(* formatter made of them, the level of a logger and the callbacks that    *)
(* get the text. Of a text only the label is kept, the name of its level.  *)
(* Who makes which logger when is module ScLoggerFactory.                  *)
(*                                                                         *)
(* A pattern is Full ("%+"), one that shows the level or one that does not.*)
(***************************************************************************)
EXTENDS Naturals

CONSTANTS Levels,      \* those of Sc::LoggerLevel that are used, 0 is Off
          Labels,      \* names for levels
          Callbacks,
          Loggers,     \* the loggers of the factory
          Full, Labelled, Plain,  \* patterns
          Builtin,     \* the name spdlog has for a level
          None

LoggerAssumption ==
  /\ Levels \subseteq 0 .. 6 /\ {Builtin, None} \cap Labels = {}
  /\ Plain \notin {Full, Labelled}
  /\ None \notin 0 .. 6 \cup {Full, Labelled, Plain}
  /\ None \notin [pattern : {Full, Labelled, Plain}, customFlags : BOOLEAN]

VARIABLES d,           \* the fields of ScLoggerFactoryData
          built,       \* build() has been called
          level,       \* the level of each logger, None before it is made
          formatterOf, \* the formatter of each callback, None at first
          text,        \* what the last message made each callback show, None for nothing
          asked, told, \* history: the pattern and the names the client asked for
          limit, sent  \* history: the level set for a logger; the last message's, and its limit

vars == <<d, built, level, formatterOf, text, asked, told, limit, sent>>

SpdlogLevels == 0 .. 6
Off == 6

toSpdlogLevelFault(l) == l

\* Sc::LoggerLevel has Off before all levels, spdlog after them.
toSpdlogLevel(l) == IF l = 0 THEN Off ELSE l - 1

Init ==
  /\ d = [loggerLevel |-> 3, isAsyncEnabled |-> FALSE, isPatternEnabled |-> FALSE,
          pattern |-> Full, customFlags |-> FALSE, spdlogLevelNames |-> [l \in SpdlogLevels |-> Builtin],
          patternFormatter |-> None, sinks |-> {}]
  /\ built = FALSE
  /\ level = [g \in Loggers |-> None]
  /\ formatterOf = [c \in Callbacks |-> None]
  /\ text = [c \in Callbacks |-> None]
  /\ asked = None /\ told = [l \in Levels |-> Builtin]
  /\ limit = [g \in Loggers |-> 0] /\ sent = None

-----------------------------------------------------------------------------
(* The builder, which has given its data away when the factory is built     *)

loggerVars == <<built, level, formatterOf, text, limit, sent>>

SetLoggerLevel(l) ==
  /\ ~built /\ d' = [d EXCEPT !.loggerLevel = l]
  /\ UNCHANGED <<loggerVars, asked, told>>

SetAsyncEnabled(on) ==
  /\ ~built /\ d' = [d EXCEPT !.isAsyncEnabled = on]
  /\ UNCHANGED <<loggerVars, asked, told>>

SetPattern(p) ==
  /\ ~built /\ d' = [d EXCEPT !.isPatternEnabled = TRUE, !.pattern = p]
  /\ asked' = p
  /\ UNCHANGED <<loggerVars, told>>

\* The names given by a second call would replace the strings that the table still
\* refers to for other levels; the model has one call.
SetLevelPattern(names) ==
  /\ ~built /\ ~d.customFlags /\ DOMAIN names # {}
  /\ d' = [d EXCEPT !.isPatternEnabled = TRUE, !.customFlags = TRUE,
             !.spdlogLevelNames = [s \in SpdlogLevels |->
               IF \E l \in DOMAIN names : toSpdlogLevel(l) = s
               THEN names[CHOOSE l \in DOMAIN names : toSpdlogLevel(l) = s] ELSE @[s]]]
  /\ told' = [l \in Levels |-> IF l \in DOMAIN names THEN names[l] ELSE told[l]]
  /\ UNCHANGED <<loggerVars, asked>>

AddSink(c) ==
  /\ ~built /\ d' = [d EXCEPT !.sinks = @ \cup {c}]
  /\ UNCHANGED <<loggerVars, asked, told>>

FormatterOfFault(data) ==
  IF ~data.isPatternEnabled THEN None
  ELSE [pattern |-> data.pattern, customFlags |-> data.customFlags]

\* The full pattern has names of its own, so it is spelt out if there are others.
FormatterOf(data) ==
  IF ~data.isPatternEnabled THEN None
  ELSE [pattern |-> IF data.pattern = Full /\ data.customFlags THEN Labelled ELSE data.pattern,
        customFlags |-> data.customFlags]

Build ==
  /\ ~built /\ built' = TRUE
  /\ d' = [d EXCEPT !.patternFormatter = FormatterOf(d),
                    !.customFlags = @ /\ ~d.isPatternEnabled]
  /\ UNCHANGED <<level, formatterOf, text, asked, told, limit, sent>>

-----------------------------------------------------------------------------
(* Loggers, which share the callbacks                                       *)

CreateLogger(g) ==
  /\ built /\ level[g] = None
  /\ level' = [level EXCEPT ![g] = toSpdlogLevel(d.loggerLevel)]
  /\ formatterOf' = [c \in Callbacks |->
       IF c \in d.sinks /\ d.patternFormatter # None THEN d.patternFormatter ELSE formatterOf[c]]
  /\ limit' = [limit EXCEPT ![g] = d.loggerLevel]
  /\ UNCHANGED <<d, built, text, asked, told, sent>>

SetLevel(g, l) ==
  /\ level[g] # None /\ level' = [level EXCEPT ![g] = toSpdlogLevel(l)]
  /\ limit' = [limit EXCEPT ![g] = l]
  /\ UNCHANGED <<d, built, formatterOf, text, asked, told, sent>>

\* sink_it_() formats a message for its callback.
Shown(c, s) ==
  LET f == formatterOf[c]
  IN  IF f = None THEN Builtin
      ELSE IF f.pattern = Plain THEN Plain
      ELSE IF f.pattern = Labelled /\ f.customFlags THEN d.spdlogLevelNames[s] ELSE Builtin

\* Nothing makes the thread pool of spdlog that an asynchronous logger posts its messages to,
\* so it drops them.
Log(g, l) ==
  /\ level[g] # None /\ l # 0
  /\ LET s == toSpdlogLevel(l)
     IN  text' = [c \in Callbacks |->
                    IF c \in d.sinks /\ s >= level[g] /\ ~d.isAsyncEnabled THEN Shown(c, s) ELSE None]
  /\ sent' = [level |-> l, limit |-> limit[g]]
  /\ UNCHANGED <<d, built, level, formatterOf, asked, told, limit>>

NamesFor == UNION {[S -> Labels] : S \in SUBSET Levels}

Next ==
  \/ \E l \in Levels : SetLoggerLevel(l)
  \/ \E on \in BOOLEAN : SetAsyncEnabled(on)
  \/ \E p \in {Full, Labelled, Plain} : SetPattern(p)
  \/ \E names \in NamesFor : SetLevelPattern(names)
  \/ \E c \in Callbacks : AddSink(c)
  \/ Build
  \/ \E g \in Loggers : CreateLogger(g)
  \/ \E g \in Loggers, l \in Levels : SetLevel(g, l) \/ Log(g, l)

Spec == Init /\ [][Next]_vars

-----------------------------------------------------------------------------
(* Properties                                                               *)

TypeOK ==
  /\ d.loggerLevel \in Levels \cup {3} /\ d.isAsyncEnabled \in BOOLEAN /\ d.isPatternEnabled \in BOOLEAN
  /\ d.pattern \in {Full, Labelled, Plain} /\ d.customFlags \in BOOLEAN
  /\ d.spdlogLevelNames \in [SpdlogLevels -> Labels \cup {Builtin}] /\ d.sinks \subseteq Callbacks
  /\ built \in BOOLEAN /\ level \in [Loggers -> SpdlogLevels \cup {None}]
  /\ text \in [Callbacks -> Labels \cup {Builtin, Plain, None}]

\* What a message of level l shall show to a callback.
Due(l) == IF asked = Plain THEN Plain ELSE told[l]

\* The last message shows on every callback if its logger's limit lets it through, and
\* as it shall.
Delivered ==
  text = [c \in Callbacks |->
            IF c \in d.sinks /\ sent.limit # 0 /\ sent.level >= sent.limit
            THEN Due(sent.level) ELSE None]

\* Whatever the order in which pattern, names, level and callbacks were set, a message of a
\* synchronous logger reaches every callback or none, a level that was given a name shows
\* under it unless the pattern leaves levels out, and Off silences a logger
\* (scloggerfactorybuilder.cpp:26-104, sclogger_p.cpp:43-167).
MessagesArrive == sent # None /\ ~d.isAsyncEnabled => Delivered

\* So does a message of an asynchronous logger, which the builder offers
\* (scloggerfactorybuilder.h:43-47); it does not (sclogger_p.cpp:51-53).
AsyncMessagesArrive == sent # None /\ d.isAsyncEnabled => Delivered

=============================================================================
