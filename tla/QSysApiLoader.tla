--------------------------- MODULE QSysApiLoader ---------------------------
(***************************************************************************)
(* The functions of system libraries that were looked for, by the file     *)
(* name of the library and the function: found or not, the first answer    *)
(* is the one that is given again. QSystemLibrary is external.             *)
(***************************************************************************)

CONSTANTS Paths,         \* names of libraries, with or without a directory
          FunctionNames,
          Empty,         \* the empty name of a library or a function
          fileNameOf,    \* what the key has of each path: its file name with suffix, in
                         \* lower case, and a separator if there was a directory
          symbols,       \* the functions that each path leads to
          null

LoaderAssumption ==
  /\ Empty \in Paths \cap FunctionNames
  /\ {Paths \ {Empty}} = {DOMAIN fileNameOf, DOMAIN symbols}

VARIABLES g_sysApiLoaderData, \* the symbol of each key
          told,               \* history: the keys asked for, with what get() answered
          available           \* history: the keys asked for, with what isAvailable() answered

vars == <<g_sysApiLoaderData, told, available>>

Init == g_sysApiLoaderData = [key \in {} |-> null] /\ told = {} /\ available = {}

generateUniqueKey(library, function) == <<fileNameOf[library], function>>

\* A symbol is named by where it was found.
resolve(library, function) ==
  IF function \in symbols[library] THEN <<library, function>> ELSE null

Put(data, key, symbol) ==
  [k \in DOMAIN data \cup {key} |-> IF k = key THEN symbol ELSE data[k]]

InsertedFault(data, key, symbol) == IF symbol = null THEN data ELSE Put(data, key, symbol)

\* What was found is kept, and that nothing was found is kept as well.
Inserted(data, key, symbol) == Put(data, key, symbol)

\* What get() and isAvailable() have in common.
Look(library, function) ==
  LET key == generateUniqueKey(library, function)
  IN  g_sysApiLoaderData' =
        IF key \in DOMAIN g_sysApiLoaderData THEN g_sysApiLoaderData
        ELSE Inserted(g_sysApiLoaderData, key, resolve(library, function))

Answer(library, function) ==
  LET key == generateUniqueKey(library, function)
  IN  IF key \in DOMAIN g_sysApiLoaderData THEN g_sysApiLoaderData[key] ELSE resolve(library, function)

get(library, function) ==
  /\ Empty \notin {library, function}
  /\ Look(library, function)
  /\ told' = told \cup {<<generateUniqueKey(library, function), Answer(library, function)>>}
  /\ UNCHANGED available

isAvailable(library, function) ==
  /\ Empty \notin {library, function}
  /\ Look(library, function)
  /\ available' = available \cup {<<generateUniqueKey(library, function), Answer(library, function) # null>>}
  /\ UNCHANGED told

Next == \E library \in Paths, function \in FunctionNames :
          get(library, function) \/ isAvailable(library, function)

-----------------------------------------------------------------------------

\* Whoever asks, by whatever directory, is told the same of a library's function by
\* both questions, and what is told is that function of a library of that name.
OneAnswer ==
  /\ \A x, y \in told : x[1] = y[1] => x[2] = y[2]
  /\ \A x \in told, y \in available : x[1] = y[1] => y[2] = (x[2] # null)
  /\ \A x \in told : x[2] # null => x[1] = generateUniqueKey(x[2][1], x[2][2])

=============================================================================
