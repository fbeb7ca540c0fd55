-------------------------- MODULE QConfigurationFile --------------------------
(***************************************************************************)
(* The file that the configuration is kept in: which of several directories *)
(* it is in, and how its tables are made, statement by statement. Every    *)
(* start of the program goes through all of it; a statement may fail and   *)
(* the program may end after any. SQLite and the file system are external. *)
(***************************************************************************)
EXTENDS Naturals, Sequences, SequencesExt, FiniteSets

CONSTANTS Chosen, Portable, Standard, Memory, \* the directories
          Values, NoRow,
          Foreign                             \* a table of someone else's

Places == {Chosen, Portable, Standard, Memory}

FileAssumption == Memory \notin {Chosen, Portable, Standard} /\ NoRow \notin Places

VARIABLES directories, \* those that exist
          tables,      \* of each file
          row,         \* of each file, the value in its settings, NoRow for none
          phase,       \* what the program does next
          m_db,        \* the open file, NoRow for none
          known,       \* the tables that initTables() found
          stored,      \* history: of each file, the value that was stored last
          unversioned  \* history: the files for which no version table was made yet

vars == <<directories, tables, row, phase, m_db, known, stored, unversioned>>
fileVars == <<tables, row, stored, unversioned>>

\* A file may have been there before, without a version.
Init ==
  /\ directories \in {{Portable}, {Portable, Chosen}}
  /\ tables \in [Places -> {{}}] \cup {[p \in Places |-> IF p = Portable THEN {Foreign, "settings"} ELSE {}]}
  /\ row = [p \in Places |-> NoRow] /\ stored = [p \in Places |-> NoRow]
  /\ unversioned = Places
  /\ phase = "off" /\ m_db = NoRow /\ known = {}

\* Of the directory that was chosen, if one was, that of the program if it is portable,
\* the standard one, and the last, which QSqlDatabase takes for a directory as well.
\* The second field is isAutoCreate.
standardDbPaths(isPortable) ==
  (IF isPortable THEN << <<Portable, FALSE>> >> ELSE <<>>) \o << <<Standard, TRUE>> >>
Candidates(isChosen, isPortable) ==
  (IF isChosen THEN << <<Chosen, TRUE>> >> ELSE <<>>) \o standardDbPaths(isPortable) \o << <<Memory, FALSE>> >>

\* tryOpenDbFile() of one after the other, of which some cannot be made or written.
initDbFile(isChosen, isPortable, Broken) ==
  LET paths == Candidates(isChosen, isPortable)
      opened == SelectInSeq(paths, LAMBDA c : c[1] \notin Broken /\ (c[2] \/ c[1] \in directories))
      tried  == IF opened = 0 THEN DOMAIN paths ELSE 1 .. opened
  IN  /\ phase = "off" /\ phase' = "find"
      /\ m_db' = IF opened = 0 THEN NoRow ELSE paths[opened][1]
      /\ directories' = directories \cup {paths[i][1] : i \in {i \in tried : paths[i][2] /\ paths[i][1] \notin Broken}}
      /\ known' = {}
      /\ UNCHANGED fileVars

-----------------------------------------------------------------------------
(* initTables(). Nothing is done when no file is open, or a statement fails. *)

Works(ok) == ok /\ m_db # NoRow

FindTables(ok) ==
  /\ phase = "find"
  /\ known' = IF Works(ok) THEN tables[m_db] ELSE {}
  /\ phase' = IF "version" \in known' THEN "settings" ELSE "drop"
  /\ UNCHANGED <<directories, m_db, fileVars>>

\* One after the other; a table that could not be dropped stays. What a file without a
\* version had is not kept.
DropTable(table, ok) ==
  /\ phase = "drop" /\ table \in known
  /\ known' = known \ {table}
  /\ IF Works(ok)
     THEN /\ tables' = [tables EXCEPT ![m_db] = @ \ {table}]
          /\ row' = IF table = "settings" THEN [row EXCEPT ![m_db] = NoRow] ELSE row
          /\ stored' = IF table = "settings" /\ m_db \in unversioned THEN [stored EXCEPT ![m_db] = NoRow] ELSE stored
     ELSE UNCHANGED <<tables, row, stored>>
  /\ UNCHANGED <<directories, phase, m_db, unversioned>>

VersionedFault(old) == old

\* CREATE TABLE version; its only row is not read by anyone.
Versioned(old) == old \cup {"version"}

CreateVersion(ok) ==
  /\ phase = "drop" /\ known = {} /\ phase' = "settings"
  /\ IF Works(ok)
     THEN /\ tables' = [tables EXCEPT ![m_db] = Versioned(@)]
          /\ unversioned' = unversioned \ {m_db}
     ELSE UNCHANGED <<tables, unversioned>>
  /\ UNCHANGED <<directories, m_db, known, row, stored>>

\* A table of this name that could not be dropped makes this fail.
CreateSettings(ok) ==
  /\ phase = "settings" /\ phase' = "running"
  /\ IF "settings" \notin known /\ Works(ok)
     THEN tables' = [tables EXCEPT ![m_db] = @ \cup {"settings"}] ELSE UNCHANGED tables
  /\ UNCHANGED <<directories, m_db, known, row, stored, unversioned>>

-----------------------------------------------------------------------------

Ready == phase = "running" /\ m_db # NoRow /\ "settings" \in tables[m_db]

\* INSERT OR REPLACE, and DELETE, which takes NoRow for a value.
set(value, ok) ==
  /\ phase = "running"
  /\ IF Ready /\ ok
     THEN row' = [row EXCEPT ![m_db] = value] /\ stored' = [stored EXCEPT ![m_db] = value]
     ELSE UNCHANGED <<row, stored>>
  /\ UNCHANGED <<directories, tables, phase, m_db, known, unversioned>>

\* get() of one value, of a group, and of all.
get == IF Ready THEN row[m_db] ELSE NoRow

End ==
  /\ phase # "off" /\ phase' = "off" /\ m_db' = NoRow /\ known' = {}
  /\ UNCHANGED <<directories, fileVars>>

Next ==
  \/ \E isChosen, isPortable \in BOOLEAN, Broken \in SUBSET Places : initDbFile(isChosen, isPortable, Broken)
  \/ \E ok \in BOOLEAN :
       \/ FindTables(ok) \/ CreateVersion(ok) \/ CreateSettings(ok)
       \/ \E table \in known : DropTable(table, ok)
       \/ \E value \in Values \cup {NoRow} : set(value, ok)
  \/ End

-----------------------------------------------------------------------------
(* Properties                                                               *)

TypeOK ==
  /\ \A p \in Places : tables[p] \subseteq {Foreign, "version", "settings"} /\ row[p] \in Values \cup {NoRow}
  /\ phase \in {"off", "find", "drop", "settings", "running"} /\ m_db \in Places \cup {NoRow}

\* Whatever statement failed and wherever the program ended, a file whose version table
\* was made once keeps what was stored in it, and what is read is what was stored; a
\* directory that nobody may make is not made.
RowsAreKept ==
  /\ \A p \in Places : p \notin unversioned => row[p] = stored[p]
  /\ m_db \notin unversioned => get = (IF m_db = NoRow \/ ~Ready THEN NoRow ELSE stored[m_db])
  /\ Memory \notin directories

=============================================================================
