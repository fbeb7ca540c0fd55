--------------------------- MODULE QNotifyManager ---------------------------
(***************************************************************************)
(* One of the three lists of recent messages of QNotifyManager, from       *)
(*   src/src/QtUtils/src/utils/qnotifymanager.cpp                          *)
(*                                                                         *)
(* The list is appended to and measured without the mutex under which it   *)
(* is shortened. An append that races with a writer may undo what the      *)
(* other wrote: it is a read and a write of the list. (That it may also    *)
(* damage the list is left out.)                                           *)
(***************************************************************************)
EXTENDS Naturals, Sequences

CONSTANTS Threads,
          None,
          Maxima,        \* limits that clients set
          MaxMessages    \* bound of the messages

NotifyAssumption == Maxima \subseteq Nat /\ MaxMessages \in Nat /\ None \notin Threads

VARIABLES recent,        \* recentErrors
          maxRecentMessages,
          mutex,
          pc,
          local,         \* what a thread has read of the list
          sent,          \* history: messages so far, which are numbered
          limit          \* history: the largest limit so far

vars == <<recent, maxRecentMessages, mutex, pc, local, sent, limit>>

Places == {"idle", "appending", "measuring", "locking", "cutting", "assigning"}
Lists == UNION {[1..n -> 1..MaxMessages] : n \in 0..MaxMessages}

\* Every variable has its type (qnotifymanager.cpp:17-23).
TypeOK ==
  /\ recent \in Lists /\ maxRecentMessages \in Maxima /\ limit \in Maxima
  /\ mutex \in Threads \cup {None}
  /\ pc \in [Threads -> Places]
  /\ local \in [Threads -> [list : Lists, length : 0..MaxMessages]]
  /\ sent \in 0..MaxMessages

Nothing == [list |-> <<>>, length |-> 0]

Init ==
  /\ recent = <<>> /\ mutex = None /\ sent = 0
  /\ maxRecentMessages \in Maxima /\ limit = maxRecentMessages
  /\ pc = [t \in Threads |-> "idle"]
  /\ local = [t \in Threads |-> Nothing]

Goto(t, place) == pc' = [pc EXCEPT ![t] = place]

Keep(t, l) == local' = [local EXCEPT ![t] = l]

\* setMaxRecentMessages(); a smaller limit is for the messages to come.
SetMaxRecentMessages(max) ==
  /\ maxRecentMessages' = max
  /\ limit' = IF max > limit THEN max ELSE limit
  /\ UNCHANGED <<recent, mutex, pc, local, sent>>

\* error(msg), and addToRecentList() up to the list's data.
Error(t) ==
  /\ pc[t] = "idle" /\ sent < MaxMessages
  /\ sent' = sent + 1
  /\ Keep(t, [Nothing EXCEPT !.list = Append(recent, sent')])
  /\ Goto(t, "appending")
  /\ UNCHANGED <<recent, maxRecentMessages, mutex, limit>>

AppendMessage(t) ==
  /\ pc[t] = "appending"
  /\ recent' = local[t].list
  /\ Keep(t, Nothing)
  /\ Goto(t, "measuring")
  /\ UNCHANGED <<maxRecentMessages, mutex, sent, limit>>

IsShortFault(n) == n <= maxRecentMessages + 1

IsShort(n) == n <= maxRecentMessages

Measure(t) ==
  /\ pc[t] = "measuring"
  /\ Goto(t, IF IsShort(Len(recent)) THEN "idle" ELSE "locking")
  /\ UNCHANGED <<recent, maxRecentMessages, mutex, local, sent, limit>>

\* mid(length() - max), whose two reads of the list may differ.
Lock(t) ==
  /\ pc[t] = "locking" /\ mutex = None
  /\ mutex' = t
  /\ Keep(t, [Nothing EXCEPT !.length = Len(recent)])
  /\ Goto(t, "cutting")
  /\ UNCHANGED <<recent, maxRecentMessages, sent, limit>>

Cut(t) ==
  /\ pc[t] = "cutting"
  /\ LET pos == IF local[t].length > maxRecentMessages THEN local[t].length - maxRecentMessages ELSE 0
     IN  Keep(t, [local[t] EXCEPT !.list = SubSeq(recent, pos + 1, Len(recent))])
  /\ Goto(t, "assigning")
  /\ UNCHANGED <<recent, maxRecentMessages, mutex, sent, limit>>

Assign(t) ==
  /\ pc[t] = "assigning"
  /\ recent' = local[t].list
  /\ mutex' = None
  /\ Keep(t, Nothing)
  /\ Goto(t, "idle")
  /\ UNCHANGED <<maxRecentMessages, sent, limit>>

Next ==
  \/ \E max \in Maxima : SetMaxRecentMessages(max)
  \/ \E t \in Threads :
       Error(t) \/ AppendMessage(t) \/ Measure(t) \/ Lock(t) \/ Cut(t) \/ Assign(t)

Spec == Init /\ [][Next]_vars

-----------------------------------------------------------------------------
(* Properties                                                               *)

\* Messages may be lost to a race, but the list is in the order in which they
\* were sent, and when all calls have returned it is not longer than the largest limit
\* it was given (qnotifymanager.cpp:26-35). The limit holds for two threads: a third one
\* may lengthen a list that is being cut, and a second one replace that list by the short
\* one it read before, so that both see a short list before the long cut is assigned.
RecentIsBounded ==
  /\ \A i, j \in DOMAIN recent : i < j => recent[i] < recent[j]
  /\ (\A t \in Threads : pc[t] = "idle") => Len(recent) <= limit
=============================================================================
