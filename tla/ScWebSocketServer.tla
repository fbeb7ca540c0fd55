-------------------------- MODULE ScWebSocketServer --------------------------
(***************************************************************************)
(* The callbacks of the WebSocket server, from                             *)
(*   src/src/ScNetwork/src/socket/scwebsocketserver_hp.cpp                 *)
(*                                                                         *)
(* HP-Socket, which is external, runs the callbacks: for one connection    *)
(* one after the other, for several in any order. Of a request the model   *)
(* keeps what OnUpgrade() asks about it. A connection is closed by the     *)
(* other side, by HP-Socket when a callback returned an error, and after   *)
(* Release(), which lets no further request in. What OnHeader() makes of   *)
(* the sizes of caches is dropped there; OnWSMessage*() and close() do     *)
(* nothing.                                                                *)
(***************************************************************************)
EXTENDS Naturals, FiniteSets

CONSTANTS Connections,           \* the ids, which HP-Socket uses again
          NoContext, NoAnswer

VARIABLES state,                 \* of the server: "Unconnected", "Listening"
          phase,                 \* of a connection
          request,               \* the last one
          extra,                 \* the ScConnectionContext that HP-Socket keeps for it
          contexts,              \* those that are not deleted
          answer,                \* what was sent to it last, and to which request
          released               \* Release() was called

vars == <<state, phase, request, extra, contexts, answer, released>>

\* A context is named after the connection it was made for.
NoRequest == [upgrade |-> FALSE]

Requests == [upgrade : BOOLEAN,          \* asks for a WebSocket
             get : BOOLEAN,              \* its method is GET
             host : BOOLEAN,             \* it has a Host, Sec-WebSocket-Key, not blank
             key : BOOLEAN,
             tokens : BOOLEAN,           \* Upgrade and Connection list what they must
             version : BOOLEAN]          \* Sec-WebSocket-Version is 13

Answers == [status : {101, 200, 400, 405, 426}, to : Requests \cup {NoRequest}]

ServerAssumption == NoContext \notin Connections /\ NoAnswer \notin Answers

Init ==
  /\ state = "Unconnected"
  /\ phase = [c \in Connections |-> "none"]
  /\ request = [c \in Connections |-> NoRequest]
  /\ extra = [c \in Connections |-> NoContext]
  /\ contexts = {}
  /\ answer = [c \in Connections |-> NoAnswer]
  /\ released = {}

connectionVars == <<phase, request, extra, contexts, answer, released>>

\* listen(); Start() may fail.
Listen ==
  /\ state # "Listening"
  /\ \E started \in BOOLEAN : state' = IF started THEN "Listening" ELSE state
  /\ UNCHANGED connectionVars

\* OnAccept(): a context, deleted again when HP-Socket does not take it.
OnAccept(c) ==
  /\ state = "Listening" /\ phase[c] = "none"
  /\ \/ /\ extra' = [extra EXCEPT ![c] = c]
        /\ contexts' = contexts \cup {c}
        /\ phase' = [phase EXCEPT ![c] = "idle"]
     \/ /\ phase' = [phase EXCEPT ![c] = "failed"]
        /\ UNCHANGED <<extra, contexts>>
  /\ answer' = [answer EXCEPT ![c] = NoAnswer]
  /\ UNCHANGED <<state, request, released>>

\* OnHeadersComplete().
OnHeadersComplete(c) ==
  /\ phase[c] = "idle" /\ c \notin released
  /\ \E r \in Requests :
       /\ request' = [request EXCEPT ![c] = r]
       /\ phase' = [phase EXCEPT ![c] = IF r.upgrade THEN "upgrade" ELSE "body"]
  /\ UNCHANGED <<state, extra, contexts, answer, released>>

Send(c, status) == answer' = [answer EXCEPT ![c] = [status |-> status, to |-> request[c]]]

\* isHeaderValueEmpty() is true for a header that has a value.
isHeaderValueEmpty(present) == present

\* What OnUpgrade() answers, as the first question that fails decides.
AnswerFault(r) ==                               \* the version is not asked for
  IF ~r.get THEN 405
  ELSE IF isHeaderValueEmpty(r.host) \/ ~r.tokens THEN 400
  ELSE IF isHeaderValueEmpty(r.key) THEN 400 ELSE 101
Answer(r) ==
  IF ~r.get THEN 405
  ELSE IF isHeaderValueEmpty(r.host) \/ ~r.tokens THEN 400
  ELSE IF ~r.version THEN 426
  ELSE IF isHeaderValueEmpty(r.key) THEN 400 ELSE 101

\* OnUpgrade(), with rejectHandShake(), which does not ask whether it could send.
OnUpgrade(c) ==
  /\ phase[c] = "upgrade"
  /\ LET status == Answer(request[c])
     IN  IF status = 101
         THEN /\ \/ Send(c, 101) /\ phase' = [phase EXCEPT ![c] = "websocket"]
                 \/ UNCHANGED answer /\ phase' = [phase EXCEPT ![c] = "failed"]
              /\ UNCHANGED released
         ELSE /\ Send(c, status) \/ UNCHANGED answer
              /\ phase' = [phase EXCEPT ![c] = "failed"]
              /\ released' = released \cup {c}
  /\ UNCHANGED <<state, request, extra, contexts>>

\* OnMessageComplete(), of a request that is no handshake.
OnMessageComplete(c) ==
  /\ phase[c] = "body"
  /\ \/ /\ Send(c, 200)
        /\ phase' = [phase EXCEPT ![c] = "idle"]
        /\ released' = released \cup {c}
     \/ /\ phase' = [phase EXCEPT ![c] = "failed"]
        /\ UNCHANGED <<answer, released>>
  /\ UNCHANGED <<state, request, extra, contexts>>

\* OnClose(): HP-Socket may use the id again.
DeleteExtraFault(c) == contexts' = contexts     \* not deleted
DeleteExtra(c) == contexts' = contexts \ {extra[c]}

OnClose(c) ==
  /\ phase[c] # "none"
  /\ DeleteExtra(c)
  /\ extra' = [extra EXCEPT ![c] = NoContext]
  /\ phase' = [phase EXCEPT ![c] = "none"]
  /\ request' = [request EXCEPT ![c] = NoRequest]
  /\ answer' = [answer EXCEPT ![c] = NoAnswer]
  /\ released' = released \ {c}
  /\ UNCHANGED state

Next ==
  \/ Listen
  \/ \E c \in Connections :
       \/ OnAccept(c) \/ OnHeadersComplete(c) \/ OnUpgrade(c)
       \/ OnMessageComplete(c) \/ OnClose(c)

Spec == Init /\ [][Next]_vars

-----------------------------------------------------------------------------
(* Properties                                                              *)

TypeOK ==
  /\ state \in {"Unconnected", "Listening"}
  /\ \A c \in Connections : phase[c] \in {"none", "idle", "body", "upgrade", "websocket", "failed"}
  /\ extra \in [Connections -> Connections \cup {NoContext}]
  /\ contexts \in SUBSET Connections /\ released \in SUBSET Connections

\* A context lives as long as its connection does, and no longer; a connection is a
\* WebSocket only when it was answered 101, to a GET for version 13 that lists the tokens;
\* and a connection that was answered anything else is let go of
\* (scwebsocketserver_hp.cpp:89-110, 146-245).
HandshakeIsSound ==
  /\ contexts = {extra[c] : c \in Connections} \ {NoContext}
  /\ \A c \in Connections :
       /\ extra[c] # NoContext => phase[c] # "none"
       /\ phase[c] = "websocket" =>
            /\ answer[c] # NoAnswer /\ answer[c].status = 101
            /\ answer[c].to.get /\ answer[c].to.tokens /\ answer[c].to.version
       /\ answer[c] # NoAnswer /\ phase[c] # "websocket" => c \in released

\* No handshake without a Host and a key makes a WebSocket, as the refusals "Missing Host
\* header" and "Missing Sec-WebSocket-Key header" say; only such ones do
\* (scwebsocketserver_hp.cpp:178-182, 208-212, 257-263).
HostAndKeyAreRequired ==
  \A c \in Connections :
    phase[c] = "websocket" => answer[c].to.host /\ answer[c].to.key
=============================================================================
