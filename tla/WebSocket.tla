------------------------------- MODULE WebSocket -------------------------------
(***************************************************************************)
(* A WebSocket of JavaScript: its object (websocket.ts), the process of    *)
(* the connection (web_socket.ex), and between them their owner, the       *)
(* server of a runtime or a context (server.ex), with the Tasks that it    *)
(* starts for Beam.call and Beam.callSync, which nothing orders.           *)
(*                                                                         *)
(* Events go from the connection to JavaScript through two queues, here    *)
(* one.  The thread of a context may serve it inside the constructor's     *)
(* Beam.callSync (pumps), when the object is not registered yet.  The      *)
(* remote end and the network answer what they like, if at all.            *)
(***************************************************************************)
EXTENDS Naturals, Sequences

CONSTANTS MaxRequests,  \* bound: calls of send and close
          MaxInputs     \* bound: inputs from the network

VARIABLES ready,     \* the object: readyState, or not constructed, or lost by a reset
          missed,    \* an event came before the object was registered
          task,      \* the Task of the constructor
          tasks,     \* kind |-> the requests of the kind whose Tasks have not run
          requests,  \* number of calls of send and close
          owner,     \* the owner's process: up or dead
          mailbox,   \* what Tasks sent to the owner
          known,     \* the entry in the owner's map: none, there, gone
          process,   \* the process of the connection: none, up, ended normally, failed
          casts,     \* its mailbox: connect, then what the owner cast
          socket,    \* its state
          inputs,    \* number of inputs from the network
          events     \* events on their way to JavaScript

javascript == <<ready, missed, task, tasks, requests>>
server == <<owner, mailbox, known>>
connection == <<process, casts, socket, inputs>>
vars == <<javascript, server, connection, events>>

Kind == {"send", "close"}

Init ==
    /\ ready = "none" /\ missed = FALSE
    /\ task = "none" /\ tasks = [kind \in Kind |-> 0] /\ requests = 0
    /\ owner = "up" /\ mailbox = << >> /\ known = "none"
    /\ process = "none" /\ casts = << >> /\ inputs = 0
    /\ socket = [stage |-> "new", pendingClose |-> FALSE, closeSent |-> FALSE, closed |-> FALSE]
    /\ events = << >>
-----------------------------------------------------------------------------
(* The constructor: Beam.callSync('__ws_connect') up to its wait. *)
Construct ==
    /\ ready = "none" /\ owner = "up"
    /\ ready' = "constructing"
    /\ task' = "starting"
    /\ UNCHANGED <<missed, tasks, requests, server, connection, events>>

(* connect in its Task: start_link with init, the message to the owner, and  *)
(* the result, which ends the constructor.                                   *)
StartLink ==
    /\ task = "starting"
    /\ task' = "started"
    /\ process' = "up" /\ casts' = <<"connect">>
    /\ UNCHANGED <<ready, missed, tasks, requests, server, socket, inputs, events>>

Announce ==
    /\ task = "started"
    /\ task' = "announced"
    /\ mailbox' = IF owner = "up" THEN Append(mailbox, "started") ELSE mailbox
    /\ UNCHANGED <<ready, missed, tasks, requests, owner, known, connection, events>>

Resolve_Early ==
    /\ task \in {"started", "announced"} /\ ready = "constructing"
    /\ ready' = IF owner = "up" THEN "connecting" ELSE ready
    /\ task' = IF task = "announced" THEN "ended" ELSE task
    /\ UNCHANGED <<missed, tasks, requests, server, connection, events>>
Resolve ==
    /\ task = "announced"
    /\ task' = "ended"
    /\ ready' = IF owner = "up" /\ ready = "constructing" THEN "connecting" ELSE ready
    /\ UNCHANGED <<missed, tasks, requests, server, connection, events>>

(* The Task is linked to the connection and dies with it when that fails     *)
(* before the Task has ended: the constructor waits for ever.                *)
TaskKilled ==
    /\ task \in {"started", "announced"} /\ process = "failed"
    /\ task' = "killed"
    /\ UNCHANGED <<ready, missed, tasks, requests, server, connection, events>>

(* send and close: a Task each. *)
Ask(kind) ==
    /\ requests < MaxRequests /\ owner = "up"
    /\ requests' = requests + 1
    /\ tasks' = [tasks EXCEPT ![kind] = @ + 1]
Send ==
    /\ ready = "open" /\ Ask("send")
    /\ UNCHANGED <<ready, missed, task, server, connection, events>>
Close ==
    /\ ready \in {"connecting", "open"} /\ Ask("close")
    /\ ready' = "closing"
    /\ UNCHANGED <<missed, task, server, connection, events>>

Forward(kind) ==
    /\ tasks[kind] > 0
    /\ tasks' = [tasks EXCEPT ![kind] = @ - 1]
    /\ mailbox' = IF owner = "up" THEN Append(mailbox, kind) ELSE mailbox
    /\ UNCHANGED <<ready, missed, task, requests, owner, known, connection, events>>

(* The dispatcher of websocket.ts.  An object that is not in the registry,   *)
(* yet or any more, gets nothing.                                            *)
Dispatch ==
    /\ events # << >> /\ owner = "up"
    /\ events' = Tail(events)
    /\ missed' = (missed \/ ready = "constructing")
    /\ ready' = IF ready \in {"constructing", "closed", "lost"} THEN ready
                ELSE CASE Head(events) = "open" -> "open"
                       [] Head(events) = "close" -> "closed"
                       [] OTHER -> ready
    /\ UNCHANGED <<task, tasks, requests, server, connection>>

(* A reset of the runtime ends the object, and nobody tells the connection.  *)
Reset ==
    /\ ready \in {"connecting", "open", "closing", "closed"} /\ owner = "up"
    /\ ready' = "lost"
    /\ UNCHANGED <<missed, task, tasks, requests, server, connection, events>>
-----------------------------------------------------------------------------
(* The owner's handle_info: websocket_started, ws_send and ws_close. *)
OwnerHandles ==
    /\ owner = "up" /\ mailbox # << >>
    /\ mailbox' = Tail(mailbox)
    /\ LET msg == Head(mailbox)
       IN  /\ known' = IF msg = "started" THEN "there" ELSE known
           /\ casts' = IF msg # "started" /\ known = "there" /\ process = "up"
                       THEN Append(casts, msg) ELSE casts
    /\ UNCHANGED <<javascript, owner, process, socket, inputs, events>>

(* {:DOWN, ...} of the connection, pop_websocket. *)
SocketDown ==
    /\ owner = "up" /\ known = "there" /\ process \in {"ended", "failed"}
    /\ known' = "gone"
    /\ UNCHANGED <<javascript, owner, mailbox, connection, events>>

(* terminate with shutdown_websockets, or a kill. *)
OwnerEnds ==
    /\ owner = "up"
    /\ owner' = "dead" /\ mailbox' = << >> /\ events' = << >>
    /\ \/ process' = IF known = "there" /\ process = "up" THEN "failed" ELSE process
       \/ UNCHANGED process
    /\ UNCHANGED <<javascript, known, casts, socket, inputs>>
-----------------------------------------------------------------------------
(* The effect of a step of the connection on its state: what it sends to its *)
(* owner, and whether the process stops.                                     *)
Effect(s, out, stops) == [state |-> s, out |-> out, stops |-> stops]

EmitClose(e) ==
    IF e.state.closed THEN [e EXCEPT !.stops = TRUE]
    ELSE Effect([e.state EXCEPT !.closed = TRUE], Append(e.out, "close"), TRUE)
EmitErrorAndClose(e) == EmitClose([e EXCEPT !.out = Append(@, "error")])
Emit(e, event) == [e EXCEPT !.out = Append(@, event)]

(* handle_upgrade_success *)
UpgradeSuccess(e) ==
    LET up == [e EXCEPT !.state.stage = "established", !.state.pendingClose = FALSE]
    IN  IF e.state.pendingClose THEN EmitClose(up) ELSE Emit(up, "open")

(* handle_response and handle_frame.  A failure is data that cannot be        *)
(* decoded or a pong that cannot be written; none is a response without       *)
(* effect, a ping that is answered too.  After a stop the rest of the list is *)
(* dropped.                                                                   *)
HandleResponse(e, response) ==
    IF e.stops THEN e
    ELSE CASE e.state.stage = "upgrading" /\ response = "upgraded" -> UpgradeSuccess(e)
           [] e.state.stage = "upgrading" /\ response = "refused" -> EmitErrorAndClose(e)
           [] e.state.stage = "established" /\ response = "message" -> Emit(e, "message")
           [] e.state.stage = "established" /\ response = "failure" -> EmitErrorAndClose(e)
           [] e.state.stage = "established" /\ response = "close" ->
                  EmitClose([e EXCEPT !.state.closeSent = TRUE])
           [] OTHER -> e

Responses == {"upgraded", "refused", "message", "failure", "close", "none"}

(* A stop is normal, but for a failure of the connection. *)
Becomes(e, failure) ==
    /\ socket' = e.state
    /\ process' = IF failure THEN "failed" ELSE IF e.stops THEN "ended" ELSE process
    /\ events' = IF owner = "up" THEN events \o e.out ELSE events

(* handle_info(:connect): the connection is made and the upgrade asked for.  *)
Connect ==
    /\ process = "up" /\ casts # << >> /\ Head(casts) = "connect"
    /\ casts' = Tail(casts)
    /\ \/ Becomes(Effect([socket EXCEPT !.stage = "upgrading"], << >>, FALSE), FALSE)
       \/ Becomes(EmitErrorAndClose(Effect(socket, << >>, FALSE)), TRUE)
    /\ UNCHANGED <<javascript, server, inputs>>

(* handle_cast: before the upgrade a frame is dropped and a close is kept;   *)
(* after it both are written, which fails when the connection is gone.       *)
BeforeUpgrade_Dropped(request) == socket
BeforeUpgrade(request) == [socket EXCEPT !.pendingClose = @ \/ request = "close"]

HandleCast ==
    /\ process = "up" /\ casts # << >> /\ Head(casts) # "connect"
    /\ casts' = Tail(casts)
    /\ \/ /\ socket.stage # "established"
          /\ Becomes(Effect(BeforeUpgrade(Head(casts)), << >>, FALSE), FALSE)
       \/ /\ socket.stage = "established"
          /\ Becomes(Effect([socket EXCEPT !.closeSent = @ \/ Head(casts) = "close"],
                            << >>, FALSE), FALSE)
       \/ /\ socket.stage = "established"
          /\ Becomes(EmitErrorAndClose(Effect(socket, << >>, FALSE)), TRUE)
    /\ UNCHANGED <<javascript, server, inputs>>

(* handle_info(message): the responses of the remote end, up to two at once, *)
(* and whether the connection fails after them.                              *)
HandleInput ==
    /\ process = "up" /\ socket.stage # "new" /\ inputs < MaxInputs
    /\ inputs' = inputs + 1
    /\ \E first, second \in Responses, fails \in BOOLEAN :
          LET e == HandleResponse(HandleResponse(Effect(socket, << >>, FALSE), first), second)
          IN  Becomes(IF fails THEN EmitErrorAndClose(e) ELSE e, fails)
    /\ UNCHANGED <<javascript, server, casts>>

(* {:DOWN, ...} of the owner, which is monitored from the start. *)
OwnerDown ==
    /\ process = "up" /\ owner = "dead"
    /\ process' = "ended"
    /\ UNCHANGED <<javascript, server, casts, socket, inputs, events>>
-----------------------------------------------------------------------------
Next ==
    \/ Construct \/ StartLink \/ Announce \/ Resolve \/ TaskKilled \/ Send \/ Close
    \/ \E kind \in Kind : Forward(kind)
    \/ Dispatch \/ Reset
    \/ OwnerHandles \/ SocketDown \/ OwnerEnds
    \/ Connect \/ HandleCast \/ HandleInput \/ OwnerDown

Spec == Init /\ [][Next]_vars

(* Tasks run, servers work their mailboxes off, the runtime's thread comes   *)
(* to its messages and a refused or broken connection is noticed: a connect  *)
(* ends.  Nothing is expected of the remote end.                             *)
Fairness ==
    /\ WF_vars(StartLink) /\ WF_vars(Announce) /\ WF_vars(Resolve)
    /\ \A kind \in Kind : WF_vars(Forward(kind))
    /\ WF_vars(Dispatch) /\ WF_vars(OwnerHandles)
    /\ WF_vars(Connect) /\ WF_vars(HandleCast) /\ WF_vars(OwnerDown)
FairSpec == Spec /\ Fairness
-----------------------------------------------------------------------------
TypeOK ==
    /\ missed \in BOOLEAN
    /\ ready \in {"none", "constructing", "connecting", "open", "closing", "closed", "lost"}
    /\ task \in {"none", "starting", "started", "announced", "ended", "killed"}
    /\ tasks \in [Kind -> 0..MaxRequests] /\ requests \in 0..MaxRequests
    /\ owner \in {"up", "dead"} /\ mailbox \in Seq(Kind \cup {"started"})
    /\ known \in {"none", "there", "gone"}
    /\ process \in {"none", "up", "ended", "failed"}
    /\ casts \in Seq({"connect", "send", "close"})
    /\ socket \in [stage : {"new", "upgrading", "established"},
                   pendingClose : BOOLEAN, closeSent : BOOLEAN, closed : BOOLEAN]
    /\ inputs \in 0..MaxInputs
    /\ events \in Seq({"open", "message", "error", "close"})

(* No frame is dropped on its way although its connection is up: the owner   *)
(* knows the connection before any request for it arrives (else it drops     *)
(* it), and the connection is established before a frame does (handle_cast   *)
(* drops it otherwise), in whatever order the Tasks run.                     *)
AnnouncedBefore(i) == known # "none" \/ \E j \in 1..(i - 1) : mailbox[j] = "started"
FramesFindSocket ==
    /\ owner = "up" /\ (\E kind \in Kind : tasks[kind] > 0) => AnnouncedBefore(Len(mailbox) + 1)
    /\ \A i \in DOMAIN mailbox : mailbox[i] # "started" => AnnouncedBefore(i)
    /\ (\E i \in DOMAIN casts : casts[i] = "send") => socket.stage = "established"

(* An object gets one close event, whatever came before it: a list of        *)
(* responses with an error after a close frame, a close of its own.          *)
IsClose(i) == events[i] = "close"
ClosesOnce ==
    /\ \A i, j \in DOMAIN events : IsClose(i) /\ IsClose(j) => i = j
    /\ ready = "closed" => \A i \in DOMAIN events : ~IsClose(i)

(* close() gets to the connection, which answers or asks the remote end, in  *)
(* whatever state of the connection it was called; but not when the thread   *)
(* of a context has discarded an event in the constructor.                   *)
CloseArrives ==
    ready = "closing" ~> \/ ready \in {"closed", "lost"} \/ owner = "dead" \/ missed
                         \/ socket.pendingClose \/ socket.closeSent
=============================================================================
