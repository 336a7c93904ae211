----------------------------- MODULE WebSockets -----------------------------
(***************************************************************************)
(* The WebSockets of a page, from the objects script holds to the worker   *)
(* threads that do the network's part: malibu-view/src/view.cpp (the page  *)
(* side), malibu-shell/src/main.cpp (the host's loop) and                  *)
(* host/curl_resource_loader.cpp (one worker thread per connection, its    *)
(* queue of commands, one queue of events for all).  The browser thread    *)
(* runs the host, the view and script.  The peer is what curl reports of   *)
(* it: any frame, an error, or nothing yet.                                *)
(***************************************************************************)
EXTENDS Integers, Sequences, FiniteSets, SequencesExt

CONSTANTS
  MaxSockets,       (* bound: WebSocket objects constructed                *)
  MaxSends,         (* bound: calls of send                                *)
  MaxMessages       (* bound: messages a peer sends on a connection        *)

ASSUME WebSocketsAssumption ==
  MaxSockets \in Nat /\ MaxSends \in Nat /\ MaxMessages \in Nat

VARIABLES
  (* the page *)
  readyState,   (* of each object: 0 connecting, 1 open, 2 closing, 3 closed *)
  registered,   (* sockets_: the ids the view delivers events to           *)
  capacity,     (* of the vector sockets_                                  *)
  log,          (* history: the events that each object's handlers saw     *)
  sends,        (* sends so far                                            *)
  (* the loader *)
  connections,  (* sockets: the ids with a connection                      *)
  commands,     (* of each connection, its queue of commands               *)
  stopping,     (* the connections told to stop                            *)
  events,       (* socket_events                                           *)
  (* the workers *)
  worker,       (* [at, messages]                                          *)
  delivered,    (* history: what the peer got on each connection           *)
  (* the browser thread *)
  call          (* what it does                                            *)

page == <<readyState, registered, capacity, log, sends>>
loader == <<connections, commands, stopping, events>>
workers == <<worker, delivered>>
vars == <<page, loader, workers, call>>

Ids == DOMAIN readyState

Connecting == 0
Open == 1
Closing == 2
Closed == 3

\* What the browser thread does: the host's own loop, from which script runs too;
\* the join of a worker that said goodbye; a handler of an event, where grown
\* says that sockets_ has been reallocated since socket_close looked the socket
\* up; the loader's destructor.
Call(at, id, event, grown) == [at |-> at, id |-> id, event |-> event, grown |-> grown]
Host == Call("host", 0, "none", FALSE)
Destructor == Call("destructor", 0, "none", FALSE)

InHandler(event) == call.at = "handler" /\ call.event = event
InScript == call = Host \/ call.at = "handler"
InSocketClose == InHandler("error") \/ InHandler("close")

-----------------------------------------------------------------------------
(* The loader's commands.  Of the codes of a close only one is told apart:  *)
(* 1006, that of a connection that failed.                                 *)

SendCommand(n) == [close |-> FALSE, n |-> n]
CloseAsText == SendCommand(0)                                   \* mutant
CloseCommand == [close |-> TRUE, n |-> 0]

\* websocket_command: a command for a connection that is gone is dropped, and
\* nobody reads what is queued for a worker that has ended.
WithCommand(queues, ids, command) ==
  [id \in DOMAIN queues |->
     IF id \in ids \cap connections /\ worker[id].at # "ended"
     THEN Append(queues[id], command) ELSE queues[id]]

-----------------------------------------------------------------------------
(* Script.                                                                 *)

Idle == [at |-> "connecting", messages |-> 0]

HasRoom == Len(registered) < capacity

NewCapacity == IF HasRoom THEN capacity ELSE IF capacity = 0 THEN 1 ELSE 2 * capacity

\* new WebSocket(url): the object, its registration, and a connection whose
\* worker starts.
Construct ==
  LET id == Len(readyState) + 1
  IN  /\ InScript
      /\ id <= MaxSockets
      /\ readyState' = Append(readyState, Connecting)
      /\ registered' = Append(registered, id)
      /\ capacity' = NewCapacity
      /\ log' = Append(log, <<>>)
      /\ connections' = connections \cup {id}
      /\ commands' = Append(commands, <<>>)
      /\ worker' = Append(worker, Idle)
      /\ delivered' = Append(delivered, <<>>)
      /\ call' = [call EXCEPT !.grown = @ \/ (InSocketClose /\ ~HasRoom)]
      /\ UNCHANGED <<sends, stopping, events>>

\* socket.send(data) throws unless the object is open.
Send(id) ==
  /\ InScript
  /\ sends < MaxSends
  /\ readyState[id] = Open
  /\ sends' = sends + 1
  /\ commands' = WithCommand(commands, {id}, SendCommand(sends + 1))
  /\ UNCHANGED <<readyState, registered, capacity, log, connections, stopping, events,
                 workers, call>>

MayClose(id) == readyState[id] < Closing

\* socket.close().
Close(id) ==
  /\ InScript
  /\ MayClose(id)
  /\ readyState' = [readyState EXCEPT ![id] = Closing]
  /\ commands' = WithCommand(commands, {id}, CloseCommand)
  /\ UNCHANGED <<registered, capacity, log, sends, connections, stopping, events, workers, call>>

-----------------------------------------------------------------------------
(* The view, and the host's loop that forwards the events.                 *)

Event(type, id, n, failed) == [type |-> type, id |-> id, n |-> n, failed |-> failed]

Logged(id, event) == [log EXCEPT ![id] = Append(@, event)]

\* All that the history keeps of an object that may see no event any more.
Over == <<<<"over", 0>>>>

\* The readyState at which the view lets an event of this type through.
Expected(type) == IF type = "open" THEN Connecting ELSE Open
Admitted(type) == {Expected(type)}

FoundAlways(id) == TRUE                                         \* mutant
Found(id) == id \in ToSet(registered)

\* socket_open and socket_message.
Deliver(event) ==
  IF Found(event.id) /\ readyState[event.id] \in Admitted(event.type)
  THEN /\ readyState' = [readyState EXCEPT ![event.id] = Open]
       /\ log' = Logged(event.id, <<event.type, event.n>>)
       /\ call' = Call("handler", event.id, event.type, FALSE)
  ELSE /\ call' = Host
       /\ UNCHANGED <<readyState, log>>

\* socket_close, up to its first handler.
DeliverClose(id, first) ==
  IF Found(id)
  THEN /\ readyState' = [readyState EXCEPT ![id] = Closed]
       /\ log' = Logged(id, <<first, 0>>)
       /\ call' = Call("handler", id, first, FALSE)
  ELSE /\ call' = Host
       /\ UNCHANGED <<readyState, log>>

\* The end of socket_close: sockets_.erase(found).  When a handler made the
\* vector grow, found points into the old one: the erasure moves nothing and
\* drops the last element (or the program dies).
PositionOf(id) == CHOOSE k \in DOMAIN registered : registered[k] = id

ForgottenLast(id) == Front(registered)                          \* mutant
Forgotten(id) ==
  IF call.grown THEN Front(registered) ELSE RemoveAt(registered, PositionOf(id))

ErasesNever(event) == FALSE                                     \* mutant
Erases(event) == event.type = "close"

\* poll_websocket_event: the connection of a Close event is forgotten and its
\* worker joined before the event is handed out.
PollEvent ==
  /\ call = Host
  /\ events # <<>>
  /\ events' = Tail(events)
  /\ LET event == Head(events)
     IN  IF event.type = "close"
         THEN /\ connections' = IF Erases(event) THEN connections \ {event.id} ELSE connections
              /\ call' = Call("join", event.id, IF event.failed THEN "error" ELSE "close", FALSE)
              /\ UNCHANGED <<readyState, log>>
         ELSE Deliver(event) /\ UNCHANGED connections
  /\ UNCHANGED <<registered, capacity, sends, commands, stopping, workers>>

\* The worker is joined, and the connection with what was left in it dropped.
Joined(id) ==
  /\ worker' = [worker EXCEPT ![id] = [Idle EXCEPT !.at = "joined"]]
  /\ commands' = [commands EXCEPT ![id] = <<>>]
  /\ delivered' = [delivered EXCEPT ![id] = <<>>]

Join ==
  /\ call.at = "join"
  /\ worker[call.id].at = "ended"
  /\ Joined(call.id)
  /\ DeliverClose(call.id, call.event)
  /\ UNCHANGED <<registered, capacity, sends, connections, stopping, events>>

HandlerReturns ==
  /\ call.at = "handler"
  /\ CASE InHandler("error") ->
            /\ log' = Logged(call.id, <<"close", 0>>)
            /\ call' = [call EXCEPT !.event = "close"]
            /\ UNCHANGED registered
       [] InHandler("close") ->
            /\ registered' = Forgotten(call.id)
            /\ log' = [log EXCEPT ![call.id] = Over]
            /\ call' = Host
       [] OTHER ->
            /\ call' = Host
            /\ UNCHANGED <<registered, log>>
  /\ UNCHANGED <<readyState, capacity, sends, loader, workers>>

\* reset_document on a navigation; the objects, which the global of the engine
\* may still hold, are left as they are.
Navigate ==
  /\ call = Host
  /\ registered # <<>>
  /\ commands' = WithCommand(commands, ToSet(registered), CloseCommand)
  /\ registered' = <<>>
  /\ log' = [id \in Ids |-> IF id \in ToSet(registered) THEN Over ELSE log[id]]
  /\ UNCHANGED <<readyState, capacity, sends, connections, stopping, events, workers, call>>

Told == connections

\* ~Impl: every connection is told to stop, then every worker is joined.
Shutdown ==
  /\ call = Host
  /\ stopping' = Told
  /\ connections' = {}
  /\ call' = Destructor
  /\ UNCHANGED <<page, commands, events, workers>>

JoinStopping ==
  /\ call = Destructor
  /\ \E id \in stopping :
       /\ worker[id].at = "ended"
       /\ Joined(id)
  /\ UNCHANGED <<page, connections, stopping, events, call>>

-----------------------------------------------------------------------------
(* The workers (run_websocket).  A pass through the loop that finds no     *)
(* command and gets CURLE_AGAIN changes nothing.                           *)

Pushed(event) == Append(events, event)

\* The connection ends: the Close event is the last thing the thread does.
Finish(id, failed) ==
  /\ events' = Pushed(Event("close", id, 0, failed))
  /\ worker' = [worker EXCEPT ![id].at = "ended"]

\* curl_easy_perform returns.
Connect(id) ==
  /\ worker[id].at = "connecting"
  /\ \/ /\ events' = Pushed(Event("open", id, 0, FALSE))
        /\ worker' = [worker EXCEPT ![id].at = "running"]
     \/ Finish(id, TRUE)
  /\ UNCHANGED <<page, connections, commands, stopping, delivered, call>>

Running(id) == worker[id].at = "running"

Taken(id) == <<>>

\* The choices of places in a queue of n, each after the one before it.
Places(n) ==
  UNION {{kept \in [1 .. m -> 1 .. n] : \A j, k \in 1 .. m : j < k => kept[j] < kept[k]} :
         m \in 0 .. n}

\* The worker takes the queue and carries it out, up to a close or to a command
\* that fails: the peer gets each text, or curl says CURLE_AGAIN and it is lost.
TakeCommands(id) ==
  LET queue == commands[id]
  IN  /\ Running(id)
      /\ queue # <<>>
      /\ commands' = [commands EXCEPT ![id] = Taken(id)]
      /\ \E end \in 1 .. Len(queue) + 1 :
           /\ \A k \in 1 .. end - 1 : ~queue[k].close
           /\ \E kept \in Places(end - 1) :
                delivered' = [delivered EXCEPT ![id] = @ \o [k \in DOMAIN kept |-> queue[kept[k]].n]]
           /\ IF end > Len(queue)
              THEN UNCHANGED <<worker, events>>
              ELSE Finish(id, ~queue[end].close)
      /\ UNCHANGED <<page, connections, stopping, call>>

Stop(id) ==
  /\ Running(id)
  /\ id \in stopping
  /\ commands[id] = <<>>
  /\ Finish(id, FALSE)
  /\ UNCHANGED <<page, connections, commands, stopping, delivered, call>>

\* A call of curl_ws_recv that reports something: a failure, the peer's close, a
\* message.
Receive(id) ==
  /\ Running(id)
  /\ \/ \E failed \in BOOLEAN : Finish(id, failed)
     \/ LET n == worker[id].messages + 1
        IN  /\ n <= MaxMessages
            /\ worker' = [worker EXCEPT ![id].messages = n]
            /\ events' = Pushed(Event("message", id, n, FALSE))
  /\ UNCHANGED <<page, connections, commands, stopping, delivered, call>>

-----------------------------------------------------------------------------
Init ==
  /\ readyState = <<>> /\ registered = <<>> /\ capacity = 0 /\ log = <<>> /\ sends = 0
  /\ connections = {} /\ commands = <<>> /\ stopping = {} /\ events = <<>>
  /\ worker = <<>> /\ delivered = <<>>
  /\ call = Host

ScriptStep == Construct \/ \E id \in Ids : Send(id) \/ Close(id)

Work(id) == Connect(id) \/ TakeCommands(id) \/ Stop(id) \/ Receive(id)

Next ==
  \/ ScriptStep
  \/ PollEvent \/ Join \/ HandlerReturns \/ Navigate
  \/ Shutdown \/ JoinStopping
  \/ \E id \in Ids : Work(id)

Spec == Init /\ [][Next]_vars

-----------------------------------------------------------------------------
(* Properties.                                                             *)

Command == [close : BOOLEAN, n : 0 .. MaxSends]
Seen == {"open", "message", "error", "close", "over"} \X (0 .. MaxMessages)
SocketEvent ==
  [type : {"open", "message", "close"}, id : Ids, n : 0 .. MaxMessages, failed : BOOLEAN]
Thread == [at : {"connecting", "running", "ended", "joined"}, messages : 0 .. MaxMessages]
Doing ==
  [at : {"host", "join", "handler", "destructor"}, id : {0} \cup Ids,
   event : {"none", "open", "message", "error", "close"}, grown : BOOLEAN]

TypeOK ==
  /\ readyState \in Seq(Connecting .. Closed) /\ Len(readyState) <= MaxSockets
  /\ registered \in Seq(Ids) /\ IsInjective(registered) /\ Len(registered) <= capacity
  /\ log \in Seq(Seq(Seen))
  /\ sends \in 0 .. MaxSends
  /\ connections \subseteq Ids /\ stopping \subseteq Ids
  /\ commands \in Seq(Seq(Command))
  /\ events \in Seq(SocketEvent)
  /\ worker \in Seq(Thread)
  /\ delivered \in Seq(Seq(0 .. MaxSends))
  /\ call \in Doing

\* What the two ends of a socket see, whatever the order of threads, commands and
\* navigations. The handlers of the object see open first and once, then the peer's
\* messages in order and without a gap, then an error at most and one close, and
\* nothing after it (socket_open, socket_message and socket_close of view.cpp); the
\* peer gets what script sent in the order of the calls and at most once, also across
\* batches (commands.swap, curl_resource_loader.cpp:203).
BothEndsSeeTheProtocol ==
  \A id \in Ids :
    LET seen == log[id]
        is(k, type) == seen[k][1] = type
    IN  /\ \A k \in DOMAIN seen :
             /\ is(k, "open") => k = 1
             /\ is(k, "message") => is(1, "open") /\ seen[k][2] = k - 1
             /\ is(k, "error") => k >= Len(seen) - 1
             /\ (is(k, "close") \/ is(k, "over")) => k = Len(seen)
        /\ \A j, k \in DOMAIN delivered[id] : j < k => delivered[id][j] < delivered[id][k]

\* Every thread that was started and not joined yet is one that poll or the
\* destructor will join: no std::thread is dropped while it can be joined, which
\* would end the process, and none is kept after it (curl_resource_loader.cpp:345). The
\* connections and threads keep to their ids and states.
EveryWorkerWillBeJoined ==
  /\ TypeOK
  /\ {id \in Ids : worker[id].at # "joined"} =
       connections \cup (stopping \ {id \in Ids : worker[id].at = "joined"})
         \cup (IF call.at = "join" THEN {call.id} ELSE {})

\* The view forgets a socket when it is closed, and all of them on a navigation:
\* "The host then drives the socket via socket_open / socket_message /
\* socket_close" (view.h:137), so a socket may not drop out of sockets_ because another
\* one closed. It does where a handler of error or close constructs one for which
\* sockets_ has no room (view.cpp:5283): then the newest socket is forgotten in
\* place of the closed one, and never any other.
OnlyClosedSocketsAreForgotten ==
  [][registered' = <<>> \/
     \A id \in ToSet(registered) \ ToSet(registered') :
       readyState[id] = Closed \/ (call.grown /\ id = Len(readyState))]_vars

\* close() is answered: as long as the object waits for its close event there is
\* something left that leads to it, the attempt to connect or the worker's next
\* pass with the command in the queue, or the worker's last event.
CloseIsUnderWay ==
  \A id \in ToSet(registered) :
    readyState[id] = Closing =>
      \/ /\ worker[id].at \in {"connecting", "running"}
         /\ \E k \in DOMAIN commands[id] : commands[id][k].close
      \/ \E k \in DOMAIN events : events[k].id = id /\ events[k].type = "close"
      \/ (call.at = "join" /\ call.id = id)
      \/ call = Destructor
=============================================================================
