-------------------------- MODULE WebSocketsProofs --------------------------
(***************************************************************************)
(* What holds of the sockets of a page and their threads for any number of *)
(* sockets, texts and messages.                                            *)
(***************************************************************************)
EXTENDS WebSockets, SequenceLemmas

\* One entry per object in everything that is kept by object; a handler or a join
\* is about an object, and the handlers of socket_close about a closed one that is
\* still registered.
Shape ==
  /\ DOMAIN log = Ids /\ DOMAIN commands = Ids /\ DOMAIN worker = Ids /\ DOMAIN delivered = Ids
  /\ capacity \in Nat
  /\ call.at \in {"join", "handler"} => call.id \in Ids
  /\ call.at = "join" => call.event \in {"error", "close"}
  /\ InSocketClose => call.id \in ToSet(registered) /\ readyState[call.id] = Closed

TypeInv == TypeOK /\ Shape

(* A sequence rebuilt entry by entry.                                      *)
LEMMA SeqMapped ==
  ASSUME NEW S, NEW T, NEW s \in Seq(S), NEW t, DOMAIN t = DOMAIN s,
         t = [i \in DOMAIN s |-> t[i]], \A i \in DOMAIN s : t[i] \in T
  PROVE  t \in Seq(T)
<1>1. DOMAIN s = 1 .. Len(s) /\ Len(s) \in Nat
  BY LenProperties
<1>2. t \in [1 .. Len(s) -> T]
  BY <1>1
<1>3. QED
  BY <1>1, <1>2, SeqDef

-----------------------------------------------------------------------------
(* Types.                                                                  *)

(* An event pushed by a worker.                                            *)
LEMMA PushKeeps ==
  ASSUME events \in Seq(SocketEvent), NEW e \in SocketEvent, events' = Pushed(e)
  PROVE  /\ events' \in Seq(SocketEvent)
         /\ Len(events') = Len(events) + 1
         /\ DOMAIN events' = DOMAIN events \cup {Len(events) + 1}
         /\ \A k \in DOMAIN events : events'[k] = events[k]
         /\ events'[Len(events) + 1] = e
BY SeqAdd DEF Pushed

(* One field of a worker changed.                                          *)
LEMMA ThreadKeeps ==
  ASSUME TypeInv, NEW id \in Ids, NEW t \in Thread, worker' = [worker EXCEPT ![id] = t]
  PROVE  /\ worker' \in Seq(Thread) /\ DOMAIN worker' = Ids
         /\ \A i \in Ids : worker'[i] = IF i = id THEN t ELSE worker[i]
BY SeqPut DEF TypeInv, TypeOK, Shape

(* The last thing a worker does.                                           *)
LEMMA FinishDoes ==
  ASSUME TypeInv, NEW id \in Ids, NEW failed \in BOOLEAN, Finish(id, failed)
  PROVE  /\ worker' \in Seq(Thread) /\ DOMAIN worker' = Ids
         /\ worker'[id].at = "ended" /\ \A i \in Ids \ {id} : worker'[i] = worker[i]
         /\ events' \in Seq(SocketEvent)
         /\ DOMAIN events' = DOMAIN events \cup {Len(events) + 1}
         /\ \A k \in DOMAIN events : events'[k] = events[k]
         /\ events'[Len(events) + 1] = Event("close", id, 0, failed)
<1> DEFINE t == [worker[id] EXCEPT !.at = "ended"]
<1>1. worker[id] \in Thread /\ id \in DOMAIN worker
  BY DEF TypeInv, TypeOK, Shape
<1>2. t \in Thread /\ t.at = "ended"
  BY <1>1 DEF Thread
<1>3. worker' = [worker EXCEPT ![id] = t]
  BY DEF Finish
<1>4. Event("close", id, 0, failed) \in SocketEvent
  BY WebSocketsAssumption DEF Event, SocketEvent
<1> HIDE DEF t
<1>5. events \in Seq(SocketEvent) /\ events' = Pushed(Event("close", id, 0, failed))
  BY DEF Finish, TypeInv, TypeOK
<1>6. QED
  BY <1>2, <1>3, <1>4, <1>5, ThreadKeeps, PushKeeps

(* A command queued for some connections.                                  *)
LEMMA CommandDoes ==
  ASSUME TypeInv, NEW ids, NEW command \in Command
  PROVE  LET queues == WithCommand(commands, ids, command)
         IN  /\ queues \in Seq(Seq(Command)) /\ DOMAIN queues = Ids
             /\ \A id \in Ids :
                  queues[id] = IF id \in ids \cap connections /\ worker[id].at # "ended"
                               THEN Append(commands[id], command) ELSE commands[id]
<1> DEFINE queues == WithCommand(commands, ids, command)
<1>1. DOMAIN commands = Ids /\ commands \in Seq(Seq(Command))
  BY DEF TypeInv, TypeOK, Shape
<1>2. \A id \in Ids :
        queues[id] = IF id \in ids \cap connections /\ worker[id].at # "ended"
                     THEN Append(commands[id], command) ELSE commands[id]
  BY <1>1 DEF WithCommand
<1>3. \A id \in Ids : commands[id] \in Seq(Command) /\ Append(commands[id], command) \in Seq(Command)
  BY <1>1, SeqAdd
<1>4. \A id \in Ids : queues[id] \in Seq(Command)
  BY <1>2, <1>3
<1>5. DOMAIN queues = Ids /\ queues = [id \in DOMAIN commands |-> queues[id]]
  BY <1>1 DEF WithCommand
<1> HIDE DEF queues
<1>6. queues \in Seq(Seq(Command))
  <2>1. DOMAIN queues = DOMAIN commands /\ \A i \in DOMAIN commands : queues[i] \in Seq(Command)
    BY <1>1, <1>4, <1>5
  <2>2. QED
    BY <1>1, <1>5, <2>1, SeqMapped, Zenon
<1>7. QED
  BY <1>2, <1>5, <1>6 DEF queues

(* The connection of a worker that was joined.                             *)
LEMMA JoinedDoes ==
  ASSUME TypeInv, NEW id \in Ids, Joined(id)
  PROVE  /\ worker' \in Seq(Thread) /\ DOMAIN worker' = Ids
         /\ worker'[id].at = "joined" /\ \A i \in Ids \ {id} : worker'[i] = worker[i]
         /\ commands' \in Seq(Seq(Command)) /\ DOMAIN commands' = Ids
         /\ \A i \in Ids : commands'[i] = IF i = id THEN <<>> ELSE commands[i]
         /\ delivered' \in Seq(Seq(0 .. MaxSends)) /\ DOMAIN delivered' = Ids
         /\ \A i \in Ids : delivered'[i] = IF i = id THEN <<>> ELSE delivered[i]
<1> DEFINE t == [Idle EXCEPT !.at = "joined"]
<1>1. t \in Thread /\ t.at = "joined"
  BY WebSocketsAssumption DEF Thread, Idle
<1>2. worker' = [worker EXCEPT ![id] = t]
  BY DEF Joined
<1> HIDE DEF t
<1>3. commands' = [commands EXCEPT ![id] = <<>>] /\ delivered' = [delivered EXCEPT ![id] = <<>>]
  BY DEF Joined
<1>4. <<>> \in Seq(Command) /\ <<>> \in Seq(0 .. MaxSends)
  OBVIOUS
<1>5. /\ commands \in Seq(Seq(Command)) /\ id \in DOMAIN commands /\ DOMAIN commands = Ids
      /\ delivered \in Seq(Seq(0 .. MaxSends)) /\ id \in DOMAIN delivered /\ DOMAIN delivered = Ids
  BY DEF TypeInv, TypeOK, Shape
<1>6. /\ commands' \in Seq(Seq(Command)) /\ DOMAIN commands' = Ids
      /\ \A i \in Ids : commands'[i] = IF i = id THEN <<>> ELSE commands[i]
  BY <1>3, <1>4, <1>5, SeqPut
<1>7. /\ delivered' \in Seq(Seq(0 .. MaxSends)) /\ DOMAIN delivered' = Ids
      /\ \A i \in Ids : delivered'[i] = IF i = id THEN <<>> ELSE delivered[i]
  BY <1>3, <1>4, <1>5, SeqPut
<1>8. QED
  BY <1>1, <1>2, <1>6, <1>7, ThreadKeeps

(* A handler's event added to the log of its object.                       *)
LEMMA LoggedKeeps ==
  ASSUME TypeInv, NEW id \in Ids, NEW e \in Seen
  PROVE  LET l == Logged(id, e)
         IN  /\ l \in Seq(Seq(Seen)) /\ DOMAIN l = Ids
             /\ l[id] = Append(log[id], e) /\ \A i \in Ids \ {id} : l[i] = log[i]
<1>1. log \in Seq(Seq(Seen)) /\ DOMAIN log = Ids /\ log[id] \in Seq(Seen)
  BY DEF TypeInv, TypeOK, Shape
<1>2. Append(log[id], e) \in Seq(Seen)
  BY <1>1
<1>3. Logged(id, e) = [log EXCEPT ![id] = Append(log[id], e)]
  BY DEF Logged
<1>4. QED
  BY <1>1, <1>2, <1>3, SeqPut

(* What socket_close leaves of sockets_.                                   *)
LEMMA ForgottenKeeps ==
  ASSUME TypeInv, NEW id \in ToSet(registered)
  PROVE  /\ Forgotten(id) \in Seq(Ids) /\ IsInjective(Forgotten(id))
         /\ Len(Forgotten(id)) <= Len(registered)
         /\ ToSet(Forgotten(id)) \subseteq ToSet(registered)
         /\ ~call.grown => ToSet(registered) \ ToSet(Forgotten(id)) = {id}
         /\ call.grown => ToSet(registered) \ ToSet(Forgotten(id)) \subseteq {registered[Len(registered)]}
<1>1. /\ registered \in Seq(Ids) /\ Len(registered) \in Nat /\ DOMAIN registered = 1 .. Len(registered)
      /\ \A j, k \in DOMAIN registered : registered[j] = registered[k] => j = k
      /\ \A k \in DOMAIN registered : registered[k] \in Ids
  BY LenProperties DEF TypeInv, TypeOK, IsInjective
<1>2. CASE call.grown
  <2>1. Forgotten(id) = SubSeq(registered, 1, Len(registered) - 1)
    BY <1>2 DEF Forgotten, Front
  <2>2. Len(registered) >= 1
    BY <1>1 DEF ToSet
  <2>3. /\ SubSeq(registered, 1, Len(registered) - 1) \in Seq(Ids)
        /\ Len(SubSeq(registered, 1, Len(registered) - 1)) = Len(registered) - 1
        /\ \A k \in 1 .. Len(registered) - 1 :
             SubSeq(registered, 1, Len(registered) - 1)[k] = registered[k]
    BY <1>1, <2>2
  <2>4. DOMAIN Forgotten(id) = 1 .. Len(registered) - 1
    BY <2>1, <2>3, LenProperties
  <2>5. ASSUME NEW i \in ToSet(registered) \ ToSet(Forgotten(id))
        PROVE  i = registered[Len(registered)]
    <3>1. PICK k \in 1 .. Len(registered) : registered[k] = i
      BY <1>1 DEF ToSet
    <3>2. k \notin DOMAIN Forgotten(id)
      BY <2>1, <2>3, <2>4, <3>1 DEF ToSet
    <3>3. k = Len(registered)
      <4>1. PICK n \in Nat : n = Len(registered)
        BY <1>1
      <4>2. k \in 1 .. n /\ k \notin 1 .. n - 1
        BY <2>4, <3>1, <3>2, <4>1
      <4>3. k = n
        BY ONLY <4>2
      <4>4. QED
        BY <4>1, <4>3
    <3>4. QED
      BY <3>1, <3>3
  <2>6. /\ Forgotten(id) \in Seq(Ids) /\ IsInjective(Forgotten(id))
        /\ Len(Forgotten(id)) <= Len(registered)
        /\ ToSet(Forgotten(id)) \subseteq ToSet(registered)
    BY <1>1, <2>1, <2>2, <2>3, <2>4 DEF ToSet, IsInjective
  <2>7. QED
    BY <1>2, <2>5, <2>6
<1>3. CASE ~call.grown
  <2> DEFINE p == PositionOf(id)
             n == Len(registered)
             f == Forgotten(id)
  <2>1. p \in 1 .. n /\ registered[p] = id
    <3>1. \E k \in DOMAIN registered : registered[k] = id
      BY DEF ToSet
    <3>2. QED
      BY <1>1, <3>1 DEF PositionOf
  <2>2. f = RemoveAt(registered, p)
    BY <1>3 DEF Forgotten
  <2> HIDE DEF p, f
  <2>3. /\ f \in Seq(Ids) /\ Len(f) = n - 1
        /\ \A k \in 1 .. n - 1 : f[k] = IF k < p THEN registered[k] ELSE registered[k + 1]
    <3>1. /\ RemoveAt(registered, p) \in Seq(Ids)
          /\ Len(RemoveAt(registered, p)) = Len(registered) - 1
          /\ \A k \in 1 .. Len(registered) - 1 :
               RemoveAt(registered, p)[k] = IF k < p THEN registered[k] ELSE registered[k + 1]
      <4>1. registered \in Seq(Ids) /\ p \in 1 .. Len(registered)
        BY <1>1, <2>1
      <4>2. QED
        BY <4>1, SeqRemove, Zenon
    <3>2. QED
      BY <2>2, <3>1
  <2>4. DOMAIN f = 1 .. n - 1
    BY <2>3, LenProperties
  <2>5. IsInjective(f) /\ ToSet(f) \subseteq ToSet(registered)
    <3>1. ToSet(f) \subseteq ToSet(registered)
      BY <1>1, <2>1, <2>3, <2>4 DEF ToSet
    <3>2. ASSUME NEW j \in 1 .. n - 1, NEW k \in 1 .. n - 1, f[j] = f[k]
          PROVE  j = k
      <4> DEFINE at(i) == IF i < p THEN i ELSE i + 1
      <4>1. at(j) \in 1 .. n /\ at(k) \in 1 .. n /\ f[j] = registered[at(j)] /\ f[k] = registered[at(k)]
        <5>1. \A i \in 1 .. n - 1 : at(i) \in 1 .. n
          BY <1>1, <2>1
        <5>2. QED
          BY <2>3, <5>1
      <4>2. at(j) = at(k)
        BY <1>1, <3>2, <4>1
      <4>3. QED
        BY <1>1, <2>1, <4>2
    <3>3. QED
      BY <2>4, <3>1, <3>2 DEF IsInjective
  <2>6. id \notin ToSet(f)
    BY <1>1, <2>1, <2>3, <2>4, SMTT(30) DEF ToSet
  <2>7. ASSUME NEW i \in ToSet(registered), i # id
        PROVE  i \in ToSet(f)
    <3>1. PICK k \in 1 .. n : registered[k] = i
      BY <1>1, <2>7 DEF ToSet
    <3>2. CASE k < p
      BY <1>1, <2>1, <2>3, <2>4, <3>1, <3>2, SMTT(30) DEF ToSet
    <3>3. CASE k > p
      <4>1. k - 1 \in DOMAIN f /\ f[k - 1] = i
        BY <1>1, <2>1, <2>3, <2>4, <3>1, <3>3
      <4>2. QED
        BY <4>1 DEF ToSet
    <3>4. k # p
      BY <2>1, <2>7, <3>1
    <3>5. QED
      BY <1>1, <2>1, <3>1, <3>2, <3>3, <3>4
  <2>8. ToSet(registered) \ ToSet(f) = {id}
    BY <2>6, <2>7
  <2>9. Len(f) <= Len(registered)
    BY <1>1, <2>3
  <2>10. QED
    BY <1>3, <2>3, <2>5, <2>8, <2>9 DEF f
<1>4. QED
  BY <1>2, <1>3

(* new WebSocket(url) keeps the types.                                     *)
LEMMA ConstructKeeps == TypeInv /\ Construct => TypeInv'
<1> SUFFICES ASSUME TypeInv, Construct
             PROVE  TypeInv'
  OBVIOUS
<1> DEFINE id == Len(readyState) + 1
<1> USE WebSocketsAssumption
<1>1. /\ readyState \in Seq(Connecting .. Closed) /\ Ids = 1 .. Len(readyState) /\ Len(readyState) \in Nat
      /\ readyState' = Append(readyState, Connecting) /\ id <= MaxSockets
  BY LenProperties DEF TypeInv, TypeOK, Construct, Ids
<1>2. /\ readyState' \in Seq(Connecting .. Closed) /\ Len(readyState') = id /\ Ids' = Ids \cup {id}
      /\ \A i \in Ids : readyState'[i] = readyState[i]
  BY <1>1, SeqAdd DEF Connecting, Closed, Ids
<1>3. id \notin Ids
  BY <1>1
<1>4. registered' \in Seq(Ids') /\ IsInjective(registered') /\ Len(registered') <= capacity'
      /\ capacity' \in Nat /\ ToSet(registered') = ToSet(registered) \cup {id}
  <2>1. registered' = Append(registered, id) /\ capacity' = NewCapacity
    BY DEF Construct
  <2>2. registered \in Seq(Ids) /\ capacity \in Nat /\ Len(registered) <= capacity
    BY DEF TypeInv, TypeOK, Shape
  <2>3. registered \in Seq(Ids')
    BY <1>2, <2>2, SeqMonotonic
  <2>4. /\ registered' \in Seq(Ids') /\ Len(registered') = Len(registered) + 1
        /\ DOMAIN registered' = DOMAIN registered \cup {Len(registered) + 1}
        /\ \A j \in DOMAIN registered : registered'[j] = registered[j]
        /\ registered'[Len(registered) + 1] = id
    BY <1>2, <2>1, <2>3, SeqAdd
  <2>5. \A j \in DOMAIN registered : registered[j] \in Ids
    BY <2>2, LenProperties
  <2>6. IsInjective(registered')
    <3>1. /\ Len(registered) + 1 \notin DOMAIN registered
          /\ \A j, k \in DOMAIN registered : registered[j] = registered[k] => j = k
      BY <2>2, LenProperties DEF TypeInv, TypeOK, IsInjective
    <3>2. QED
      BY <1>3, <2>4, <2>5, <3>1 DEF IsInjective
  <2>7. Len(registered') <= capacity' /\ capacity' \in Nat
    BY <2>1, <2>2, <2>4, LenProperties DEF NewCapacity, HasRoom
  <2>8. ToSet(registered') = ToSet(registered) \cup {id}
    BY <2>4 DEF ToSet
  <2>9. QED
    BY <2>4, <2>6, <2>7, <2>8
<1>5. /\ log' \in Seq(Seq(Seen)) /\ DOMAIN log' = Ids'
      /\ commands' \in Seq(Seq(Command)) /\ DOMAIN commands' = Ids'
      /\ worker' \in Seq(Thread) /\ DOMAIN worker' = Ids'
      /\ delivered' \in Seq(Seq(0 .. MaxSends)) /\ DOMAIN delivered' = Ids'
  <2>1. /\ log \in Seq(Seq(Seen)) /\ DOMAIN log = 1 .. Len(readyState)
        /\ commands \in Seq(Seq(Command)) /\ DOMAIN commands = 1 .. Len(readyState)
        /\ worker \in Seq(Thread) /\ DOMAIN worker = 1 .. Len(readyState)
        /\ delivered \in Seq(Seq(0 .. MaxSends)) /\ DOMAIN delivered = 1 .. Len(readyState)
    BY <1>1 DEF TypeInv, TypeOK, Shape
  <2>2. /\ log' = Append(log, <<>>) /\ commands' = Append(commands, <<>>)
        /\ worker' = Append(worker, Idle) /\ delivered' = Append(delivered, <<>>)
    BY DEF Construct
  <2>3. Len(log) = Len(readyState) /\ Len(commands) = Len(readyState)
        /\ Len(worker) = Len(readyState) /\ Len(delivered) = Len(readyState)
    BY <1>1, <2>1, LenProperties
  <2>4. Idle \in Thread /\ <<>> \in Seq(Seen) /\ <<>> \in Seq(Command) /\ <<>> \in Seq(0 .. MaxSends)
    BY DEF Idle, Thread
  <2>5. log' \in Seq(Seq(Seen)) /\ DOMAIN log' = Ids'
    BY <1>1, <1>2, <2>1, <2>2, <2>3, <2>4, SeqAdd
  <2>6. commands' \in Seq(Seq(Command)) /\ DOMAIN commands' = Ids'
    BY <1>1, <1>2, <2>1, <2>2, <2>3, <2>4, SeqAdd
  <2>7. worker' \in Seq(Thread) /\ DOMAIN worker' = Ids'
    BY <1>1, <1>2, <2>1, <2>2, <2>3, <2>4, SeqAdd
  <2>8. delivered' \in Seq(Seq(0 .. MaxSends)) /\ DOMAIN delivered' = Ids'
    BY <1>1, <1>2, <2>1, <2>2, <2>3, <2>4, SeqAdd
  <2>9. QED
    BY <2>5, <2>6, <2>7, <2>8
<1>6. events' \in Seq(SocketEvent')
  <2>1. events' = events /\ events \in Seq(SocketEvent)
    BY DEF Construct, TypeInv, TypeOK
  <2>2. SocketEvent \subseteq SocketEvent'
    BY <1>2 DEF SocketEvent
  <2>3. QED
    BY <2>1, <2>2, SeqMonotonic
<1>7. /\ call' \in Doing' /\ call'.at = call.at /\ call'.id = call.id /\ call'.event = call.event
  <2>1. call \in Doing
    BY DEF TypeInv, TypeOK
  <2>2. call' = [call EXCEPT !.grown = @ \/ (InSocketClose /\ ~HasRoom)]
    BY DEF Construct
  <2>3. QED
    BY <1>2, <2>1, <2>2 DEF Doing
<1>8. /\ connections' = connections \cup {id} /\ stopping' = stopping /\ sends' = sends
  BY DEF Construct
<1>9. TypeOK'
  BY <1>1, <1>2, <1>4, <1>5, <1>6, <1>7, <1>8 DEF TypeInv, TypeOK
<1>10. Shape'
  BY <1>2, <1>4, <1>5, <1>7 DEF TypeInv, Shape, InSocketClose, InHandler
<1>11. QED
  BY <1>9, <1>10 DEF TypeInv

(* The state of one object changed.                                        *)
LEMMA StateKeeps ==
  ASSUME TypeInv, NEW id \in Ids, NEW v \in Connecting .. Closed,
         readyState' = [readyState EXCEPT ![id] = v]
  PROVE  /\ readyState' \in Seq(Connecting .. Closed) /\ Len(readyState') <= MaxSockets
         /\ Ids' = Ids /\ \A i \in Ids : readyState'[i] = IF i = id THEN v ELSE readyState[i]
BY SeqPut, ExceptSeq, LenProperties DEF TypeInv, TypeOK, Ids

(* Where no object is constructed, the types that name objects stay.       *)
LEMMA SameIds ==
  ASSUME Ids' = Ids
  PROVE  SocketEvent' = SocketEvent /\ Doing' = Doing
BY DEF SocketEvent, Doing

(* send(data) and close() keep the types.                                  *)
LEMMA ScriptKeeps ==
  ASSUME TypeInv, NEW id \in Ids, Send(id) \/ Close(id)
  PROVE  TypeInv'
<1> USE WebSocketsAssumption
<1>1. CASE Send(id)
  <2>1. SendCommand(sends + 1) \in Command /\ sends' = sends + 1 /\ sends' \in 0 .. MaxSends
    BY <1>1 DEF Send, SendCommand, Command, TypeInv, TypeOK
  <2>2. commands' \in Seq(Seq(Command)) /\ DOMAIN commands' = Ids
    BY <1>1, <2>1, CommandDoes DEF Send
  <2>3. UNCHANGED <<readyState, registered, capacity, log, connections, stopping, events, worker,
                    delivered, call>>
    BY <1>1 DEF Send, workers
  <2>4. Ids' = Ids
    BY <2>3 DEF Ids
  <2>5. QED
    BY <2>1, <2>2, <2>3, <2>4, SameIds DEF TypeInv, TypeOK, Shape, InSocketClose, InHandler
<1>2. CASE Close(id)
  <2>1. CloseCommand \in Command /\ Closing \in Connecting .. Closed
    BY DEF CloseCommand, Command, Connecting, Closing, Closed
  <2>2. commands' \in Seq(Seq(Command)) /\ DOMAIN commands' = Ids
    BY <1>2, <2>1, CommandDoes DEF Close
  <2>3. UNCHANGED <<sends, registered, capacity, log, connections, stopping, events, worker,
                    delivered, call>>
    BY <1>2 DEF Close, workers
  <2>4. /\ readyState' \in Seq(Connecting .. Closed) /\ Len(readyState') <= MaxSockets
        /\ Ids' = Ids /\ \A i \in Ids : readyState'[i] = IF i = id THEN Closing ELSE readyState[i]
    BY <1>2, <2>1, StateKeeps DEF Close
  <2>5. InSocketClose => call.id # id
    BY <1>2 DEF Close, MayClose, Closing, Closed, TypeInv, Shape
  <2>6. TypeOK'
    BY <2>2, <2>3, <2>4, SameIds DEF TypeInv, TypeOK
  <2>7. Shape'
    BY <2>2, <2>3, <2>4, <2>5 DEF TypeInv, Shape, InSocketClose, InHandler
  <2>8. QED
    BY <2>6, <2>7 DEF TypeInv
<1>3. QED
  BY <1>1, <1>2

(* socket_open and socket_message keep the types.                          *)
LEMMA DeliverKeeps ==
  ASSUME TypeInv, NEW event \in SocketEvent, event.type # "close", Deliver(event)
  PROVE  /\ readyState' \in Seq(Connecting .. Closed) /\ Len(readyState') <= MaxSockets /\ Ids' = Ids
         /\ log' \in Seq(Seq(Seen)) /\ DOMAIN log' = Ids
         /\ call' \in Doing /\ call'.at # "join" /\ (call'.at = "handler" => call'.id \in Ids)
         /\ call'.event \notin {"error", "close"} /\ call'.grown = FALSE
<1>1. event.id \in Ids /\ event.n \in 0 .. MaxMessages /\ event.type \in {"open", "message"}
  BY DEF SocketEvent
<1>2. CASE Found(event.id) /\ readyState[event.id] \in Admitted(event.type)
  <2>1. Open \in Connecting .. Closed
    BY DEF Open, Connecting, Closed
  <2>2. <<event.type, event.n>> \in Seen
    BY <1>1 DEF Seen
  <2>3. /\ readyState' = [readyState EXCEPT ![event.id] = Open]
        /\ log' = Logged(event.id, <<event.type, event.n>>)
        /\ call' = Call("handler", event.id, event.type, FALSE)
    BY <1>2 DEF Deliver
  <2>4. log' \in Seq(Seq(Seen)) /\ DOMAIN log' = Ids
    BY <1>1, <2>2, <2>3, LoggedKeeps
  <2>5. /\ readyState' \in Seq(Connecting .. Closed) /\ Len(readyState') <= MaxSockets
        /\ Ids' = Ids
    BY <1>1, <2>1, <2>3, StateKeeps
  <2>6. QED
    BY <1>1, <2>3, <2>4, <2>5 DEF Call, Doing
<1>3. CASE ~(Found(event.id) /\ readyState[event.id] \in Admitted(event.type))
  <2>1. call' = Host /\ UNCHANGED <<readyState, log>>
    BY <1>3 DEF Deliver
  <2>2. Ids' = Ids
    BY <2>1 DEF Ids
  <2>3. QED
    BY <2>1, <2>2 DEF TypeInv, TypeOK, Shape, Call, Host, Doing
<1>4. QED
  BY <1>2, <1>3

(* poll_websocket_event keeps the types.                                   *)
LEMMA PollKeeps == TypeInv /\ PollEvent => TypeInv'
<1> SUFFICES ASSUME TypeInv, PollEvent
             PROVE  TypeInv'
  OBVIOUS
<1> DEFINE event == Head(events)
<1>1. event \in SocketEvent /\ events' = Tail(events) /\ events' \in Seq(SocketEvent)
  BY SeqTake DEF PollEvent, TypeInv, TypeOK
<1>2. UNCHANGED <<registered, capacity, sends, commands, stopping, worker, delivered>>
  BY DEF PollEvent, workers
<1>3. connections' \subseteq connections
  BY DEF PollEvent
<1>4. CASE event.type = "close"
  <2>1. /\ call' = Call("join", event.id, IF event.failed THEN "error" ELSE "close", FALSE)
        /\ UNCHANGED <<readyState, log>>
    BY <1>4 DEF PollEvent
  <2>2. Ids' = Ids
    BY <2>1 DEF Ids
  <2>3. /\ call' \in Doing /\ call'.at = "join" /\ call'.id \in Ids
        /\ call'.event \in {"error", "close"}
    BY <1>1, <2>1 DEF SocketEvent, Call, Doing
  <2>4. QED
    BY <1>1, <1>2, <1>3, <2>1, <2>2, <2>3, SameIds
    DEF TypeInv, TypeOK, Shape, InSocketClose, InHandler
<1>5. CASE event.type # "close"
  <2>1. Deliver(event)
    BY <1>5 DEF PollEvent
  <2>2. /\ readyState' \in Seq(Connecting .. Closed) /\ Len(readyState') <= MaxSockets /\ Ids' = Ids
        /\ log' \in Seq(Seq(Seen)) /\ DOMAIN log' = Ids
        /\ call' \in Doing /\ call'.at # "join" /\ (call'.at = "handler" => call'.id \in Ids)
        /\ call'.event \notin {"error", "close"}
    BY <1>1, <1>5, <2>1, DeliverKeeps
  <2>3. TypeOK'
    BY <1>1, <1>2, <1>3, <2>2, SameIds DEF TypeInv, TypeOK
  <2>4. Shape'
    BY <1>2, <2>2 DEF TypeInv, Shape, InSocketClose, InHandler
  <2>5. QED
    BY <2>3, <2>4 DEF TypeInv
<1>6. QED
  BY <1>4, <1>5

(* Joining the worker of a connection that said goodbye, up to the first   *)
(* handler of socket_close, keeps the types.                               *)
LEMMA JoinKeeps == TypeInv /\ Join => TypeInv'
<1> SUFFICES ASSUME TypeInv, Join
             PROVE  TypeInv'
  OBVIOUS
<1> DEFINE id == call.id
<1> USE WebSocketsAssumption
<1>1. id \in Ids /\ Joined(id) /\ DeliverClose(id, call.event)
  BY DEF Join, TypeInv, Shape
<1>2. UNCHANGED <<registered, capacity, sends, connections, stopping, events>>
  BY DEF Join
<1>3. /\ worker' \in Seq(Thread) /\ DOMAIN worker' = Ids
      /\ commands' \in Seq(Seq(Command)) /\ DOMAIN commands' = Ids
      /\ delivered' \in Seq(Seq(0 .. MaxSends)) /\ DOMAIN delivered' = Ids
  BY <1>1, JoinedDoes
<1>4. CASE Found(id)
  <2>1. /\ readyState' = [readyState EXCEPT ![id] = Closed]
        /\ log' = Logged(id, <<call.event, 0>>)
        /\ call' = Call("handler", id, call.event, FALSE)
    BY <1>1, <1>4 DEF DeliverClose
  <2>2. call.event \in {"error", "close"}
    BY DEF Join, TypeInv, Shape
  <2>3. <<call.event, 0>> \in Seen /\ Closed \in Connecting .. Closed
    BY <2>2 DEF Seen, Connecting, Closed
  <2>4. log' \in Seq(Seq(Seen)) /\ DOMAIN log' = Ids
    BY <1>1, <2>1, <2>3, LoggedKeeps
  <2>5. /\ readyState' \in Seq(Connecting .. Closed) /\ Len(readyState') <= MaxSockets
        /\ Ids' = Ids /\ \A i \in Ids : readyState'[i] = IF i = id THEN Closed ELSE readyState[i]
    BY <1>1, <2>1, <2>3, StateKeeps
  <2>6. call' \in Doing /\ call'.id = id /\ call'.at = "handler"
    BY <1>1, <2>1, <2>2 DEF Call, Doing
  <2>7. TypeOK'
    BY <1>2, <1>3, <2>4, <2>5, <2>6, SameIds DEF TypeInv, TypeOK
  <2>8. Shape'
    BY <1>1, <1>2, <1>3, <1>4, <2>4, <2>5, <2>6 DEF TypeInv, Shape, Found
  <2>9. QED
    BY <2>7, <2>8 DEF TypeInv
<1>5. CASE ~Found(id)
  <2>1. call' = Host /\ UNCHANGED <<readyState, log>>
    BY <1>1, <1>5 DEF DeliverClose
  <2>2. Ids' = Ids
    BY <2>1 DEF Ids
  <2>3. call' \in Doing /\ call'.at = "host"
    BY <2>1, <2>2 DEF Host, Call, Doing
  <2>4. QED
    BY <1>2, <1>3, <2>1, <2>2, <2>3, SameIds DEF TypeInv, TypeOK, Shape, InSocketClose, InHandler
<1>6. QED
  BY <1>4, <1>5

(* The return of a handler keeps the types.                                *)
LEMMA ReturnKeeps == TypeInv /\ HandlerReturns => TypeInv'
<1> SUFFICES ASSUME TypeInv, HandlerReturns
             PROVE  TypeInv'
  OBVIOUS
<1> USE WebSocketsAssumption
<1>1. /\ call.at = "handler" /\ call.id \in Ids /\ call \in Doing
      /\ UNCHANGED <<readyState, capacity, sends, connections, commands, stopping, events, worker, delivered>>
  BY DEF HandlerReturns, TypeInv, TypeOK, Shape, loader, workers
<1>2. Ids' = Ids
  BY <1>1 DEF Ids
<1>3. Host \in Doing' /\ Host.at = "host"
  BY DEF Host, Call, Doing
<1>4. CASE InHandler("error")
  <2>1. /\ log' = Logged(call.id, <<"close", 0>>)
        /\ call' = [call EXCEPT !.event = "close"]
        /\ registered' = registered
    BY <1>4 DEF HandlerReturns, InHandler
  <2>2. <<"close", 0>> \in Seen
    BY DEF Seen
  <2>3. log' \in Seq(Seq(Seen)) /\ DOMAIN log' = Ids
    BY <1>1, <2>1, <2>2, LoggedKeeps
  <2>4. call' \in Doing' /\ call'.at = "handler" /\ call'.id = call.id
    BY <1>1, <1>2, <2>1 DEF Doing
  <2>5. TypeOK'
    BY <1>1, <1>2, <2>1, <2>3, <2>4, SameIds DEF TypeInv, TypeOK
  <2>6. Shape'
    BY <1>1, <1>2, <1>4, <2>1, <2>3, <2>4 DEF TypeInv, Shape, InSocketClose
  <2>7. QED
    BY <2>5, <2>6 DEF TypeInv
<1>5. CASE InHandler("close")
  <2>1. /\ registered' = Forgotten(call.id)
        /\ log' = [log EXCEPT ![call.id] = Over]
        /\ call' = Host
    BY <1>5 DEF HandlerReturns, InHandler
  <2>2. call.id \in ToSet(registered)
    BY <1>5 DEF TypeInv, Shape, InSocketClose
  <2>3. /\ registered' \in Seq(Ids) /\ IsInjective(registered') /\ Len(registered') <= Len(registered)
    BY <2>1, <2>2, ForgottenKeeps
  <2>4. Over \in Seq(Seen)
    BY DEF Over, Seen
  <2>5. log' \in Seq(Seq(Seen)) /\ DOMAIN log' = Ids
    BY <1>1, <2>1, <2>4, SeqPut DEF TypeInv, TypeOK, Shape
  <2>6. Len(registered') <= capacity'
    BY <1>1, <2>3, LenProperties DEF TypeInv, TypeOK, Shape
  <2>7. QED
    BY <1>1, <1>2, <1>3, <2>1, <2>3, <2>5, <2>6, SameIds
    DEF TypeInv, TypeOK, Shape, InSocketClose, InHandler
<1>6. CASE ~InHandler("error") /\ ~InHandler("close")
  <2>1. call' = Host /\ UNCHANGED <<registered, log>>
    BY <1>6 DEF HandlerReturns
  <2>2. QED
    BY <1>1, <1>2, <1>3, <2>1, SameIds DEF TypeInv, TypeOK, Shape, InSocketClose, InHandler
<1>7. QED
  BY <1>4, <1>5, <1>6

(* A navigation keeps the types.                                           *)
LEMMA NavigateKeeps == TypeInv /\ Navigate => TypeInv'
<1> SUFFICES ASSUME TypeInv, Navigate
             PROVE  TypeInv'
  OBVIOUS
<1> USE WebSocketsAssumption
<1>1. /\ UNCHANGED <<readyState, capacity, sends, connections, stopping, events, worker, delivered, call>>
      /\ call = Host /\ registered' = <<>>
      /\ log' = [id \in Ids |-> IF id \in ToSet(registered) THEN Over ELSE log[id]]
      /\ commands' = WithCommand(commands, ToSet(registered), CloseCommand)
  BY DEF Navigate, workers
<1>2. Ids' = Ids
  BY <1>1 DEF Ids
<1>3. CloseCommand \in Command
  BY DEF CloseCommand, Command
<1>4. commands' \in Seq(Seq(Command)) /\ DOMAIN commands' = Ids
  BY <1>1, <1>3, CommandDoes
<1>5. log' \in Seq(Seq(Seen)) /\ DOMAIN log' = Ids
  <2>1. log \in Seq(Seq(Seen)) /\ DOMAIN log = Ids
    BY DEF TypeInv, TypeOK, Shape
  <2>2. Over \in Seq(Seen)
    BY DEF Over, Seen
  <2>3. \A id \in Ids : log'[id] \in Seq(Seen)
    BY <1>1, <2>1, <2>2, LenProperties
  <2>4. DOMAIN log' = DOMAIN log /\ log' = [id \in DOMAIN log |-> log'[id]]
    BY <1>1, <2>1
  <2>5. \A id \in DOMAIN log : log'[id] \in Seq(Seen)
    BY <2>1, <2>3
  <2>6. log' \in Seq(Seq(Seen))
    BY <2>1, <2>4, <2>5, SeqMapped, Zenon
  <2>7. QED
    BY <2>1, <2>4, <2>6
<1>6. registered' \in Seq(Ids) /\ IsInjective(registered') /\ Len(registered') <= capacity
  BY <1>1, LenProperties DEF TypeInv, TypeOK, Shape, IsInjective
<1>7. QED
  BY <1>1, <1>2, <1>4, <1>5, <1>6, SameIds
  DEF TypeInv, TypeOK, Shape, InSocketClose, InHandler, Host, Call

(* The destructor keeps the types.                                         *)
LEMMA ShutdownKeeps == TypeInv /\ (Shutdown \/ JoinStopping) => TypeInv'
<1> SUFFICES ASSUME TypeInv, Shutdown \/ JoinStopping
             PROVE  TypeInv'
  OBVIOUS
<1> USE WebSocketsAssumption
<1>1. UNCHANGED <<readyState, registered, capacity, log, sends, events>>
  BY DEF Shutdown, JoinStopping, page
<1>2. Ids' = Ids
  BY <1>1 DEF Ids
<1>3. call' \in Doing' /\ call'.at = "destructor"
  <2>1. call' = Destructor
    BY DEF Shutdown, JoinStopping
  <2>2. QED
    BY <2>1 DEF Destructor, Call, Doing
<1>4. CASE Shutdown
  <2>1. stopping' = connections /\ connections' = {} /\ UNCHANGED <<commands, worker, delivered>>
    BY <1>4 DEF Shutdown, Told, workers
  <2>2. QED
    BY <1>1, <1>2, <1>3, <2>1, SameIds DEF TypeInv, TypeOK, Shape, InSocketClose, InHandler
<1>5. CASE JoinStopping
  <2>1. PICK id \in stopping : Joined(id)
    BY <1>5 DEF JoinStopping
  <2>2. id \in Ids /\ UNCHANGED <<connections, stopping>>
    BY <1>5 DEF JoinStopping, TypeInv, TypeOK
  <2>3. /\ worker' \in Seq(Thread) /\ DOMAIN worker' = Ids
        /\ commands' \in Seq(Seq(Command)) /\ DOMAIN commands' = Ids
        /\ delivered' \in Seq(Seq(0 .. MaxSends)) /\ DOMAIN delivered' = Ids
    BY <2>1, <2>2, JoinedDoes
  <2>4. QED
    BY <1>1, <1>2, <1>3, <2>2, <2>3, SameIds DEF TypeInv, TypeOK, Shape, InSocketClose, InHandler
<1>6. QED
  BY <1>4, <1>5

\* What the peer gets of a queue when the texts at these places are not lost.
Texts(queue, kept) == [k \in DOMAIN kept |-> queue[kept[k]].n]

(* Places(n) are increasing sequences of places.                           *)
LEMMA PlacesAre ==
  ASSUME NEW n \in Nat, NEW kept \in Places(n)
  PROVE  \E m \in 0 .. n : /\ kept \in [1 .. m -> 1 .. n]
                          /\ \A j, k \in 1 .. m : j < k => kept[j] < kept[k]
BY DEF Places

(* What a worker that takes its queue does to its connection.              *)
LEMMA TakeDoes ==
  ASSUME TypeInv, NEW id \in Ids, TakeCommands(id)
  PROVE  \E end \in 1 .. Len(commands[id]) + 1 : \E kept \in Places(end - 1) :
           /\ \A k \in 1 .. end - 1 : ~commands[id][k].close
           /\ Texts(commands[id], kept) \in Seq(0 .. MaxSends)
           /\ DOMAIN Texts(commands[id], kept) = DOMAIN kept
           /\ delivered' \in Seq(Seq(0 .. MaxSends)) /\ DOMAIN delivered' = Ids
           /\ delivered'[id] = delivered[id] \o Texts(commands[id], kept)
           /\ \A i \in Ids \ {id} : delivered'[i] = delivered[i]
           /\ commands' \in Seq(Seq(Command)) /\ DOMAIN commands' = Ids
           /\ \A i \in Ids : commands'[i] = IF i = id THEN <<>> ELSE commands[i]
           /\ IF end > Len(commands[id])
              THEN UNCHANGED <<worker, events>>
              ELSE Finish(id, ~commands[id][end].close)
<1> DEFINE queue == commands[id]
<1> USE WebSocketsAssumption
<1>1. /\ commands \in Seq(Seq(Command)) /\ DOMAIN commands = Ids /\ queue \in Seq(Command)
      /\ delivered \in Seq(Seq(0 .. MaxSends)) /\ DOMAIN delivered = Ids
      /\ delivered[id] \in Seq(0 .. MaxSends)
  BY LenProperties DEF TypeInv, TypeOK, Shape
<1>2. Len(queue) \in Nat /\ \A k \in 1 .. Len(queue) : queue[k].n \in 0 .. MaxSends
  <2>1. Len(queue) \in Nat
    BY <1>1, LenProperties
  <2>2. \A k \in 1 .. Len(queue) : queue[k] \in Command
    BY <1>1, ElementOfSeq, Zenon
  <2>3. QED
    BY <2>1, <2>2 DEF Command
<1>3. PICK end \in 1 .. Len(queue) + 1 :
        /\ \A k \in 1 .. end - 1 : ~queue[k].close
        /\ \E kept \in Places(end - 1) :
             delivered' = [delivered EXCEPT ![id] = @ \o [k \in DOMAIN kept |-> queue[kept[k]].n]]
        /\ IF end > Len(queue) THEN UNCHANGED <<worker, events>> ELSE Finish(id, ~queue[end].close)
  BY DEF TakeCommands
<1>4. PICK kept \in Places(end - 1) :
        delivered' = [delivered EXCEPT ![id] = @ \o [k \in DOMAIN kept |-> queue[kept[k]].n]]
  BY <1>3
<1>5. end - 1 \in Nat /\ end - 1 <= Len(queue)
  BY <1>2
<1>6. PICK m \in 0 .. end - 1 : kept \in [1 .. m -> 1 .. end - 1]
  BY <1>5, PlacesAre
<1>7. Texts(queue, kept) \in Seq(0 .. MaxSends) /\ DOMAIN Texts(queue, kept) = DOMAIN kept
  <2>1. m \in Nat /\ DOMAIN kept = 1 .. m
    BY <1>5, <1>6
  <2>2. \A k \in 1 .. m : queue[kept[k]].n \in 0 .. MaxSends
    BY <1>2, <1>5, <1>6
  <2>3. Texts(queue, kept) \in [1 .. m -> 0 .. MaxSends]
    BY <2>1, <2>2 DEF Texts
  <2>4. QED
    BY <2>1, <2>3, SeqDef
<1>8. delivered' = [delivered EXCEPT ![id] = delivered[id] \o Texts(queue, kept)]
  BY <1>4 DEF Texts
<1>9. delivered[id] \o Texts(queue, kept) \in Seq(0 .. MaxSends)
  BY <1>1, <1>7, ConcatProperties
<1>10. /\ delivered' \in Seq(Seq(0 .. MaxSends)) /\ DOMAIN delivered' = Ids
       /\ delivered'[id] = delivered[id] \o Texts(queue, kept)
       /\ \A i \in Ids \ {id} : delivered'[i] = delivered[i]
  BY <1>1, <1>8, <1>9, SeqPut, SMTT(30)
<1>11. commands' = [commands EXCEPT ![id] = <<>>]
  BY DEF TakeCommands, Taken
<1>12. /\ commands' \in Seq(Seq(Command)) /\ DOMAIN commands' = Ids
       /\ \A i \in Ids : commands'[i] = IF i = id THEN <<>> ELSE commands[i]
  BY <1>1, <1>11, SeqPut
<1>13. QED
  BY <1>3, <1>7, <1>10, <1>12

\* What a worker does that goes on: it reports that it is connected, or a message.
Opens(id) ==
  /\ worker[id].at = "connecting"
  /\ events' = Pushed(Event("open", id, 0, FALSE))
  /\ worker' = [worker EXCEPT ![id].at = "running"]

Says(id, n) ==
  /\ worker[id].at = "running" /\ n = worker[id].messages + 1 /\ n <= MaxMessages
  /\ events' = Pushed(Event("message", id, n, FALSE))
  /\ worker' = [worker EXCEPT ![id].messages = n]

(* curl_easy_perform and curl_ws_recv: a worker ends, or it goes on and    *)
(* pushes an event.                                                        *)
LEMMA ReportDoes ==
  ASSUME NEW id \in Ids, Connect(id) \/ Receive(id) \/ Stop(id)
  PROVE  /\ UNCHANGED <<page, connections, commands, stopping, delivered, call>>
         /\ worker[id].at \in {"connecting", "running"}
         /\ \/ Opens(id)
            \/ Says(id, worker[id].messages + 1)
            \/ \E failed \in BOOLEAN : Finish(id, failed)
<1>1. CASE Connect(id)
  BY <1>1 DEF Connect, Opens
<1>2. CASE Receive(id)
  BY <1>2 DEF Receive, Running, Says
<1>3. CASE Stop(id)
  BY <1>3 DEF Stop, Running
<1>4. QED
  BY <1>1, <1>2, <1>3

(* A worker that goes on.                                                  *)
LEMMA GoesOnDoes ==
  ASSUME TypeInv, NEW id \in Ids, NEW n \in Nat, Opens(id) \/ Says(id, n)
  PROVE  /\ worker' \in Seq(Thread) /\ DOMAIN worker' = Ids /\ worker'[id].at = "running"
         /\ \A i \in Ids \ {id} : worker'[i] = worker[i]
         /\ events' \in Seq(SocketEvent)
         /\ DOMAIN events' = DOMAIN events \cup {Len(events) + 1}
         /\ \A k \in DOMAIN events : events'[k] = events[k]
         /\ events'[Len(events) + 1] = IF Opens(id) THEN Event("open", id, 0, FALSE)
                                       ELSE Event("message", id, n, FALSE)
         /\ worker'[id].messages = IF Opens(id) THEN worker[id].messages ELSE n
<1> USE WebSocketsAssumption
<1>1. worker[id] \in Thread /\ events \in Seq(SocketEvent)
  BY DEF TypeInv, TypeOK, Shape
<1>2. CASE Opens(id)
  <2> DEFINE t == [worker[id] EXCEPT !.at = "running"]
             e == Event("open", id, 0, FALSE)
  <2>1. t \in Thread /\ t.at = "running" /\ t.messages = worker[id].messages
    BY <1>1 DEF Thread
  <2>2. worker' = [worker EXCEPT ![id] = t] /\ events' = Pushed(e)
    BY <1>2 DEF Opens
  <2>3. e \in SocketEvent
    BY DEF Event, SocketEvent
  <2> HIDE DEF t, e
  <2>4. QED
    BY <1>1, <1>2, <2>1, <2>2, <2>3, ThreadKeeps, PushKeeps DEF e
<1>3. CASE ~Opens(id)
  <2> DEFINE t == [worker[id] EXCEPT !.messages = n]
             e == Event("message", id, n, FALSE)
  <2>1. n <= MaxMessages /\ worker[id].at = "running"
    BY <1>3 DEF Says
  <2>2. t \in Thread /\ t.at = "running" /\ t.messages = n
    BY <1>1, <2>1 DEF Thread
  <2>3. worker' = [worker EXCEPT ![id] = t] /\ events' = Pushed(e)
    BY <1>3 DEF Says
  <2>4. e \in SocketEvent
    BY <2>1 DEF Event, SocketEvent
  <2> HIDE DEF t, e
  <2>5. QED
    BY <1>1, <1>3, <2>2, <2>3, <2>4, ThreadKeeps, PushKeeps DEF e
<1>4. QED
  BY <1>2, <1>3

(* A worker's step keeps the types.                                        *)
LEMMA WorkKeeps ==
  ASSUME TypeInv, NEW id \in Ids, Work(id)
  PROVE  TypeInv'
<1> USE WebSocketsAssumption
<1>1. UNCHANGED <<readyState, registered, capacity, log, sends, connections, stopping, call>>
  <2>1. CASE TakeCommands(id)
    BY <2>1 DEF TakeCommands, page
  <2>2. CASE Connect(id) \/ Receive(id) \/ Stop(id)
    BY <2>2, ReportDoes DEF page
  <2>3. QED
    BY <2>1, <2>2 DEF Work
<1>2. Ids' = Ids
  BY <1>1 DEF Ids
<1>3. /\ worker' \in Seq(Thread) /\ DOMAIN worker' = Ids
      /\ events' \in Seq(SocketEvent)
      /\ commands' \in Seq(Seq(Command)) /\ DOMAIN commands' = Ids
      /\ delivered' \in Seq(Seq(0 .. MaxSends)) /\ DOMAIN delivered' = Ids
  <2>1. CASE TakeCommands(id)
    <3>1. PICK end \in 1 .. Len(commands[id]) + 1 :
           /\ delivered' \in Seq(Seq(0 .. MaxSends)) /\ DOMAIN delivered' = Ids
           /\ commands' \in Seq(Seq(Command)) /\ DOMAIN commands' = Ids
           /\ IF end > Len(commands[id])
              THEN UNCHANGED <<worker, events>>
              ELSE Finish(id, ~commands[id][end].close)
      BY <2>1, TakeDoes
    <3>2. CASE end > Len(commands[id])
      BY <3>1, <3>2 DEF TypeInv, TypeOK, Shape
    <3>3. CASE ~(end > Len(commands[id]))
      <4>1. \E failed \in BOOLEAN : Finish(id, failed)
        BY <3>1, <3>3
      <4>2. QED
        BY <3>1, <4>1, FinishDoes
    <3>4. QED
      BY <3>2, <3>3
  <2>2. CASE Connect(id) \/ Receive(id) \/ Stop(id)
    <3>1. /\ UNCHANGED <<commands, delivered>>
          /\ \/ Opens(id) \/ Says(id, worker[id].messages + 1)
             \/ \E failed \in BOOLEAN : Finish(id, failed)
      BY <2>2, ReportDoes
    <3>2. worker[id].messages + 1 \in Nat
      <4>1. worker[id] \in Thread
        BY DEF TypeInv, TypeOK, Shape
      <4>2. QED
        BY <4>1 DEF Thread
    <3>3. worker' \in Seq(Thread) /\ DOMAIN worker' = Ids /\ events' \in Seq(SocketEvent)
      BY <3>1, <3>2, GoesOnDoes, FinishDoes
    <3>4. QED
      BY <3>1, <3>3 DEF TypeInv, TypeOK, Shape
  <2>3. QED
    BY <2>1, <2>2 DEF Work
<1>4. QED
  BY <1>1, <1>2, <1>3, SameIds DEF TypeInv, TypeOK, Shape, InSocketClose, InHandler

(* The initial state has the types.                                        *)
LEMMA TypeInit == Init => TypeInv
<1> SUFFICES ASSUME Init
             PROVE  TypeInv
  OBVIOUS
<1> USE WebSocketsAssumption
<1>1. Ids = {}
  BY DEF Init, Ids
<1>2. TypeOK
  BY <1>1 DEF Init, TypeOK, IsInjective, Host, Call, Doing
<1>3. Shape
  BY <1>1 DEF Init, Shape, InSocketClose, InHandler, Host, Call, Ids
<1>4. QED
  BY <1>2, <1>3 DEF TypeInv

(* Every step keeps the types.                                             *)
LEMMA TypeStep == TypeInv /\ [Next]_vars => TypeInv'
<1> SUFFICES ASSUME TypeInv, [Next]_vars
             PROVE  TypeInv'
  OBVIOUS
<1>1. CASE ScriptStep
  BY <1>1, ConstructKeeps, ScriptKeeps DEF ScriptStep
<1>2. CASE PollEvent \/ Join \/ HandlerReturns \/ Navigate
  BY <1>2, PollKeeps, JoinKeeps, ReturnKeeps, NavigateKeeps
<1>3. CASE Shutdown \/ JoinStopping
  BY <1>3, ShutdownKeeps
<1>4. CASE \E id \in Ids : Work(id)
  BY <1>4, WorkKeeps
<1>5. CASE UNCHANGED vars
  <2>1. UNCHANGED <<readyState, registered, capacity, log, sends, connections, commands, stopping,
                    events, worker, delivered, call>>
    BY <1>5 DEF vars, page, loader, workers
  <2>2. Ids' = Ids
    BY <2>1 DEF Ids
  <2>3. QED
    BY <2>1, <2>2, SameIds DEF TypeInv, TypeOK, Shape, InSocketClose, InHandler
<1>6. QED
  BY <1>1, <1>2, <1>3, <1>4, <1>5 DEF Next

(* The state of the page, the loader and the threads is of its types, with *)
(* one entry per object in everything that is kept by object.              *)
THEOREM TypeCorrect == Spec => []TypeInv
<1>1. Init => TypeInv
  BY TypeInit
<1>2. TypeInv /\ [Next]_vars => TypeInv'
  BY TypeStep
<1>3. QED
  BY <1>1, <1>2, PTL DEF Spec

-----------------------------------------------------------------------------
(* Threads and their closing.                                              *)

ClosesOf(id) == {k \in DOMAIN events : events[k].id = id /\ events[k].type = "close"}

\* Before the loader is destroyed, a thread whose Close event waits has ended, waits
\* with one Close event, and is not the one that poll is joining; and nobody is
\* told to stop. Then every connection is on its way to being joined.
Threads ==
  /\ EveryWorkerWillBeJoined
  /\ call = Destructor => connections = {}
  /\ call # Destructor =>
       /\ stopping = {}
       /\ \A id \in Ids : \A j, k \in ClosesOf(id) : worker[id].at = "ended" /\ j = k
  /\ call.at = "join" =>
       /\ call.id \notin connections
       /\ worker[call.id].at = "ended"
       /\ ClosesOf(call.id) = {}

\* Every object that may still get events will get a close: its thread lives, and has
\* the command in its queue if close() was called, or its last event is on its way.
Attended(id) ==
  \/ /\ worker[id].at \in {"connecting", "running"}
     /\ readyState[id] = Closing => \E k \in DOMAIN commands[id] : commands[id][k].close
  \/ ClosesOf(id) # {}
  \/ call.at = "join" /\ call.id = id

Attendance ==
  call # Destructor =>
    \A id \in ToSet(registered) : readyState[id] # Closed => Attended(id)

\* What has made sockets_ grow under socket_close is its last entry, the newest object.
Growth ==
  call.grown => registered # <<>> /\ registered[Len(registered)] = Len(readyState)

SocketInv == TypeInv /\ Threads /\ Attendance /\ Growth

\* What EveryWorkerWillBeJoined says of one thread.
Kept(id) ==
  worker[id].at # "joined" <=>
    \/ id \in connections
    \/ id \in stopping /\ worker[id].at # "joined"
    \/ call.at = "join" /\ call.id = id

AllKept == \A id \in Ids : Kept(id)

(* It says so of every thread.                                             *)
LEMMA KeptIsJoined ==
  /\ TypeInv => (EveryWorkerWillBeJoined <=> AllKept)
  /\ TypeInv' => (EveryWorkerWillBeJoined' <=> AllKept')
<1>1. ASSUME TypeInv
      PROVE  EveryWorkerWillBeJoined <=> AllKept
  <2>1. /\ connections \subseteq Ids /\ stopping \subseteq Ids
        /\ call.at = "join" => call.id \in Ids
    BY <1>1 DEF TypeInv, TypeOK, Shape
  <2>2. QED
    BY <1>1, <2>1 DEF TypeInv, EveryWorkerWillBeJoined, AllKept, Kept
<1>2. ASSUME TypeInv'
      PROVE  EveryWorkerWillBeJoined' <=> AllKept'
  <2>1. /\ connections' \subseteq Ids' /\ stopping' \subseteq Ids'
        /\ call'.at = "join" => call'.id \in Ids'
    BY <1>2 DEF TypeInv, TypeOK, Shape
  <2>2. QED
    BY <1>2, <2>1 DEF TypeInv, EveryWorkerWillBeJoined, AllKept, Kept
<1>3. QED
  BY <1>1, <1>2

(* The Close events of an object before and after a worker pushes an event.*)
LEMMA ClosesPushed ==
  ASSUME TypeInv, DOMAIN events' = DOMAIN events \cup {Len(events) + 1},
         \A k \in DOMAIN events : events'[k] = events[k],
         NEW id \in Ids
  PROVE  /\ ClosesOf(id) \subseteq ClosesOf(id)'
         /\ LET e == events'[Len(events) + 1]
            IN  ClosesOf(id)' = IF e.id = id /\ e.type = "close" THEN ClosesOf(id) \cup {Len(events) + 1}
                                ELSE ClosesOf(id)
         /\ Len(events) + 1 \notin ClosesOf(id)
<1>1. Len(events) + 1 \notin DOMAIN events
  BY LenProperties DEF TypeInv, TypeOK
<1>2. QED
  BY <1>1 DEF ClosesOf

(* The Close events of an object before and after the host takes an event. *)
LEMMA ClosesTaken ==
  ASSUME TypeInv, events # <<>>, events' = Tail(events), NEW id \in Ids
  PROVE  /\ \A k \in ClosesOf(id)' : k \in Nat /\ k > 0 /\ k + 1 \in ClosesOf(id)
         /\ \A k \in ClosesOf(id) : k # 1 => k - 1 \in ClosesOf(id)'
         /\ 1 \in ClosesOf(id) <=> Head(events).id = id /\ Head(events).type = "close"
<1>1. /\ events \in Seq(SocketEvent) /\ Len(events) \in Nat /\ Len(events) > 0
      /\ DOMAIN events = 1 .. Len(events)
  BY LenProperties DEF TypeInv, TypeOK
<1>2. /\ DOMAIN events' = 1 .. Len(events) - 1 /\ Head(events) = events[1]
      /\ \A k \in 1 .. Len(events) - 1 : events'[k] = events[k + 1]
  BY <1>1
<1>3. ASSUME NEW k \in ClosesOf(id)'
      PROVE  k \in Nat /\ k > 0 /\ k + 1 \in ClosesOf(id)
  <2>1. k \in 1 .. Len(events) - 1 /\ events'[k].id = id /\ events'[k].type = "close"
    BY <1>2 DEF ClosesOf
  <2>2. k + 1 \in 1 .. Len(events) /\ events'[k] = events[k + 1]
    BY <1>1, <1>2, <2>1
  <2>3. QED
    BY <1>1, <2>1, <2>2 DEF ClosesOf
<1>4. ASSUME NEW k \in ClosesOf(id), k # 1
      PROVE  k - 1 \in ClosesOf(id)'
  <2>1. k \in 2 .. Len(events) /\ events[k].id = id /\ events[k].type = "close"
    BY <1>1, <1>4 DEF ClosesOf
  <2>2. k - 1 \in 1 .. Len(events) - 1 /\ (k - 1) + 1 = k
    BY <1>1, <2>1
  <2>3. events'[k - 1] = events[k]
    BY <1>2, <2>2
  <2>4. QED
    BY <1>2, <2>1, <2>2, <2>3 DEF ClosesOf
<1>5. 1 \in ClosesOf(id) <=> Head(events).id = id /\ Head(events).type = "close"
  BY <1>1, <1>2 DEF ClosesOf
<1>6. QED
  BY <1>3, <1>4, <1>5

(* What a worker's step does to the threads and their Close events.        *)
LEMMA WorkDoes ==
  ASSUME TypeInv, NEW id \in Ids, Work(id)
  PROVE  /\ UNCHANGED <<readyState, registered, capacity, log, sends, connections, stopping, call>>
         /\ worker[id].at \in {"connecting", "running"}
         /\ \A i \in Ids \ {id} : worker'[i] = worker[i] /\ ClosesOf(i)' = ClosesOf(i)
         /\ \/ worker'[id].at \in {"connecting", "running"} /\ ClosesOf(id)' = ClosesOf(id)
            \/ worker'[id].at = "ended" /\ ClosesOf(id)' = ClosesOf(id) \cup {Len(events) + 1}
<1>1. CASE TakeCommands(id)
  <2>1. /\ UNCHANGED <<readyState, registered, capacity, log, sends, connections, stopping, call>>
        /\ worker[id].at = "running"
    BY <1>1 DEF TakeCommands, page, Running
  <2>2. PICK end \in 1 .. Len(commands[id]) + 1 :
          IF end > Len(commands[id])
          THEN UNCHANGED <<worker, events>>
          ELSE Finish(id, ~commands[id][end].close)
    BY <1>1, TakeDoes
  <2>3. UNCHANGED <<worker, events>> \/ \E failed \in BOOLEAN : Finish(id, failed)
    BY <2>2
  <2>4. CASE UNCHANGED <<worker, events>>
    BY <2>1, <2>4 DEF ClosesOf
  <2>5. CASE \E failed \in BOOLEAN : Finish(id, failed)
    <3>1. /\ worker'[id].at = "ended" /\ \A i \in Ids \ {id} : worker'[i] = worker[i]
          /\ DOMAIN events' = DOMAIN events \cup {Len(events) + 1}
          /\ \A k \in DOMAIN events : events'[k] = events[k]
          /\ events'[Len(events) + 1].id = id /\ events'[Len(events) + 1].type = "close"
      <4>1. PICK failed \in BOOLEAN : Finish(id, failed)
        BY <2>5
      <4>2. /\ worker'[id].at = "ended" /\ \A i \in Ids \ {id} : worker'[i] = worker[i]
            /\ DOMAIN events' = DOMAIN events \cup {Len(events) + 1}
            /\ \A k \in DOMAIN events : events'[k] = events[k]
            /\ events'[Len(events) + 1] = Event("close", id, 0, failed)
        BY <4>1, FinishDoes
      <4>3. Event("close", id, 0, failed).id = id /\ Event("close", id, 0, failed).type = "close"
        BY DEF Event
      <4>4. QED
        BY <4>2, <4>3
    <3>2. QED
      BY <2>1, <3>1, ClosesPushed
  <2>6. QED
    BY <2>3, <2>4, <2>5
<1>2. CASE Connect(id) \/ Receive(id) \/ Stop(id)
  <2>1. /\ UNCHANGED <<readyState, registered, capacity, log, sends, connections, stopping, call>>
        /\ worker[id].at \in {"connecting", "running"}
        /\ \/ Opens(id) \/ Says(id, worker[id].messages + 1)
           \/ \E failed \in BOOLEAN : Finish(id, failed)
    BY <1>2, ReportDoes DEF page
  <2>2. CASE Opens(id) \/ Says(id, worker[id].messages + 1)
    <3>1. worker[id] \in Thread
      BY DEF TypeInv, TypeOK, Shape
    <3>2. worker[id].messages + 1 \in Nat
      BY <3>1 DEF Thread
    <3>3. /\ worker'[id].at = "running" /\ \A i \in Ids \ {id} : worker'[i] = worker[i]
          /\ DOMAIN events' = DOMAIN events \cup {Len(events) + 1}
          /\ \A k \in DOMAIN events : events'[k] = events[k]
          /\ events'[Len(events) + 1].type # "close"
      <4> DEFINE n == worker[id].messages + 1
      <4>1. /\ worker'[id].at = "running" /\ \A i \in Ids \ {id} : worker'[i] = worker[i]
            /\ DOMAIN events' = DOMAIN events \cup {Len(events) + 1}
            /\ \A k \in DOMAIN events : events'[k] = events[k]
            /\ events'[Len(events) + 1] \in {Event("open", id, 0, FALSE), Event("message", id, n, FALSE)}
        BY <2>2, <3>2, GoesOnDoes
      <4>2. Event("open", id, 0, FALSE).type = "open" /\ Event("message", id, n, FALSE).type = "message"
        BY DEF Event
      <4>3. QED
        BY <4>1, <4>2
    <3>4. QED
      BY <2>1, <3>3, ClosesPushed
  <2>3. CASE \E failed \in BOOLEAN : Finish(id, failed)
    <3>1. /\ worker'[id].at = "ended" /\ \A i \in Ids \ {id} : worker'[i] = worker[i]
          /\ DOMAIN events' = DOMAIN events \cup {Len(events) + 1}
          /\ \A k \in DOMAIN events : events'[k] = events[k]
          /\ events'[Len(events) + 1].id = id /\ events'[Len(events) + 1].type = "close"
      <4>1. PICK failed \in BOOLEAN : Finish(id, failed)
        BY <2>3
      <4>2. /\ worker'[id].at = "ended" /\ \A i \in Ids \ {id} : worker'[i] = worker[i]
            /\ DOMAIN events' = DOMAIN events \cup {Len(events) + 1}
            /\ \A k \in DOMAIN events : events'[k] = events[k]
            /\ events'[Len(events) + 1] = Event("close", id, 0, failed)
        BY <4>1, FinishDoes
      <4>3. Event("close", id, 0, failed).id = id /\ Event("close", id, 0, failed).type = "close"
        BY DEF Event
      <4>4. QED
        BY <4>2, <4>3
    <3>2. QED
      BY <2>1, <3>1, ClosesPushed
  <2>4. QED
    BY <2>1, <2>2, <2>3
<1>3. QED
  BY <1>1, <1>2 DEF Work

(* new WebSocket(url) starts a thread that has a connection.               *)
LEMMA ConstructDoes ==
  ASSUME TypeInv, Construct
  PROVE  LET id == Len(readyState) + 1
         IN  /\ id \notin Ids /\ Ids' = Ids \cup {id}
             /\ \A i \in Ids : /\ worker'[i] = worker[i] /\ readyState'[i] = readyState[i]
                               /\ commands'[i] = commands[i]
                               /\ log'[i] = log[i] /\ delivered'[i] = delivered[i]
             /\ worker'[id].at = "connecting" /\ readyState'[id] = Connecting
             /\ worker'[id].messages = 0
             /\ log'[id] = <<>> /\ delivered'[id] = <<>> /\ commands'[id] = <<>>
             /\ connections' = connections \cup {id}
             /\ ToSet(registered') = ToSet(registered) \cup {id}
             /\ call # Destructor /\ call' # Destructor /\ call.at # "join" /\ call'.at = call.at
             /\ \A k \in DOMAIN events : events[k].id # id
             /\ UNCHANGED <<events, stopping>>
<1> DEFINE id == Len(readyState) + 1
<1>1. /\ readyState \in Seq(Connecting .. Closed) /\ Ids = 1 .. Len(readyState) /\ Len(readyState) \in Nat
      /\ readyState' = Append(readyState, Connecting) /\ worker' = Append(worker, Idle)
      /\ commands' = Append(commands, <<>>) /\ log' = Append(log, <<>>)
      /\ delivered' = Append(delivered, <<>>)
  BY LenProperties DEF TypeInv, TypeOK, Construct, Ids
<1>2. /\ id \notin Ids /\ Ids' = Ids \cup {id}
      /\ \A i \in Ids : readyState'[i] = readyState[i]
      /\ readyState'[id] = Connecting
  BY <1>1, SeqAdd DEF Connecting, Closed, Ids
<1>3. /\ worker \in Seq(Thread) /\ DOMAIN worker = 1 .. Len(readyState)
      /\ commands \in Seq(Seq(Command)) /\ DOMAIN commands = 1 .. Len(readyState)
      /\ log \in Seq(Seq(Seen)) /\ DOMAIN log = 1 .. Len(readyState)
      /\ delivered \in Seq(Seq(0 .. MaxSends)) /\ DOMAIN delivered = 1 .. Len(readyState)
  BY <1>1 DEF TypeInv, TypeOK, Shape
<1>4. /\ \A i \in Ids : /\ worker'[i] = worker[i] /\ commands'[i] = commands[i]
                        /\ log'[i] = log[i] /\ delivered'[i] = delivered[i]
      /\ worker'[id].at = "connecting" /\ worker'[id].messages = 0
      /\ log'[id] = <<>> /\ delivered'[id] = <<>> /\ commands'[id] = <<>>
  <2>1. /\ Len(worker) = Len(readyState) /\ Len(commands) = Len(readyState)
        /\ Len(log) = Len(readyState) /\ Len(delivered) = Len(readyState)
    BY <1>1, <1>3, LenProperties
  <2>2. Idle.at = "connecting" /\ Idle.messages = 0
    BY DEF Idle
  <2>3. /\ \A i \in Ids : worker'[i] = worker[i] /\ commands'[i] = commands[i]
        /\ worker'[id].at = "connecting" /\ worker'[id].messages = 0 /\ commands'[id] = <<>>
    BY <1>1, <1>3, <2>1, <2>2
  <2>4. /\ \A i \in Ids : log'[i] = log[i] /\ delivered'[i] = delivered[i]
        /\ log'[id] = <<>> /\ delivered'[id] = <<>>
    BY <1>1, <1>3, <2>1
  <2>5. QED
    BY <2>3, <2>4
<1>5. ToSet(registered') = ToSet(registered) \cup {id}
  <2>1. registered \in Seq(Ids) /\ registered' = Append(registered, id)
    BY DEF TypeInv, TypeOK, Construct
  <2>2. QED
    BY <2>1 DEF ToSet
<1>6. call # Destructor /\ call' # Destructor /\ call.at # "join" /\ call'.at = call.at
  <2>1. call \in Doing /\ call.at \in {"host", "handler"}
    BY DEF Construct, InScript, Host, Call, TypeInv, TypeOK
  <2>2. call' = [call EXCEPT !.grown = @ \/ (InSocketClose /\ ~HasRoom)]
    BY DEF Construct
  <2>3. call'.at = call.at
    BY <2>1, <2>2 DEF Doing
  <2>4. QED
    BY <2>1, <2>3 DEF Destructor, Call
<1>7. \A k \in DOMAIN events : events[k].id # id
  <2>1. \A k \in DOMAIN events : events[k] \in SocketEvent
    BY ElementOfSeq, LenProperties DEF TypeInv, TypeOK
  <2>2. QED
    BY <1>2, <2>1 DEF SocketEvent
<1>8. connections' = connections \cup {id} /\ UNCHANGED <<events, stopping>>
  BY DEF Construct
<1>9. QED
  BY <1>2, <1>4, <1>5, <1>6, <1>7, <1>8

(* No step leaves a thread that nobody will join.                          *)
LEMMA ThreadsStep == TypeInv /\ TypeInv' /\ Threads /\ [Next]_vars => Threads'
<1> SUFFICES ASSUME TypeInv, TypeInv', Threads, [Next]_vars
             PROVE  Threads'
  OBVIOUS
<1>1. AllKept
  BY KeptIsJoined DEF Threads
<1>2. SUFFICES /\ AllKept'
               /\ call' = Destructor => connections' = {}
               /\ call' # Destructor =>
                    /\ stopping' = {}
                    /\ \A id \in Ids' : \A j, k \in ClosesOf(id)' : worker'[id].at = "ended" /\ j = k
               /\ call'.at = "join" =>
                    /\ call'.id \notin connections'
                    /\ worker'[call'.id].at = "ended"
                    /\ ClosesOf(call.id)' = {}
  BY KeptIsJoined DEF Threads
<1> USE DEF Destructor, Host, Call
<1>3. CASE Construct
  <2>1. PICK id \in Nat :
        /\ id \notin Ids /\ Ids' = Ids \cup {id}
        /\ \A i \in Ids : worker'[i] = worker[i]
        /\ worker'[id].at = "connecting" /\ connections' = connections \cup {id}
        /\ call # Destructor /\ call' # Destructor /\ call.at # "join" /\ call'.at = call.at
        /\ \A k \in DOMAIN events : events[k].id # id
        /\ UNCHANGED <<events, stopping>>
    <3>1. Len(readyState) + 1 \in Nat
      BY LenProperties DEF TypeInv, TypeOK
    <3>2. QED
      BY <1>3, <3>1, ConstructDoes
  <2>2. stopping = {} /\ stopping' = {}
    BY <2>1 DEF Threads
  <2>3. AllKept'
    BY <1>1, <2>1, <2>2 DEF AllKept, Kept
  <2>4. \A i \in Ids : ClosesOf(i)' = ClosesOf(i)
    BY <2>1 DEF ClosesOf
  <2>5. ClosesOf(id)' = {}
    BY <2>1 DEF ClosesOf
  <2>6. QED
    BY <2>1, <2>2, <2>3, <2>4, <2>5 DEF Threads
<1>4. CASE PollEvent
  <2>1. PICK event \in SocketEvent :
        /\ event = Head(events) /\ events' = Tail(events) /\ events # <<>> /\ call = Host
        /\ UNCHANGED <<stopping, worker>>
    BY <1>4, SeqTake DEF PollEvent, TypeInv, TypeOK, workers
  <2>2. Ids' = Ids
    <3>1. CASE event.type = "close"
      BY <1>4, <2>1, <3>1 DEF PollEvent, Ids
    <3>2. CASE event.type # "close"
      BY <1>4, <2>1, <3>2, DeliverKeeps DEF PollEvent
    <3>3. QED
      BY <3>1, <3>2
  <2>3. /\ call # Destructor /\ call.at # "join" /\ stopping = {} /\ stopping' = {}
    BY <2>1 DEF Threads
  <2>4. \A id \in Ids : \A j, k \in ClosesOf(id)' : worker'[id].at = "ended" /\ j = k
    <3>1. TAKE id \in Ids
    <3>2. TAKE j, k \in ClosesOf(id)'
    <3>3. j \in Nat /\ k \in Nat /\ j + 1 \in ClosesOf(id) /\ k + 1 \in ClosesOf(id)
      BY <2>1, ClosesTaken
    <3>4. worker[id].at = "ended" /\ j + 1 = k + 1
      BY <2>3, <3>3 DEF Threads
    <3>5. QED
      BY <2>1, <3>3, <3>4
  <2>5. CASE event.type = "close"
    <3>1. /\ connections' = connections \ {event.id}
          /\ call' = Call("join", event.id, IF event.failed THEN "error" ELSE "close", FALSE)
      BY <1>4, <2>1, <2>5 DEF PollEvent, Erases
    <3>2. event.id \in Ids
      BY <2>1 DEF SocketEvent
    <3>3. 1 \in ClosesOf(event.id)
      BY <2>1, <2>5, <3>2, ClosesTaken
    <3>4. worker[event.id].at = "ended"
      BY <2>3, <3>2, <3>3 DEF Threads
    <3>5. ClosesOf(event.id)' = {}
      <4>1. SUFFICES ASSUME NEW k \in ClosesOf(event.id)'
                     PROVE  FALSE
        OBVIOUS
      <4>2. k \in Nat /\ k > 0 /\ k + 1 \in ClosesOf(event.id)
        BY <2>1, <3>2, ClosesTaken
      <4>3. k + 1 = 1
        BY <2>3, <3>2, <3>3, <4>2 DEF Threads
      <4>4. QED
        BY <4>2, <4>3
    <3>6. AllKept'
      BY <1>1, <2>1, <2>2, <2>3, <3>1, <3>2, <3>4 DEF AllKept, Kept
    <3>7. call'.at = "join" /\ call'.id = event.id
      BY <3>1
    <3>8. QED
      BY <2>1, <2>2, <2>3, <2>4, <3>1, <3>4, <3>5, <3>6, <3>7
  <2>6. CASE event.type # "close"
    <3>1. Deliver(event) /\ connections' = connections
      BY <1>4, <2>1, <2>6 DEF PollEvent
    <3>2. call'.at \in {"host", "handler"}
      BY <3>1 DEF Deliver
    <3>3. AllKept'
      BY <1>1, <2>1, <2>2, <2>3, <3>1, <3>2 DEF AllKept, Kept
    <3>4. QED
      BY <2>1, <2>2, <2>3, <2>4, <3>2, <3>3
  <2>7. QED
    BY <2>5, <2>6
<1>5. CASE Join
  <2> DEFINE id == call.id
  <2>1. /\ id \in Ids /\ call.at = "join" /\ UNCHANGED <<connections, stopping, events>>
    BY <1>5 DEF Join, TypeInv, Shape
  <2>2. worker'[id].at = "joined" /\ \A i \in Ids \ {id} : worker'[i] = worker[i]
    BY <1>5, <2>1, JoinedDoes DEF Join
  <2>3. call'.at \in {"host", "handler"} /\ Ids' = Ids
    <3>1. DeliverClose(id, call.event)
      BY <1>5 DEF Join
    <3>2. CASE Found(id)
      <4>1. readyState' = [readyState EXCEPT ![id] = Closed] /\ call'.at = "handler"
        BY <3>1, <3>2 DEF DeliverClose
      <4>2. QED
        BY <4>1 DEF Ids
    <3>3. CASE ~Found(id)
      BY <3>1, <3>3 DEF DeliverClose, Ids
    <3>4. QED
      BY <3>2, <3>3
  <2>4. call # Destructor /\ stopping = {} /\ id \notin connections /\ ClosesOf(id) = {}
    BY <2>1 DEF Threads
  <2>5. AllKept'
    BY <1>1, <2>1, <2>2, <2>3, <2>4 DEF AllKept, Kept
  <2>6. \A i \in Ids : ClosesOf(i)' = ClosesOf(i)
    BY <2>1 DEF ClosesOf
  <2>7. QED
    BY <2>1, <2>2, <2>3, <2>4, <2>5, <2>6 DEF Threads
<1>6. CASE Shutdown
  <2>1. /\ stopping' = connections /\ connections' = {} /\ call = Host /\ call' = Destructor
        /\ UNCHANGED <<readyState, worker>>
    BY <1>6 DEF Shutdown, Told, page, workers
  <2>2. Ids' = Ids /\ stopping = {}
    BY <2>1 DEF Ids, Threads
  <2>3. AllKept'
    BY <1>1, <2>1, <2>2 DEF AllKept, Kept
  <2>4. QED
    BY <2>1, <2>3
<1>7. CASE JoinStopping
  <2>1. PICK id \in stopping : Joined(id)
    BY <1>7 DEF JoinStopping
  <2>2. /\ id \in Ids /\ UNCHANGED <<readyState, connections, stopping, call>> /\ call = Destructor
    BY <1>7 DEF JoinStopping, TypeInv, TypeOK, page
  <2>3. worker'[id].at = "joined" /\ \A i \in Ids \ {id} : worker'[i] = worker[i]
    BY <2>1, <2>2, JoinedDoes
  <2>4. connections = {} /\ Ids' = Ids
    BY <2>2 DEF Threads, Ids
  <2>5. AllKept'
    BY <1>1, <2>2, <2>3, <2>4 DEF AllKept, Kept
  <2>6. QED
    BY <2>2, <2>4, <2>5
<1>8. CASE \E id \in Ids : Work(id)
  <2>1. PICK id \in Ids : Work(id)
    BY <1>8
  <2>2. /\ UNCHANGED <<readyState, connections, stopping, call>>
        /\ worker[id].at \in {"connecting", "running"}
        /\ \A i \in Ids \ {id} : worker'[i] = worker[i] /\ ClosesOf(i)' = ClosesOf(i)
        /\ \/ worker'[id].at \in {"connecting", "running"} /\ ClosesOf(id)' = ClosesOf(id)
           \/ worker'[id].at = "ended" /\ ClosesOf(id)' = ClosesOf(id) \cup {Len(events) + 1}
    BY <2>1, WorkDoes
  <2>3. Ids' = Ids
    BY <2>2 DEF Ids
  <2>4. AllKept'
    BY <1>1, <2>2, <2>3 DEF AllKept, Kept
  <2>5. ASSUME call # Destructor
        PROVE  \A i \in Ids : \A j, k \in ClosesOf(i)' : worker'[i].at = "ended" /\ j = k
    <3>1. ClosesOf(id) = {}
      BY <2>2, <2>5 DEF Threads
    <3>2. QED
      BY <2>2, <2>5, <3>1 DEF Threads
  <2>6. ASSUME call.at = "join"
        PROVE  call.id \in Ids \ {id}
    BY <2>2, <2>6 DEF Threads, TypeInv, Shape
  <2>7. QED
    BY <2>2, <2>3, <2>4, <2>5, <2>6 DEF Threads
<1>9. CASE \/ \E id \in Ids : Send(id) \/ Close(id)
           \/ HandlerReturns \/ Navigate \/ UNCHANGED vars
  <2>1. /\ UNCHANGED <<connections, stopping, events, worker>>
    BY <1>9 DEF Send, Close, HandlerReturns, Navigate, vars, loader, workers
  <2>2. Ids' = Ids
    BY <1>9 DEF Send, Close, HandlerReturns, Navigate, vars, page, Ids
  <2>3. \/ call' = call
        \/ call # Destructor /\ call' # Destructor /\ call.at # "join" /\ call'.at # "join"
    <3>1. CASE HandlerReturns
      <4>1. call \in Doing /\ call.at = "handler"
        BY <3>1 DEF HandlerReturns, TypeInv, TypeOK
      <4>2. call' = Host \/ call' = [call EXCEPT !.event = "close"]
        BY <3>1 DEF HandlerReturns
      <4>3. call'.at \in {"host", "handler"}
        BY <4>1, <4>2 DEF Doing
      <4>4. QED
        BY <4>1, <4>3
    <3>2. CASE ~HandlerReturns
      BY <1>9, <3>2 DEF Send, Close, Navigate, vars
    <3>3. QED
      BY <3>1, <3>2
  <2>4. AllKept'
    BY <1>1, <2>1, <2>2, <2>3 DEF AllKept, Kept
  <2>5. \A i : ClosesOf(i)' = ClosesOf(i)
    BY <2>1 DEF ClosesOf
  <2>6. QED
    BY <2>1, <2>2, <2>3, <2>4, <2>5 DEF Threads
<1>10. QED
  BY <1>3, <1>4, <1>5, <1>6, <1>7, <1>8, <1>9 DEF Next, ScriptStep

(* sockets_ holds ids of objects.                                          *)
LEMMA RegisteredAreIds ==
  ASSUME TypeInv, NEW id \in ToSet(registered)
  PROVE  id \in Ids
<1>1. registered \in Seq(Ids) /\ \E k \in DOMAIN registered : registered[k] = id
  BY DEF TypeInv, TypeOK, ToSet
<1>2. QED
  BY <1>1, LenProperties

(* Before the loader is destroyed the thread of an object that may still   *)
(* be closed is one that poll looks for.                                   *)
LEMMA LiveIsConnected ==
  ASSUME TypeInv, Threads, call # Destructor, NEW id \in Ids,
         worker[id].at \in {"connecting", "running"}
  PROVE  id \in connections
<1>1. Kept(id)
  BY KeptIsJoined DEF Threads, AllKept
<1>2. ~(call.at = "join" /\ call.id = id) /\ stopping = {}
  BY DEF Threads
<1>3. QED
  BY <1>1, <1>2 DEF Kept

(* A worker that takes a queue with a close in it ends.                    *)
LEMMA TakesTheClose ==
  ASSUME TypeInv, NEW id \in Ids, TakeCommands(id),
         NEW k \in DOMAIN commands[id], commands[id][k].close
  PROVE  \E failed \in BOOLEAN : Finish(id, failed)
<1>1. commands[id] \in Seq(Command)
  BY LenProperties DEF TypeInv, TypeOK, Shape
<1>2. PICK end \in 1 .. Len(commands[id]) + 1 :
        /\ \A j \in 1 .. end - 1 : ~commands[id][j].close
        /\ IF end > Len(commands[id])
           THEN UNCHANGED <<worker, events>>
           ELSE Finish(id, ~commands[id][end].close)
  BY TakeDoes
<1>3. end <= Len(commands[id])
  <2>1. SUFFICES ASSUME end > Len(commands[id])
                 PROVE  FALSE
    BY <1>1, LenProperties
  <2>2. k \in 1 .. end - 1
    BY <1>1, <2>1, LenProperties
  <2>3. QED
    BY <1>2, <2>2
<1>4. Len(commands[id]) \in Nat /\ ~(end > Len(commands[id]))
  BY <1>1, <1>3, LenProperties
<1>5. Finish(id, ~commands[id][end].close) /\ (~commands[id][end].close) \in BOOLEAN
  BY <1>2, <1>4
<1>6. QED
  BY <1>5

(* No step leaves an object waiting for a close that nobody will report.   *)
LEMMA AttendanceStep ==
  TypeInv /\ TypeInv' /\ Threads /\ Threads' /\ Attendance /\ [Next]_vars => Attendance'
<1> SUFFICES ASSUME TypeInv, Threads, Attendance, [Next]_vars, call' # Destructor,
                    NEW id \in ToSet(registered)', readyState'[id] # Closed
             PROVE  Attended(id)'
  BY DEF Attendance
<1> USE DEF Destructor, Host, Call
<1>1. CASE Construct
  <2>1. PICK new \in Nat :
        /\ new \notin Ids
        /\ \A i \in Ids : /\ worker'[i] = worker[i] /\ readyState'[i] = readyState[i]
                          /\ commands'[i] = commands[i]
        /\ worker'[new].at = "connecting" /\ readyState'[new] = Connecting
        /\ ToSet(registered') = ToSet(registered) \cup {new}
        /\ call # Destructor /\ call.at # "join"
        /\ UNCHANGED events
    <3>1. Len(readyState) + 1 \in Nat
      BY LenProperties DEF TypeInv, TypeOK
    <3>2. QED
      BY <1>1, <3>1, ConstructDoes
  <2>2. CASE id = new
    BY <2>1, <2>2 DEF Attended, Connecting, Closing
  <2>3. CASE id # new
    <3>1. id \in ToSet(registered) /\ id \in Ids
      BY <2>1, <2>3, RegisteredAreIds
    <3>2. Attended(id)
      BY <2>1, <3>1 DEF Attendance
    <3>3. QED
      BY <2>1, <3>1, <3>2 DEF Attended, ClosesOf
  <2>4. QED
    BY <2>2, <2>3
<1>2. ASSUME ToSet(registered)' \subseteq ToSet(registered)
      PROVE  /\ id \in ToSet(registered) /\ id \in Ids
             /\ call # Destructor /\ readyState[id] # Closed => Attended(id)
  BY <1>2, RegisteredAreIds DEF Attendance
<1>3. CASE \E i \in Ids : Send(i) \/ Close(i)
  <2>1. PICK i \in Ids : Send(i) \/ Close(i)
    BY <1>3
  <2>2. /\ UNCHANGED <<registered, worker, events, call>> /\ call.at # "join"
    BY <2>1 DEF Send, Close, InScript, workers
  <2>3. PICK command \in Command : /\ commands' = WithCommand(commands, {i}, command)
                                   /\ Close(i) => command.close
    <3>1. CASE Send(i)
      <4>1. SendCommand(sends + 1) \in Command
        BY <3>1, WebSocketsAssumption DEF Send, SendCommand, Command, TypeInv, TypeOK
      <4>2. ~Close(i)
        BY <3>1 DEF Send, Close, MayClose, Open, Closing
      <4>3. QED
        BY <3>1, <4>1, <4>2 DEF Send
    <3>2. CASE Close(i)
      <4>1. CloseCommand \in Command /\ CloseCommand.close
        BY WebSocketsAssumption DEF CloseCommand, Command
      <4>2. QED
        BY <3>2, <4>1 DEF Close
    <3>3. QED
      BY <2>1, <3>1, <3>2
  <2>4. \A j \in Ids :
          commands'[j] = IF j \in {i} \cap connections /\ worker[j].at # "ended"
                         THEN Append(commands[j], command) ELSE commands[j]
    BY <2>3, CommandDoes
  <2>5. \A j \in Ids : commands[j] \in Seq(Command)
    BY LenProperties DEF TypeInv, TypeOK, Shape
  <2>6. \A j \in Ids : readyState'[j] # readyState[j] => j = i /\ readyState[j] # Closed /\ Close(i)
    BY <2>1 DEF Send, Close, MayClose, Closing, Closed, Ids
  <2>7. id \in Ids /\ readyState[id] # Closed /\ Attended(id)
    BY <1>2, <2>2, <2>6
  <2>8. CASE worker[id].at \in {"connecting", "running"} /\ readyState'[id] = Closing
    <3>1. CASE readyState[id] = Closing
      <4>1. CASE \E k \in DOMAIN commands[id] : commands[id][k].close
        <5>1. PICK k \in DOMAIN commands[id] : commands[id][k].close
          BY <4>1
        <5>2. k \in DOMAIN commands'[id] /\ commands'[id][k] = commands[id][k]
          <6>1. CASE commands'[id] = Append(commands[id], command)
            BY <2>5, <2>7, <5>1, <6>1, SeqAdd
          <6>2. CASE commands'[id] = commands[id]
            BY <5>1, <6>2
          <6>3. QED
            BY <2>4, <2>7, <6>1, <6>2
        <5>3. QED
          BY <2>2, <2>8, <5>1, <5>2 DEF Attended
      <4>2. CASE ClosesOf(id) # {}
        BY <2>2, <4>2 DEF Attended, ClosesOf
      <4>3. QED
        BY <2>2, <2>7, <3>1, <4>1, <4>2 DEF Attended
    <3>2. CASE readyState[id] # Closing
      <4>1. id = i /\ Close(i) /\ command.close
        BY <2>3, <2>6, <2>7, <2>8, <3>2
      <4>2. id \in connections
        BY <2>2, <2>7, <2>8, LiveIsConnected
      <4>3. commands'[id] = Append(commands[id], command)
        BY <2>4, <2>7, <2>8, <4>1, <4>2
      <4>4. /\ Len(commands[id]) + 1 \in DOMAIN commands'[id]
            /\ commands'[id][Len(commands[id]) + 1] = command
        BY <2>5, <2>7, <4>3, SeqAdd
      <4>5. QED
        BY <2>2, <2>8, <4>1, <4>4 DEF Attended
    <3>3. QED
      BY <3>1, <3>2
  <2>9. CASE worker[id].at \in {"connecting", "running"} /\ readyState'[id] # Closing
    BY <2>2, <2>9 DEF Attended
  <2>10. CASE worker[id].at \notin {"connecting", "running"}
    BY <2>2, <2>7, <2>10 DEF Attended, ClosesOf
  <2>11. QED
    BY <2>8, <2>9, <2>10
<1>4. CASE PollEvent
  <2>1. PICK event \in SocketEvent :
        /\ event = Head(events) /\ events' = Tail(events) /\ events # <<>> /\ call = Host
        /\ UNCHANGED <<registered, commands, worker>>
    BY <1>4, SeqTake DEF PollEvent, TypeInv, TypeOK, workers
  <2>2. /\ call # Destructor /\ call.at # "join" /\ id \in Ids
        /\ readyState[id] # Closed => Attended(id)
    BY <1>2, <2>1
  <2>3. /\ readyState[id] # Closed
        /\ readyState'[id] = Closing => readyState[id] = Closing
    <3>1. CASE event.type = "close"
      BY <1>4, <2>1, <3>1 DEF PollEvent
    <3>2. CASE event.type # "close"
      <4>1. Deliver(event)
        BY <1>4, <2>1, <3>2 DEF PollEvent
      <4>2. CASE readyState' = readyState
        BY <4>2
      <4>3. CASE readyState' # readyState
        <5>1. /\ readyState' = [readyState EXCEPT ![event.id] = Open]
              /\ readyState[event.id] \in {Connecting, Open}
          BY <4>1, <4>3 DEF Deliver, Admitted, Expected
        <5>2. CASE id = event.id
          <6>1. readyState'[id] = Open
            BY <2>2, <5>1, <5>2 DEF Ids
          <6>2. QED
            BY <5>1, <5>2, <6>1 DEF Connecting, Open, Closing, Closed
        <5>3. CASE id # event.id
          BY <5>1, <5>3
        <5>4. QED
          BY <5>2, <5>3
      <4>4. QED
        BY <4>2, <4>3
    <3>3. QED
      BY <3>1, <3>2
  <2>4. CASE worker[id].at \in {"connecting", "running"}
              /\ (readyState[id] = Closing => \E k \in DOMAIN commands[id] : commands[id][k].close)
    BY <2>1, <2>3, <2>4 DEF Attended
  <2>5. CASE ClosesOf(id) # {}
    <3>1. PICK k \in ClosesOf(id) : TRUE
      BY <2>5
    <3>2. CASE k # 1
      <4>1. k - 1 \in ClosesOf(id)'
        BY <2>1, <2>2, <3>1, <3>2, ClosesTaken
      <4>2. QED
        BY <4>1 DEF Attended
    <3>3. CASE k = 1
      <4>1. event.id = id /\ event.type = "close"
        BY <2>1, <2>2, <3>1, <3>3, ClosesTaken
      <4>2. call'.at = "join" /\ call'.id = id
        BY <1>4, <2>1, <4>1 DEF PollEvent
      <4>3. QED
        BY <4>2 DEF Attended
    <3>4. QED
      BY <3>2, <3>3
  <2>6. QED
    BY <2>2, <2>3, <2>4, <2>5 DEF Attended
<1>5. CASE Join
  <2>1. /\ call.at = "join" /\ call.id \in Ids /\ Joined(call.id) /\ DeliverClose(call.id, call.event)
        /\ UNCHANGED <<registered, events>>
    BY <1>5 DEF Join, TypeInv, Shape
  <2>2. id # call.id
    <3>1. ASSUME id = call.id
          PROVE  FALSE
      <4>1. Found(call.id)
        BY <2>1, <3>1 DEF Found
      <4>2. readyState' = [readyState EXCEPT ![call.id] = Closed]
        BY <2>1, <4>1 DEF DeliverClose
      <4>3. QED
        BY <2>1, <3>1, <4>2 DEF Ids
    <3>2. QED
      BY <3>1
  <2>3. id \in Ids /\ readyState'[id] = readyState[id] /\ call # Destructor
    BY <1>2, <2>1, <2>2 DEF DeliverClose, Ids
  <2>4. Attended(id)
    BY <1>2, <2>1, <2>3
  <2>5. worker'[id] = worker[id] /\ commands'[id] = commands[id]
    BY <2>1, <2>2, <2>3, JoinedDoes
  <2>6. QED
    BY <2>1, <2>2, <2>3, <2>4, <2>5 DEF Attended, ClosesOf
<1>6. CASE HandlerReturns
  <2>1. /\ UNCHANGED <<readyState, worker, events, commands>> /\ call.at = "handler"
    BY <1>6 DEF HandlerReturns, loader, workers
  <2>2. ToSet(registered)' \subseteq ToSet(registered)
    <3>1. CASE InHandler("close")
      <4>1. registered' = Forgotten(call.id) /\ call.id \in ToSet(registered)
        BY <1>6, <3>1 DEF HandlerReturns, InHandler, TypeInv, Shape, InSocketClose
      <4>2. QED
        BY <4>1, ForgottenKeeps
    <3>2. CASE ~InHandler("close")
      BY <1>6, <3>2 DEF HandlerReturns
    <3>3. QED
      BY <3>1, <3>2
  <2>3. QED
    BY <1>2, <2>1, <2>2 DEF Attended, ClosesOf
<1>7. CASE Navigate
  BY <1>7 DEF Navigate, ToSet
<1>8. CASE Shutdown \/ JoinStopping
  BY <1>8 DEF Shutdown, JoinStopping
<1>9. CASE \E i \in Ids : Work(i)
  <2>1. PICK i \in Ids : Work(i)
    BY <1>9
  <2>2. /\ UNCHANGED <<readyState, registered, call>>
        /\ worker[i].at \in {"connecting", "running"}
        /\ \A j \in Ids \ {i} : worker'[j] = worker[j] /\ ClosesOf(j)' = ClosesOf(j)
        /\ \/ worker'[i].at \in {"connecting", "running"} /\ ClosesOf(i)' = ClosesOf(i)
           \/ worker'[i].at = "ended" /\ ClosesOf(i)' = ClosesOf(i) \cup {Len(events) + 1}
    BY <2>1, WorkDoes
  <2>3. id \in Ids /\ Attended(id)
    BY <1>2, <2>2
  <2>4. CASE ClosesOf(id) # {}
    BY <2>2, <2>3, <2>4 DEF Attended
  <2>5. CASE call.at = "join" /\ call.id = id
    BY <2>2, <2>5 DEF Attended
  <2>6. CASE worker[id].at \in {"connecting", "running"}
              /\ (readyState[id] = Closing => \E k \in DOMAIN commands[id] : commands[id][k].close)
    <3>1. CASE ClosesOf(id)' # {}
      BY <3>1 DEF Attended
    <3>2. CASE ClosesOf(id)' = {}
      <4>1. worker'[id].at \in {"connecting", "running"}
        BY <2>2, <2>3, <2>6, <3>2
      <4>2. CASE readyState[id] # Closing
        BY <2>2, <4>1, <4>2 DEF Attended
      <4>3. CASE readyState[id] = Closing
        <5>1. commands'[id] = commands[id]
          <6>1. CASE TakeCommands(i)
            <7>1. id # i
              <8>1. SUFFICES ASSUME id = i
                             PROVE  FALSE
                OBVIOUS
              <8>2. PICK k \in DOMAIN commands[id] : commands[id][k].close
                BY <2>6, <4>3
              <8>3. \E failed \in BOOLEAN : Finish(id, failed)
                BY <2>3, <6>1, <8>1, <8>2, TakesTheClose
              <8>4. worker'[id].at = "ended"
                BY <2>3, <8>3, FinishDoes
              <8>5. QED
                BY <4>1, <8>4
            <7>2. QED
              BY <2>1, <2>3, <6>1, <7>1 DEF TakeCommands
          <6>2. CASE Connect(i) \/ Receive(i) \/ Stop(i)
            BY <2>1, <6>2, ReportDoes
          <6>3. QED
            BY <2>1, <6>1, <6>2 DEF Work
        <5>2. QED
          BY <2>2, <2>6, <4>1, <4>3, <5>1 DEF Attended
      <4>4. QED
        BY <4>2, <4>3
    <3>3. QED
      BY <3>1, <3>2
  <2>7. QED
    BY <2>3, <2>4, <2>5, <2>6 DEF Attended
<1>10. CASE UNCHANGED vars
  BY <1>2, <1>10 DEF Attended, ClosesOf, vars, page, loader, workers
<1>11. QED
  BY <1>1, <1>3, <1>4, <1>5, <1>6, <1>7, <1>8, <1>9, <1>10 DEF Next, ScriptStep

(* A handler of socket_close that goes on constructing appends; the end of *)
(* the call, and every other call, starts anew.                            *)
LEMMA GrowthStep == TypeInv /\ Growth /\ [Next]_vars => Growth'
<1> SUFFICES ASSUME TypeInv, Growth, [Next]_vars
             PROVE  Growth'
  OBVIOUS
<1> USE DEF Destructor, Host, Call
<1>1. call \in Doing
  BY DEF TypeInv, TypeOK
<1>2. CASE Construct
  <2>1. /\ readyState' = Append(readyState, Connecting)
        /\ registered' = Append(registered, Len(readyState) + 1)
    BY <1>2 DEF Construct
  <2>2. /\ Len(readyState) \in Nat /\ Len(registered) \in Nat
        /\ registered \in Seq(Nat) /\ readyState \in Seq(Connecting .. Closed)
        /\ Connecting \in Connecting .. Closed
    <3>1. registered \in Seq(Ids) /\ Ids \subseteq Nat /\ readyState \in Seq(Connecting .. Closed)
      BY LenProperties DEF TypeInv, TypeOK, Ids
    <3>2. registered \in Seq(Nat)
      BY <3>1, SeqWider
    <3>3. QED
      BY <3>1, <3>2, LenProperties DEF Connecting, Closed
  <2>3. Len(readyState') = Len(readyState) + 1
    BY <2>1, <2>2, AppendProperties
  <2>4. /\ Len(registered') = Len(registered) + 1 /\ registered' # <<>>
        /\ registered'[Len(registered) + 1] = Len(readyState) + 1
    BY <2>1, <2>2, AppendProperties
  <2>5. registered'[Len(registered')] = Len(readyState')
    BY <2>3, <2>4
  <2>6. QED
    BY <2>4, <2>5 DEF Growth
<1>3. CASE HandlerReturns
  <2>1. \/ call' = Host
        \/ call' = [call EXCEPT !.event = "close"] /\ UNCHANGED <<registered, readyState>>
    BY <1>3 DEF HandlerReturns
  <2>2. call'.grown => call.grown /\ UNCHANGED <<registered, readyState>>
    BY <1>1, <2>1 DEF Doing
  <2>3. QED
    BY <2>2 DEF Growth
<1>4. CASE PollEvent \/ Join
  <2>1. ~call'.grown
    BY <1>4 DEF PollEvent, Join, Deliver, DeliverClose
  <2>2. QED
    BY <2>1 DEF Growth
<1>5. CASE Navigate \/ Shutdown \/ JoinStopping
  <2>1. ~call'.grown
    BY <1>5 DEF Navigate, Shutdown, JoinStopping
  <2>2. QED
    BY <2>1 DEF Growth
<1>6. CASE \E id \in Ids : Send(id) \/ Close(id)
  <2>1. UNCHANGED <<call, registered>> /\ Len(readyState') = Len(readyState)
    <3>1. PICK id \in Ids : Send(id) \/ Close(id)
      BY <1>6
    <3>2. UNCHANGED <<call, registered>> /\ DOMAIN readyState' = DOMAIN readyState
      BY <3>1 DEF Send, Close
    <3>3. readyState \in Seq(Connecting .. Closed) /\ readyState' \in Seq(Connecting .. Closed)
      BY TypeStep DEF TypeInv, TypeOK
    <3>4. QED
      BY <3>2, <3>3, LenProperties
  <2>2. QED
    BY <2>1 DEF Growth
<1>7. CASE (\E id \in Ids : Work(id)) \/ UNCHANGED vars
  <2>1. UNCHANGED <<call, registered, readyState>>
    BY <1>7, WorkDoes DEF vars, page
  <2>2. QED
    BY <2>1 DEF Growth
<1>8. QED
  BY <1>2, <1>3, <1>4, <1>5, <1>6, <1>7 DEF Next, ScriptStep

(* What a step takes out of sockets_.                                      *)
LEMMA ForgetStep ==
  ASSUME TypeInv, Growth, [Next]_vars
  PROVE  registered' = <<>> \/
         \A id \in ToSet(registered) \ ToSet(registered') :
           readyState[id] = Closed \/ (call.grown /\ id = Len(readyState))
<1>1. CASE HandlerReturns
  <2>1. CASE InHandler("close")
    <3>1. /\ registered' = Forgotten(call.id) /\ call.id \in ToSet(registered)
          /\ readyState[call.id] = Closed
      BY <1>1, <2>1 DEF HandlerReturns, InHandler, TypeInv, Shape, InSocketClose
    <3>2. CASE ~call.grown
      BY <3>1, <3>2, ForgottenKeeps
    <3>3. CASE call.grown
      <4>1. ToSet(registered) \ ToSet(registered') \subseteq {Len(readyState)}
        BY <3>1, <3>3, ForgottenKeeps DEF Growth
      <4>2. QED
        BY <3>3, <4>1
    <3>4. QED
      BY <3>2, <3>3
  <2>2. CASE ~InHandler("close")
    BY <1>1, <2>2 DEF HandlerReturns
  <2>3. QED
    BY <2>1, <2>2
<1>2. CASE Construct
  BY <1>2, ConstructDoes
<1>3. CASE registered' = registered \/ registered' = <<>>
  BY <1>3
<1>4. CASE \/ \E id \in Ids : Send(id) \/ Close(id) \/ Work(id)
           \/ PollEvent \/ Join \/ Navigate \/ Shutdown \/ JoinStopping \/ UNCHANGED vars
  BY <1>3, <1>4, WorkDoes DEF Send, Close, PollEvent, Join, Navigate, Shutdown, JoinStopping, vars, page
<1>5. QED
  BY <1>1, <1>2, <1>4 DEF Next, ScriptStep

(* The inductive invariant holds at first.                                 *)
LEMMA SocketInit == Init => SocketInv
<1> SUFFICES ASSUME Init
             PROVE  SocketInv
  OBVIOUS
<1>1. TypeInv
  BY TypeInit
<1>2. Ids = {} /\ events = <<>> /\ call = Host /\ connections = {} /\ stopping = {} /\ registered = <<>>
  BY DEF Init, Ids
<1>3. AllKept
  BY <1>2 DEF AllKept
<1>4. QED
  BY <1>1, <1>2, <1>3, KeptIsJoined
  DEF SocketInv, Threads, Attendance, Growth, ClosesOf, ToSet, Host, Destructor, Call

(* It is one.                                                              *)
LEMMA SocketInvariant == Spec => []SocketInv
<1>1. Init => SocketInv
  BY SocketInit
<1>2. SocketInv /\ [Next]_vars => SocketInv'
  BY TypeStep, ThreadsStep, AttendanceStep, GrowthStep DEF SocketInv
<1>3. QED
  BY <1>1, <1>2, PTL DEF Spec

\* Every thread that was started and not joined yet is one that poll or the
\* destructor will join, whatever the order of connects, commands, navigations and
\* the end of the program (poll_websocket_event and ~Impl of
\* curl_resource_loader.cpp).
THEOREM EveryThreadIsJoined == Spec => []EveryWorkerWillBeJoined
<1>1. SocketInv => EveryWorkerWillBeJoined
  BY DEF SocketInv, Threads
<1>2. QED
  BY <1>1, SocketInvariant, PTL

\* close() is answered: while the object waits for its close event, its thread still
\* has the command to take, or its last event or its join is under way.
THEOREM CloseIsAnswered == Spec => []CloseIsUnderWay
<1>1. SocketInv => CloseIsUnderWay
  <2> SUFFICES ASSUME SocketInv, NEW id \in ToSet(registered), readyState[id] = Closing, call # Destructor
               PROVE  \/ /\ worker[id].at \in {"connecting", "running"}
                         /\ \E k \in DOMAIN commands[id] : commands[id][k].close
                      \/ \E k \in DOMAIN events : events[k].id = id /\ events[k].type = "close"
                      \/ (call.at = "join" /\ call.id = id)
    BY DEF CloseIsUnderWay
  <2>1. Attended(id)
    BY DEF SocketInv, Attendance, Closing, Closed
  <2>2. QED
    BY <2>1 DEF Attended, ClosesOf
<1>2. QED
  BY <1>1, SocketInvariant, PTL

\* A step forgets all sockets (a navigation) or only closed ones, but for the newest
\* one after a handler of error or close has made sockets_ grow: the position that
\* socket_close found is one of the old vector (view.cpp:5283).
THEOREM OnlyClosedAreForgotten == Spec => OnlyClosedSocketsAreForgotten
<1>1. SocketInv /\ [Next]_vars =>
        [registered' = <<>> \/
           \A id \in ToSet(registered) \ ToSet(registered') :
             readyState[id] = Closed \/ (call.grown /\ id = Len(readyState))]_vars
  BY ForgetStep DEF SocketInv
<1>2. QED
  BY <1>1, SocketInvariant, PTL DEF Spec, OnlyClosedSocketsAreForgotten

-----------------------------------------------------------------------------
(* What the peer gets.                                                     *)

IsText(command) == ~command.close

\* The texts of a connection are numbered by the calls of send, first those that the
\* peer got, then those that wait.
TextsInOrder(id) ==
  /\ \A j, k \in DOMAIN delivered[id] : j < k => delivered[id][j] < delivered[id][k]
  /\ \A j, k \in DOMAIN commands[id] :
       j < k /\ IsText(commands[id][j]) /\ IsText(commands[id][k])
         => commands[id][j].n < commands[id][k].n
  /\ \A j \in DOMAIN delivered[id], k \in DOMAIN commands[id] :
       IsText(commands[id][k]) => delivered[id][j] < commands[id][k].n
  /\ \A j \in DOMAIN delivered[id] : delivered[id][j] <= sends
  /\ \A k \in DOMAIN commands[id] : IsText(commands[id][k]) => commands[id][k].n <= sends

PeerInv == \A id \in Ids : TextsInOrder(id)

(* What the handlers of an object see.                                     *)

\* The k-th event of a connection that has not failed or closed.
Entry(k) == <<IF k = 1 THEN "open" ELSE "message", k - 1>>

Plain(seen) == \A k \in DOMAIN seen : seen[k] = Entry(k)

\* The handler of error has been called last, after plain events.
Failed(seen) ==
  /\ seen # <<>> /\ seen[Len(seen)] = <<"error", 0>>
  /\ \A k \in DOMAIN seen : k < Len(seen) => seen[k] = Entry(k)

\* The part of BothEndsSeeTheProtocol that is about the handlers of one object.
Sees(seen) ==
  \A k \in DOMAIN seen :
    /\ seen[k][1] = "open" => k = 1
    /\ seen[k][1] = "message" => seen[1][1] = "open" /\ seen[k][2] = k - 1
    /\ seen[k][1] = "error" => k >= Len(seen) - 1
    /\ seen[k][1] \in {"close", "over"} => k = Len(seen)

\* The events of an object that wait, but for its Close, and the number of the last
\* event that its thread pushed: 0 for open, then those of the messages.
Waiting(id) == {k \in DOMAIN events : events[k].id = id /\ events[k].type # "close"}
LastOf(id) == IF worker[id].at = "connecting" THEN -1 ELSE worker[id].messages

\* The events that wait begin with the first one that is not logged, and go on in
\* order and without a gap, to the last one pushed as long as the thread runs.
Contiguous(id) ==
  /\ Len(log[id]) <= LastOf(id) + 1
  /\ \A k \in Waiting(id) : events[k].n \in Len(log[id]) .. LastOf(id)
  /\ worker[id].at = "running" =>
       \A n \in Len(log[id]) .. LastOf(id) : \E k \in Waiting(id) : events[k].n = n
  /\ \A k \in Waiting(id) : \A n \in Len(log[id]) .. events[k].n :
       \E j \in Waiting(id) : events[j].n = n
  /\ \A j, k \in Waiting(id) : j < k => events[j].n < events[k].n
  /\ \A k \in Waiting(id) : events[k].type = "open" <=> events[k].n = 0
  /\ worker[id].at = "connecting" => worker[id].messages = 0

\* What is logged of an object that the view still delivers to, and what waits.
Followed(id) ==
  /\ readyState[id] # Closed => Plain(log[id]) /\ worker[id].at # "joined"
  /\ readyState[id] = Closed => worker[id].at = "joined"
  /\ readyState[id] = Connecting => log[id] = <<>>
  /\ readyState[id] = Open => log[id] # <<>>
  /\ readyState[id] \in {Connecting, Open} => Contiguous(id)

PageInv ==
  /\ \A id \in Ids : Sees(log[id])
  /\ InHandler("error") => Failed(log[call.id])
  /\ call # Destructor => \A id \in ToSet(registered) : Followed(id)

(* A queue of texts, taken up to some place, follows what was delivered.   *)
LEMMA TextsFollow ==
  ASSUME NEW d \in Seq(Nat), NEW q \in Seq(Command), NEW upto \in Nat, upto <= Len(q),
         NEW kept \in Places(upto), Texts(q, kept) \in Seq(Nat), NEW most \in Nat,
         \A j, k \in DOMAIN d : j < k => d[j] < d[k],
         \A j \in DOMAIN d : d[j] <= most,
         \A k \in 1 .. upto : IsText(q[k]) /\ q[k].n <= most,
         \A j, k \in DOMAIN q : j < k /\ IsText(q[j]) /\ IsText(q[k]) => q[j].n < q[k].n,
         \A j \in DOMAIN d, k \in DOMAIN q : IsText(q[k]) => d[j] < q[k].n
  PROVE  LET c == d \o Texts(q, kept)
         IN  /\ \A j, k \in DOMAIN c : j < k => c[j] < c[k]
             /\ \A j \in DOMAIN c : c[j] <= most
<1> DEFINE e == Texts(q, kept)
           c == d \o e
<1>1. PICK m \in 0 .. upto : /\ kept \in [1 .. m -> 1 .. upto]
                             /\ \A j, k \in 1 .. m : j < k => kept[j] < kept[k]
  BY PlacesAre
<1>2. m \in Nat /\ e = [k \in 1 .. m |-> q[kept[k]].n] /\ Len(e) = m /\ DOMAIN e = 1 .. m
  <2>1. m \in Nat /\ e = [k \in 1 .. m |-> q[kept[k]].n] /\ DOMAIN e = 1 .. m
    BY <1>1 DEF Texts
  <2>2. QED
    BY <2>1, LenProperties
<1>3. /\ Len(d) \in Nat /\ DOMAIN d = 1 .. Len(d) /\ Len(q) \in Nat /\ DOMAIN q = 1 .. Len(q)
      /\ \A k \in 1 .. upto : q[k].n \in Nat
      /\ \A k \in 1 .. Len(d) : d[k] \in Nat
  <2>1. \A k \in 1 .. upto : k \in 1 .. Len(q) /\ q[k] \in Command
    BY LenProperties, ElementOfSeq
  <2>2. \A k \in 1 .. upto : q[k].n \in Nat
    BY <2>1, WebSocketsAssumption DEF Command
  <2>3. QED
    BY <2>2, LenProperties
<1> HIDE DEF e
<1>4. /\ DOMAIN c = 1 .. Len(d) + m
      /\ \A k \in 1 .. Len(d) + m : c[k] = IF k <= Len(d) THEN d[k] ELSE e[k - Len(d)]
  <2>1. /\ c \in Seq(Nat) /\ Len(c) = Len(d) + Len(e)
        /\ \A k \in 1 .. Len(d) + Len(e) : c[k] = IF k <= Len(d) THEN d[k] ELSE e[k - Len(d)]
    BY ConcatProperties DEF e
  <2>2. QED
    BY <1>2, <2>1, LenProperties
<1> HIDE DEF c
<1>5. \A k \in 1 .. m : e[k] \in Nat /\ e[k] <= most
  BY <1>1, <1>2, <1>3
<1>6. ASSUME NEW j \in 1 .. m, NEW k \in 1 .. m, j < k
      PROVE  e[j] < e[k]
  <2>1. kept[j] \in 1 .. upto /\ kept[k] \in 1 .. upto /\ kept[j] < kept[k]
    BY <1>1, <1>6
  <2>2. kept[j] \in DOMAIN q /\ kept[k] \in DOMAIN q
    BY <1>3, <2>1
  <2>3. IsText(q[kept[j]]) /\ IsText(q[kept[k]])
    BY <2>1
  <2>4. q[kept[j]].n < q[kept[k]].n
    BY <2>1, <2>2, <2>3
  <2>5. QED
    BY <1>2, <2>4
<1>7. ASSUME NEW j \in 1 .. Len(d), NEW k \in 1 .. m
      PROVE  d[j] < e[k]
  <2>1. kept[k] \in 1 .. upto /\ kept[k] \in DOMAIN q /\ IsText(q[kept[k]])
    BY <1>1, <1>3
  <2>2. QED
    BY <1>2, <1>3, <2>1
<1>8. ASSUME NEW j \in DOMAIN c, NEW k \in DOMAIN c, j < k
      PROVE  c[j] < c[k]
  <2>1. CASE k <= Len(d)
    BY <1>3, <1>4, <1>8, <2>1
  <2>2. CASE j <= Len(d) /\ k > Len(d)
    <3>1. k - Len(d) \in 1 .. m /\ j \in 1 .. Len(d)
      BY <1>2, <1>3, <1>4, <2>2
    <3>2. d[j] < e[k - Len(d)]
      BY <1>7, <3>1
    <3>3. QED
      BY <1>3, <1>4, <2>2, <3>2
  <2>3. CASE j > Len(d)
    <3>1. j - Len(d) \in 1 .. m /\ k - Len(d) \in 1 .. m /\ j - Len(d) < k - Len(d)
      BY <1>2, <1>3, <1>4, <1>8, <2>3
    <3>2. e[j - Len(d)] < e[k - Len(d)]
      BY <1>6, <3>1
    <3>3. QED
      BY <1>3, <1>4, <1>8, <2>3, <3>2
  <2>4. QED
    BY <1>2, <1>3, <1>4, <1>8, <2>1, <2>2, <2>3
<1>9. ASSUME NEW j \in DOMAIN c
      PROVE  c[j] <= most
  <2>1. CASE j <= Len(d)
    BY <1>3, <1>4, <2>1
  <2>2. CASE j > Len(d)
    <3>1. j - Len(d) \in 1 .. m /\ ~(j <= Len(d))
      BY <1>2, <1>3, <1>4, <2>2
    <3>2. c[j] = e[j - Len(d)]
      BY <1>4, <3>1
    <3>3. e[j - Len(d)] <= most
      BY <1>5, <3>1
    <3>4. QED
      BY <3>2, <3>3
  <2>3. QED
    BY <1>2, <1>3, <1>4, <2>1, <2>2
<1>10. QED
  BY <1>8, <1>9 DEF c, e

(* No step mixes up the texts of a connection.                             *)
LEMMA PeerStep == TypeInv /\ PeerInv /\ [Next]_vars => PeerInv'
<1> SUFFICES ASSUME TypeInv, PeerInv, [Next]_vars, NEW id \in Ids'
             PROVE  TextsInOrder(id)'
  BY DEF PeerInv
<1>1. /\ \A i \in Ids : commands[i] \in Seq(Command) /\ delivered[i] \in Seq(0 .. MaxSends)
      /\ sends \in Nat
  <2>1. /\ commands \in Seq(Seq(Command)) /\ delivered \in Seq(Seq(0 .. MaxSends)) /\ sends \in 0 .. MaxSends
        /\ DOMAIN commands = Ids /\ DOMAIN delivered = Ids
    BY DEF TypeInv, TypeOK, Shape
  <2>2. QED
    BY ONLY <2>1, LenProperties, WebSocketsAssumption
<1>2. ASSUME sends' = sends, id \in Ids, commands'[id] = commands[id], delivered'[id] = delivered[id]
      PROVE  TextsInOrder(id)'
  BY <1>2 DEF PeerInv, TextsInOrder
<1>3. ASSUME commands'[id] = <<>>, delivered'[id] = <<>>
      PROVE  TextsInOrder(id)'
  BY <1>3 DEF TextsInOrder
<1>4. CASE Construct
  <2>1. PICK new \in Nat :
        /\ Ids' = Ids \cup {new} /\ commands'[new] = <<>> /\ delivered'[new] = <<>>
        /\ \A i \in Ids : commands'[i] = commands[i] /\ delivered'[i] = delivered[i]
    <3>1. Len(readyState) + 1 \in Nat
      BY LenProperties DEF TypeInv, TypeOK
    <3>2. QED
      BY <1>4, <3>1, ConstructDoes
  <2>2. sends' = sends
    BY <1>4 DEF Construct
  <2>3. QED
    BY <1>2, <1>3, <2>1, <2>2
<1>5. ASSUME NEW ids, NEW command \in Command, commands' = WithCommand(commands, ids, command),
             id \in Ids, delivered' = delivered, sends' \in Nat, sends <= sends',
             IsText(command) => command.n > sends /\ command.n <= sends'
      PROVE  TextsInOrder(id)'
  <2>1. delivered'[id] = delivered[id] /\ TextsInOrder(id)
    BY <1>5 DEF PeerInv
  <2>2. /\ commands[id] \in Seq(Command) /\ Len(commands[id]) \in Nat
        /\ DOMAIN commands[id] = 1 .. Len(commands[id])
        /\ \A k \in 1 .. Len(commands[id]) : commands[id][k].n \in Int
    <3>1. commands[id] \in Seq(Command)
      BY <1>1, <1>5
    <3>2. \A k \in 1 .. Len(commands[id]) : commands[id][k] \in Command
      BY <3>1, ElementOfSeq
    <3>3. QED
      BY <3>1, <3>2, LenProperties DEF Command
  <2>3. /\ DOMAIN delivered[id] = 1 .. Len(delivered[id])
        /\ \A k \in DOMAIN delivered[id] : delivered[id][k] \in Int
    <3>1. delivered[id] \in Seq(0 .. MaxSends)
      BY <1>1, <1>5
    <3>2. \A k \in 1 .. Len(delivered[id]) : delivered[id][k] \in 0 .. MaxSends
      BY <3>1, ElementOfSeq
    <3>3. QED
      BY <3>1, <3>2, LenProperties
  <2>4. commands'[id] \in {commands[id], Append(commands[id], command)}
    <3>1. \A j \in Ids :
            WithCommand(commands, ids, command)[j] =
              IF j \in ids \cap connections /\ worker[j].at # "ended"
              THEN Append(commands[j], command) ELSE commands[j]
      BY CommandDoes
    <3>2. QED
      BY <1>5, <3>1
  <2>5. command.n \in Int
    BY DEF Command
  <2>6. /\ \A j \in DOMAIN delivered[id] : delivered[id][j] <= sends'
        /\ \A k \in DOMAIN commands[id] : IsText(commands[id][k]) => commands[id][k].n <= sends'
    <3>1. \A n \in Int : n <= sends => n <= sends'
      BY <1>1, <1>5
    <3>2. QED
      BY <2>1, <2>2, <2>3, <3>1 DEF TextsInOrder
  <2>7. CASE commands'[id] = commands[id]
    BY <2>1, <2>6, <2>7 DEF TextsInOrder
  <2>8. CASE commands'[id] = Append(commands[id], command)
    <3> DEFINE n == Len(commands[id]) + 1
               q == commands'[id]
    <3>1. /\ DOMAIN q = 1 .. n /\ q[n] = command
          /\ \A k \in 1 .. n - 1 : q[k] = commands[id][k]
      BY <2>2, <2>8, SeqAdd
    <3>2. \A j \in DOMAIN q : j = n \/ (j \in DOMAIN commands[id] /\ q[j] = commands[id][j])
      BY <2>2, <3>1
    <3>3. n \in Nat /\ \A j \in DOMAIN q : j \in Nat /\ j <= n
      BY <2>2, <3>1
    <3>4. IsText(command) =>
            /\ \A j \in DOMAIN delivered[id] : delivered[id][j] < command.n
            /\ \A k \in DOMAIN commands[id] : IsText(commands[id][k]) => commands[id][k].n < command.n
      <4>1. \A m \in Int : m <= sends /\ IsText(command) => m < command.n
        BY <1>1, <1>5, <2>5
      <4>2. QED
        BY <2>1, <2>2, <2>3, <4>1 DEF TextsInOrder
    <3> HIDE DEF n, q
    <3>5. \A k \in DOMAIN q : IsText(q[k]) => q[k].n <= sends'
      BY <1>5, <2>6, <3>1, <3>2
    <3>6. \A j \in DOMAIN delivered[id], k \in DOMAIN q : IsText(q[k]) => delivered[id][j] < q[k].n
      BY <2>1, <3>1, <3>2, <3>4 DEF TextsInOrder
    <3>7. ASSUME NEW j \in DOMAIN q, NEW k \in DOMAIN q, j < k, IsText(q[j]), IsText(q[k])
          PROVE  q[j].n < q[k].n
      <4>1. j # n
        BY <3>3, <3>7
      <4>2. CASE k = n
        BY <3>1, <3>2, <3>4, <3>7, <4>1, <4>2
      <4>3. CASE k # n
        BY <2>1, <3>2, <3>7, <4>1, <4>3 DEF TextsInOrder
      <4>4. QED
        BY <4>2, <4>3
    <3>8. QED
      BY <2>1, <2>6, <3>5, <3>6, <3>7 DEF TextsInOrder, q
  <2>9. QED
    BY <2>4, <2>7, <2>8
<1>6. CASE \E i \in Ids : Send(i)
  <2>1. PICK i \in Ids : Send(i)
    BY <1>6
  <2>2. SendCommand(sends + 1) \in Command /\ SendCommand(sends + 1).n = sends + 1
    BY <2>1, WebSocketsAssumption DEF Send, SendCommand, Command, TypeInv, TypeOK
  <2>3. id \in Ids /\ delivered' = delivered /\ sends' = sends + 1
    BY <2>1 DEF Send, workers, Ids
  <2>4. commands' = WithCommand(commands, {i}, SendCommand(sends + 1))
    BY <2>1 DEF Send
  <2>5. QED
    BY <1>1, <1>5, <2>2, <2>3, <2>4
<1>7. CASE Navigate \/ \E i \in Ids : Close(i)
  <2>1. PICK ids : commands' = WithCommand(commands, ids, CloseCommand)
    BY <1>7 DEF Navigate, Close
  <2>2. CloseCommand \in Command /\ ~IsText(CloseCommand)
    BY WebSocketsAssumption DEF CloseCommand, Command, IsText
  <2>3. id \in Ids /\ delivered' = delivered /\ sends' = sends
    <3>1. CASE Navigate
      BY <3>1 DEF Navigate, workers, Ids
    <3>2. CASE \E i \in Ids : Close(i)
      BY <3>2 DEF Close, workers, Ids
    <3>3. QED
      BY <1>7, <3>1, <3>2
  <2>4. QED
    BY <1>1, <1>5, <2>1, <2>2, <2>3
<1>8. CASE \E i \in Ids : Work(i)
  <2>1. PICK i \in Ids : Work(i)
    BY <1>8
  <2>2. UNCHANGED <<readyState, sends>> /\ id \in Ids
    BY <2>1, WorkDoes DEF Ids
  <2>3. CASE Connect(i) \/ Receive(i) \/ Stop(i)
    BY <1>2, <2>1, <2>2, <2>3, ReportDoes
  <2>4. CASE TakeCommands(i)
    <3>0. PICK end \in 1 .. Len(commands[i]) + 1 : \E kept \in Places(end - 1) :
           /\ \A k \in 1 .. end - 1 : ~commands[i][k].close
           /\ Texts(commands[i], kept) \in Seq(0 .. MaxSends)
           /\ delivered'[i] = delivered[i] \o Texts(commands[i], kept)
           /\ \A j \in Ids \ {i} : delivered'[j] = delivered[j]
           /\ \A j \in Ids : commands'[j] = IF j = i THEN <<>> ELSE commands[j]
      BY <2>4, TakeDoes
    <3>1. PICK kept \in Places(end - 1) :
           /\ \A k \in 1 .. end - 1 : ~commands[i][k].close
           /\ Texts(commands[i], kept) \in Seq(0 .. MaxSends)
           /\ delivered'[i] = delivered[i] \o Texts(commands[i], kept)
           /\ \A j \in Ids \ {i} : delivered'[j] = delivered[j]
           /\ \A j \in Ids : commands'[j] = IF j = i THEN <<>> ELSE commands[j]
      BY <3>0
    <3>2. CASE id # i
      BY <1>2, <2>2, <3>1, <3>2
    <3>3. CASE id = i
      <4>1. /\ commands[i] \in Seq(Command) /\ delivered[i] \in Seq(Nat)
            /\ Texts(commands[i], kept) \in Seq(Nat)
        <5>1. 0 .. MaxSends \subseteq Nat
          BY WebSocketsAssumption
        <5>2. QED
          BY <1>1, <3>1, <5>1, SeqMonotonic
      <4>2. end - 1 \in Nat /\ end - 1 <= Len(commands[i]) /\ Len(commands[i]) \in Nat
        BY <4>1, LenProperties
      <4>3. TextsInOrder(i)
        BY DEF PeerInv
      <4>4. \A k \in 1 .. end - 1 :
              k \in DOMAIN commands[i] /\ IsText(commands[i][k]) /\ commands[i][k].n <= sends
        BY <3>1, <4>1, <4>2, <4>3, LenProperties DEF IsText, TextsInOrder
      <4> DEFINE d == delivered[i] \o Texts(commands[i], kept)
      <4>5. /\ \A j, k \in DOMAIN d : j < k => d[j] < d[k]
            /\ \A j \in DOMAIN d : d[j] <= sends
        <5>1. /\ \A j, k \in DOMAIN delivered[i] : j < k => delivered[i][j] < delivered[i][k]
              /\ \A j \in DOMAIN delivered[i] : delivered[i][j] <= sends
              /\ \A k \in 1 .. end - 1 : IsText(commands[i][k]) /\ commands[i][k].n <= sends
              /\ \A j, k \in DOMAIN commands[i] :
                   j < k /\ IsText(commands[i][j]) /\ IsText(commands[i][k])
                     => commands[i][j].n < commands[i][k].n
              /\ \A j \in DOMAIN delivered[i], k \in DOMAIN commands[i] :
                   IsText(commands[i][k]) => delivered[i][j] < commands[i][k].n
          BY <4>3, <4>4 DEF TextsInOrder
        <5>2. QED
          BY <1>1, <4>1, <4>2, <5>1, TextsFollow, Zenon
      <4> HIDE DEF d
      <4>6. delivered'[id] = d /\ commands'[id] = <<>> /\ sends' = sends
        BY <2>2, <3>1, <3>3 DEF d
      <4>7. QED
        BY <4>5, <4>6 DEF TextsInOrder
    <3>4. QED
      BY <3>2, <3>3
  <2>5. QED
    BY <2>1, <2>3, <2>4 DEF Work
<1>9. CASE Join \/ JoinStopping
  <2>1. PICK i \in Ids : Joined(i)
    BY <1>9 DEF Join, JoinStopping, TypeInv, TypeOK, Shape
  <2>2. sends' = sends /\ id \in Ids
    <3>1. CASE Join
      <4>1. DOMAIN readyState' = DOMAIN readyState
        BY <3>1 DEF Join, DeliverClose
      <4>2. QED
        BY <3>1, <4>1 DEF Join, Ids
    <3>2. CASE JoinStopping
      BY <3>2 DEF JoinStopping, page, Ids
    <3>3. QED
      BY <1>9, <3>1, <3>2
  <2>3. /\ commands'[id] = IF id = i THEN <<>> ELSE commands[id]
        /\ delivered'[id] = IF id = i THEN <<>> ELSE delivered[id]
    BY <2>1, <2>2, JoinedDoes
  <2>4. QED
    BY <1>2, <1>3, <2>2, <2>3
<1>10. CASE PollEvent \/ HandlerReturns \/ Shutdown \/ UNCHANGED vars
  <2>1. UNCHANGED <<sends, commands, delivered>> /\ id \in Ids
    <3>1. CASE PollEvent
      <4>1. DOMAIN readyState' = DOMAIN readyState
        BY <3>1 DEF PollEvent, Deliver
      <4>2. QED
        BY <3>1, <4>1 DEF PollEvent, workers, Ids
    <3>2. CASE HandlerReturns \/ Shutdown \/ UNCHANGED vars
      BY <3>2 DEF HandlerReturns, Shutdown, vars, page, loader, workers, Ids
    <3>3. QED
      BY <1>10, <3>1, <3>2
  <2>2. QED
    BY <1>2, <2>1
<1>11. QED
  BY <1>4, <1>6, <1>7, <1>8, <1>9, <1>10 DEF Next, ScriptStep

(* A plain log, and what socket_close adds to one.                         *)
LEMMA PlainLog ==
  ASSUME NEW s \in Seq(Seen), Plain(s)
  PROVE  /\ Sees(s)
         /\ Plain(Append(s, Entry(Len(s) + 1)))
         /\ Sees(Append(s, <<"error", 0>>)) /\ Failed(Append(s, <<"error", 0>>))
         /\ Sees(Append(s, <<"close", 0>>))
<1>1. Len(s) \in Nat /\ DOMAIN s = 1 .. Len(s)
  BY LenProperties
<1>2. \A k \in 1 .. Len(s) :
        /\ s[k][1] = IF k = 1 THEN "open" ELSE "message"
        /\ s[k][2] = k - 1
  BY <1>1 DEF Plain, Entry
<1>3. Sees(s)
  BY <1>1, <1>2 DEF Sees
<1>4. \A e : /\ Len(Append(s, e)) = Len(s) + 1
             /\ DOMAIN Append(s, e) = 1 .. Len(s) + 1
             /\ \A k \in 1 .. Len(s) : Append(s, e)[k] = s[k]
             /\ Append(s, e)[Len(s) + 1] = e
  BY <1>1
<1>5. Plain(Append(s, Entry(Len(s) + 1)))
  BY <1>1, <1>4 DEF Plain
<1>6. ASSUME NEW type \in {"error", "close"}
      PROVE  Sees(Append(s, <<type, 0>>))
  <2> DEFINE l == Append(s, <<type, 0>>)
  <2>1. /\ Len(l) = Len(s) + 1 /\ DOMAIN l = 1 .. Len(s) + 1
        /\ \A k \in 1 .. Len(s) : l[k] = s[k]
        /\ l[Len(s) + 1] = <<type, 0>>
    BY <1>4
  <2>2. l[Len(s) + 1][1] = type
    BY <2>1
  <2> HIDE DEF l
  <2>3. ASSUME NEW k \in 1 .. Len(s) + 1
        PROVE  /\ l[k][1] = "open" => k = 1
               /\ l[k][1] = "message" => l[1][1] = "open" /\ l[k][2] = k - 1
               /\ l[k][1] = "error" => k >= Len(l) - 1
               /\ l[k][1] \in {"close", "over"} => k = Len(l)
    <3>1. CASE k = Len(s) + 1
      BY <1>1, <2>1, <2>2, <3>1
    <3>2. CASE k \in 1 .. Len(s)
      <4>1. 1 \in 1 .. Len(s)
        BY <1>1, <3>2
      <4>2. /\ l[1][1] = "open" /\ l[k][2] = k - 1
            /\ l[k][1] = IF k = 1 THEN "open" ELSE "message"
        BY <1>2, <2>1, <3>2, <4>1
      <4>3. QED
        BY <4>2
    <3>3. QED
      BY <1>1, <3>1, <3>2
  <2>4. QED
    BY <2>1, <2>3 DEF Sees, l
<1>7. Failed(Append(s, <<"error", 0>>))
  BY <1>1, <1>4 DEF Failed, Plain
<1>8. QED
  BY <1>3, <1>5, <1>6, <1>7

(* What socket_close adds after error.                                     *)
LEMMA FailedLog ==
  ASSUME NEW s \in Seq(Seen), Failed(s)
  PROVE  Sees(Append(s, <<"close", 0>>))
<1> DEFINE l == Append(s, <<"close", 0>>)
           n == Len(s)
<1>1. n \in Nat /\ DOMAIN s = 1 .. n /\ n >= 1
  BY LenProperties, EmptySeq DEF Failed
<1>2. /\ Len(l) = n + 1 /\ DOMAIN l = 1 .. n + 1
      /\ \A k \in 1 .. n : l[k] = s[k]
      /\ l[n + 1] = <<"close", 0>>
  BY <1>1
<1> HIDE DEF l
<1>3. ASSUME NEW k \in 1 .. n - 1
      PROVE  /\ l[k][1] = IF k = 1 THEN "open" ELSE "message"
             /\ l[k][2] = k - 1
  <2>1. k \in 1 .. n /\ k < n
    BY <1>1
  <2>2. l[k] = Entry(k)
    BY <1>1, <1>2, <2>1 DEF Failed
  <2>3. QED
    BY <2>2 DEF Entry
<1>4. l[n][1] = "error" /\ l[n + 1][1] = "close"
  BY <1>1, <1>2 DEF Failed
<1> HIDE DEF n
<1>5. ASSUME NEW k \in 1 .. n + 1
      PROVE  /\ l[k][1] = "open" => k = 1
             /\ l[k][1] = "message" => l[1][1] = "open" /\ l[k][2] = k - 1
             /\ l[k][1] = "error" => k >= Len(l) - 1
             /\ l[k][1] \in {"close", "over"} => k = Len(l)
  <2>1. CASE k \in {n, n + 1}
    BY <1>1, <1>2, <1>4, <2>1
  <2>2. CASE k \in 1 .. n - 1
    <3>1. 1 \in 1 .. n - 1
      BY <1>1, <2>2
    <3>2. /\ l[1][1] = "open" /\ l[k][2] = k - 1
          /\ l[k][1] = IF k = 1 THEN "open" ELSE "message"
      BY <1>3, <2>2, <3>1
    <3>3. QED
      BY <3>2
  <2>3. QED
    BY <1>1, <2>1, <2>2
<1>6. QED
  BY <1>2, <1>5 DEF Sees, l

(* The events of an object that wait, before and after the host takes one. *)
LEMMA WaitingTaken ==
  ASSUME TypeInv, events # <<>>, events' = Tail(events), NEW id \in Ids
  PROVE  /\ \A k \in Waiting(id) : k \in Nat /\ k >= 1 /\ events[k].n \in Nat
         /\ \A k \in Waiting(id)' : /\ k \in Nat /\ k >= 1 /\ k + 1 \in Waiting(id)
                                    /\ events'[k] = events[k + 1]
         /\ \A k \in Waiting(id) : k # 1 => /\ k - 1 \in Waiting(id)'
                                            /\ events'[k - 1] = events[k]
         /\ 1 \in Waiting(id) <=> Head(events).id = id /\ Head(events).type # "close"
         /\ Head(events) = events[1]
<1>1. /\ events \in Seq(SocketEvent) /\ Len(events) \in Nat /\ Len(events) > 0
      /\ DOMAIN events = 1 .. Len(events)
  BY LenProperties DEF TypeInv, TypeOK
<1>2. /\ DOMAIN events' = 1 .. Len(events) - 1 /\ Head(events) = events[1]
      /\ \A k \in 1 .. Len(events) - 1 : events'[k] = events[k + 1]
  BY <1>1
<1>3. ASSUME NEW k \in Waiting(id)'
      PROVE  k \in Nat /\ k >= 1 /\ k + 1 \in Waiting(id) /\ events'[k] = events[k + 1]
  <2>1. k \in 1 .. Len(events) - 1 /\ events'[k].id = id /\ events'[k].type # "close"
    BY <1>2 DEF Waiting
  <2>2. k + 1 \in 1 .. Len(events) /\ events'[k] = events[k + 1]
    BY <1>1, <1>2, <2>1
  <2>3. QED
    BY <1>1, <2>1, <2>2 DEF Waiting
<1>4. ASSUME NEW k \in Waiting(id), k # 1
      PROVE  k - 1 \in Waiting(id)' /\ events'[k - 1] = events[k]
  <2>1. k \in 2 .. Len(events) /\ events[k].id = id /\ events[k].type # "close"
    BY <1>1, <1>4 DEF Waiting
  <2>2. k - 1 \in 1 .. Len(events) - 1 /\ (k - 1) + 1 = k
    BY <1>1, <2>1
  <2>3. events'[k - 1] = events[k]
    BY <1>2, <2>2
  <2>4. QED
    BY <1>2, <2>1, <2>2, <2>3 DEF Waiting
<1>5. 1 \in Waiting(id) <=> Head(events).id = id /\ Head(events).type # "close"
  BY <1>1, <1>2 DEF Waiting
<1>6. ASSUME NEW k \in Waiting(id)
      PROVE  k \in Nat /\ k >= 1 /\ events[k].n \in Nat
  <2>1. k \in 1 .. Len(events)
    BY <1>1 DEF Waiting
  <2>2. events[k] \in SocketEvent
    BY <1>1, <2>1, ElementOfSeq
  <2>3. QED
    BY <1>1, <2>1, <2>2, WebSocketsAssumption DEF SocketEvent
<1>7. QED
  BY <1>2, <1>3, <1>4, <1>5, <1>6

(* An event pushed, before and after.                                      *)
LEMMA WaitingPushed ==
  ASSUME TypeInv, DOMAIN events' = DOMAIN events \cup {Len(events) + 1},
         \A k \in DOMAIN events : events'[k] = events[k],
         NEW id \in Ids
  PROVE  LET e == events'[Len(events) + 1]
         IN  /\ Waiting(id)' = IF e.id = id /\ e.type # "close" THEN Waiting(id) \cup {Len(events) + 1}
                               ELSE Waiting(id)
             /\ \A k \in Waiting(id) : events'[k] = events[k] /\ k \in Nat /\ k < Len(events) + 1
<1>1. DOMAIN events = 1 .. Len(events) /\ Len(events) \in Nat
  BY LenProperties DEF TypeInv, TypeOK
<1>2. QED
  BY <1>1 DEF Waiting

(* The next event that waits is the next one of the log.                   *)
LEMMA HeadIsNext ==
  ASSUME TypeInv, events # <<>>, NEW id \in Ids, Contiguous(id),
         Head(events).id = id, Head(events).type # "close"
  PROVE  Head(events).n = Len(log[id])
<1>1. /\ events \in Seq(SocketEvent) /\ Len(events) \in Nat /\ Len(events) > 0
      /\ DOMAIN events = 1 .. Len(events) /\ Head(events) = events[1]
      /\ log[id] \in Seq(Seen)
  BY LenProperties DEF TypeInv, TypeOK, Shape
<1>2. Len(log[id]) \in Nat
  BY <1>1, LenProperties
<1>3. 1 \in Waiting(id)
  BY <1>1 DEF Waiting
<1>4. LastOf(id) \in Int
  <2>1. worker[id] \in Thread
    BY DEF TypeInv, TypeOK, Shape
  <2>2. QED
    BY <2>1, WebSocketsAssumption DEF LastOf, Thread
<1>5. events[1].n \in Int /\ Len(log[id]) <= events[1].n
  BY <1>2, <1>3, <1>4 DEF Contiguous
<1>6. Len(log[id]) \in Len(log[id]) .. events[1].n
  BY <1>2, <1>5
<1>7. PICK j \in Waiting(id) : events[j].n = Len(log[id])
  BY <1>3, <1>6 DEF Contiguous
<1>8. j \in 1 .. Len(events)
  BY <1>1 DEF Waiting
<1>9. CASE j = 1
  BY <1>1, <1>7, <1>9
<1>10. CASE j # 1
  <2>1. 1 < j
    BY <1>1, <1>8, <1>10
  <2>2. events[1].n < events[j].n
    BY <1>3, <2>1 DEF Contiguous
  <2>3. QED
    BY <1>2, <1>5, <1>7, <2>2
<1>11. QED
  BY <1>9, <1>10

(* What waits goes on without a gap when the host takes an event, and logs *)
(* it if it is of this object.                                             *)
LEMMA ContiguousTaken ==
  ASSUME TypeInv, events # <<>>, events' = Tail(events), NEW id \in Ids, Contiguous(id),
         worker'[id] = worker[id], log'[id] \in Seq(Seen),
         Len(log'[id]) = IF 1 \in Waiting(id) THEN Len(log[id]) + 1 ELSE Len(log[id])
  PROVE  Contiguous(id)'
<1> DEFINE m == Len(log[id])
           last == LastOf(id)
<1>1. /\ log[id] \in Seq(Seen) /\ worker[id] \in Thread
  BY LenProperties DEF TypeInv, TypeOK, Shape
<1>2. m \in Nat /\ last \in Int /\ last' = last
  BY <1>1, LenProperties, WebSocketsAssumption DEF LastOf, Thread
<1>3. /\ \A k \in Waiting(id) : k \in Nat /\ k >= 1 /\ events[k].n \in Nat
      /\ \A k \in Waiting(id)' : /\ k \in Nat /\ k >= 1 /\ k + 1 \in Waiting(id)
                                 /\ events'[k] = events[k + 1]
      /\ \A k \in Waiting(id) : k # 1 => k - 1 \in Waiting(id)' /\ events'[k - 1] = events[k]
      /\ 1 \in Waiting(id) => events[1].n = m
  BY WaitingTaken, HeadIsNext
<1>4. /\ \A k \in Waiting(id) : events[k].n \in m .. last
      /\ worker[id].at = "running" => \A n \in m .. last : \E k \in Waiting(id) : events[k].n = n
      /\ \A k \in Waiting(id) : \A n \in m .. events[k].n : \E j \in Waiting(id) : events[j].n = n
      /\ \A j, k \in Waiting(id) : j < k => events[j].n < events[k].n
      /\ \A k \in Waiting(id) : events[k].type = "open" <=> events[k].n = 0
      /\ worker[id].at = "connecting" => worker[id].messages = 0
      /\ m <= last + 1
  BY DEF Contiguous
<1>5. PICK to \in Nat : /\ to = Len(log'[id]) /\ to >= m
                        /\ (1 \in Waiting(id) /\ to = m + 1) \/ (1 \notin Waiting(id) /\ to = m)
  <2>1. CASE 1 \in Waiting(id)
    BY <1>2, <2>1
  <2>2. CASE 1 \notin Waiting(id)
    BY <1>2, <2>2
  <2>3. QED
    BY <2>1, <2>2
<1> HIDE DEF m, last
<1>6. ASSUME NEW k \in Waiting(id)'
      PROVE  events'[k].n \in to .. last
  <2>1. k \in Nat /\ k + 1 \in Waiting(id) /\ events'[k] = events[k + 1] /\ k >= 1
    BY <1>3
  <2>2. events[k + 1].n \in m .. last
    BY <1>4, <2>1
  <2>3. 1 \in Waiting(id) => m < events[k + 1].n
    <3>1. 1 < k + 1
      BY <2>1
    <3>2. QED
      BY <1>3, <1>4, <2>1, <3>1
  <2>4. ASSUME NEW x \in m .. last, 1 \in Waiting(id) => m < x
        PROVE  x \in to .. last
    BY <1>2, <1>5, <2>4
  <2>5. events'[k].n = events[k + 1].n
    BY <2>1
  <2>6. QED
    BY <2>2, <2>3, <2>4, <2>5
<1>7. ASSUME NEW n \in Int, n >= to, NEW k \in Waiting(id), events[k].n = n
      PROVE  \E j \in Waiting(id)' : events'[j].n = n
  <2>1. k # 1
    BY <1>2, <1>3, <1>5, <1>7
  <2>2. QED
    BY <1>3, <1>7, <2>1
<1>8. ASSUME worker[id].at = "running", NEW n \in to .. last
      PROVE  \E k \in Waiting(id)' : events'[k].n = n
  <2>1. n \in m .. last /\ n \in Int /\ n >= to
    BY <1>2, <1>5
  <2>2. PICK k \in Waiting(id) : events[k].n = n
    BY <1>4, <1>8, <2>1
  <2>3. QED
    BY <1>7, <2>1, <2>2
<1>9. ASSUME NEW k \in Waiting(id)', NEW n \in to .. events'[k].n
      PROVE  \E j \in Waiting(id)' : events'[j].n = n
  <2>1. k + 1 \in Waiting(id) /\ events'[k] = events[k + 1] /\ events[k + 1].n \in Nat
    BY <1>3
  <2>2. n \in m .. events[k + 1].n /\ n \in Int /\ n >= to
    <3>1. ASSUME NEW x \in Nat, n \in to .. x
          PROVE  n \in m .. x /\ n \in Int /\ n >= to
      BY <1>2, <1>5, <3>1
    <3>2. events'[k].n = events[k + 1].n
      BY <2>1
    <3>3. n \in to .. events[k + 1].n
      BY <3>2
    <3>4. QED
      BY <2>1, <3>1, <3>3
  <2>3. PICK i \in Waiting(id) : events[i].n = n
    BY <1>4, <2>1, <2>2
  <2>4. QED
    BY <1>7, <2>2, <2>3
<1>10. ASSUME NEW j \in Waiting(id)', NEW k \in Waiting(id)', j < k
       PROVE  events'[j].n < events'[k].n
  <2>1. /\ j \in Nat /\ k \in Nat /\ j + 1 \in Waiting(id) /\ k + 1 \in Waiting(id)
        /\ events'[j] = events[j + 1] /\ events'[k] = events[k + 1]
    BY <1>3
  <2>2. j + 1 < k + 1
    BY <1>10, <2>1
  <2>3. QED
    BY <1>4, <2>1, <2>2
<1>11. ASSUME NEW k \in Waiting(id)'
       PROVE  events'[k].type = "open" <=> events'[k].n = 0
  <2>1. k + 1 \in Waiting(id) /\ events'[k] = events[k + 1]
    BY <1>3
  <2>2. events[k + 1].type = "open" <=> events[k + 1].n = 0
    BY <1>4, <2>1
  <2>3. QED
    BY <2>1, <2>2
<1>12. to <= last + 1
  <2>1. 1 \in Waiting(id) => m <= last
    BY <1>2, <1>3, <1>4
  <2>2. QED
    BY <1>2, <1>4, <1>5, <2>1
<1>13. QED
  BY <1>2, <1>4, <1>5, <1>6, <1>8, <1>9, <1>10, <1>11, <1>12 DEF Contiguous, last

(* What waits goes on without a gap when a worker pushes an event.         *)
LEMMA ContiguousPushed ==
  ASSUME TypeInv, NEW i \in Ids, Work(i), NEW id \in Ids, Contiguous(id)
  PROVE  Contiguous(id)'
<1>1. UNCHANGED log /\ worker[i].at \in {"connecting", "running"}
      /\ \A j \in Ids \ {i} : worker'[j] = worker[j]
  BY WorkDoes
<1> DEFINE m == Len(log[id])
           last == LastOf(id)
           e == events'[Len(events) + 1]
<1>2. log[id] \in Seq(Seen) /\ worker[id] \in Thread /\ worker[i] \in Thread
  BY LenProperties DEF TypeInv, TypeOK, Shape
<1>3. m \in Nat /\ last \in Int
  BY <1>2, LenProperties, WebSocketsAssumption DEF LastOf, Thread
<1>4. /\ m <= last + 1
      /\ \A k \in Waiting(id) : events[k].n \in m .. last
      /\ worker[id].at = "running" => \A n \in m .. last : \E k \in Waiting(id) : events[k].n = n
      /\ \A k \in Waiting(id) : \A n \in m .. events[k].n : \E j \in Waiting(id) : events[j].n = n
      /\ \A j, k \in Waiting(id) : j < k => events[j].n < events[k].n
      /\ \A k \in Waiting(id) : events[k].type = "open" <=> events[k].n = 0
      /\ worker[id].at = "connecting" => worker[id].messages = 0
  BY DEF Contiguous
<1>5. CASE UNCHANGED <<worker, events>>
  BY <1>1, <1>5 DEF Contiguous, Waiting, LastOf
<1>6. CASE \E failed \in BOOLEAN : Finish(i, failed)
  <2>1. PICK failed \in BOOLEAN : Finish(i, failed)
    BY <1>6
  <2>2. /\ worker'[i].at = "ended"
        /\ DOMAIN events' = DOMAIN events \cup {Len(events) + 1}
        /\ \A k \in DOMAIN events : events'[k] = events[k]
        /\ e = Event("close", i, 0, failed)
    BY <2>1, FinishDoes
  <2>3. worker'[i].messages = worker[i].messages
    BY <1>2, <2>1 DEF Finish, TypeInv, TypeOK, Shape, Thread
  <2>4. e.type = "close"
    BY <2>2 DEF Event
  <2> HIDE DEF e
  <2>5. /\ Waiting(id)' = Waiting(id)
        /\ \A k \in Waiting(id) : events'[k] = events[k]
    BY <2>2, <2>4, WaitingPushed DEF e
  <2>6. CASE id # i
    <3>1. last' = last /\ worker'[id] = worker[id] /\ log' = log
      BY <1>1, <2>6 DEF LastOf
    <3>2. QED
      BY <1>4, <2>5, <3>1 DEF Contiguous
  <2>7. CASE id = i
    <3>1. /\ worker'[id].at = "ended" /\ last' = worker[id].messages
          /\ last' \in Int /\ last <= last'
      BY <1>2, <2>2, <2>3, <2>7, WebSocketsAssumption DEF LastOf, Thread
    <3> HIDE DEF last
    <3>2. \A x \in Int : x <= last => x <= last'
      BY <1>3, <3>1
    <3>3. m <= last' + 1 /\ \A k \in Waiting(id) : events[k].n \in m .. last'
      BY <1>3, <1>4, <3>1, <3>2
    <3>4. QED
      BY <1>1, <1>4, <2>5, <3>1, <3>3 DEF Contiguous, last
  <2>8. QED
    BY <2>6, <2>7
<1>7. CASE Opens(i) \/ Says(i, worker[i].messages + 1)
  <2> DEFINE n == IF Opens(i) THEN 0 ELSE worker[i].messages + 1
  <2>1. worker[i].messages + 1 \in Nat
    BY <1>2 DEF Thread
  <2>2. /\ worker'[i].at = "running"
        /\ DOMAIN events' = DOMAIN events \cup {Len(events) + 1}
        /\ \A k \in DOMAIN events : events'[k] = events[k]
        /\ e = IF Opens(i) THEN Event("open", i, 0, FALSE)
               ELSE Event("message", i, worker[i].messages + 1, FALSE)
        /\ worker'[i].messages = IF Opens(i) THEN worker[i].messages ELSE worker[i].messages + 1
    BY <1>7, <2>1, GoesOnDoes
  <2>3. e.id = i /\ e.n = n /\ e.type = IF Opens(i) THEN "open" ELSE "message"
    BY <2>2 DEF Event
  <2>4. e.type # "close" /\ (e.type = "open" <=> e.n = 0) /\ n \in Nat
    BY <1>2, <2>1, <2>3, WebSocketsAssumption DEF Thread
  <2>5. ASSUME i = id
        PROVE  last' = n /\ n = last + 1 /\ Waiting(id)' = Waiting(id) \cup {Len(events) + 1}
    <3>1. Waiting(id)' = Waiting(id) \cup {Len(events) + 1}
      BY <2>2, <2>3, <2>4, <2>5, WaitingPushed
    <3>2. last' = worker'[i].messages
      BY <2>2, <2>5 DEF LastOf
    <3>3. CASE Opens(i)
      <4>1. worker[i].at = "connecting" /\ worker[i].messages = 0
        BY <1>4, <2>5, <3>3 DEF Opens
      <4>2. last = -1
        BY <2>5, <4>1 DEF LastOf
      <4>3. QED
        BY <2>2, <3>1, <3>2, <3>3, <4>1, <4>2
    <3>4. CASE ~Opens(i)
      <4>1. worker[i].at = "running"
        BY <1>7, <3>4 DEF Says
      <4>2. last = worker[i].messages
        BY <2>5, <4>1 DEF LastOf
      <4>3. QED
        BY <2>2, <3>1, <3>2, <3>4, <4>2
    <3>5. QED
      BY <3>3, <3>4
  <2>6. CASE id # i
    <3>1. Waiting(id)' = Waiting(id) /\ \A k \in Waiting(id) : events'[k] = events[k]
      BY <2>2, <2>3, <2>6, WaitingPushed
    <3>2. last' = last /\ worker'[id] = worker[id] /\ log' = log
      BY <1>1, <2>6 DEF LastOf
    <3>3. QED
      BY <1>4, <3>1, <3>2 DEF Contiguous
  <2>7. CASE id = i
    <3> DEFINE new == Len(events) + 1
    <3>1. /\ last' = n /\ n = last + 1 /\ n \in Nat
          /\ Waiting(id)' = Waiting(id) \cup {new}
          /\ events'[new].n = n /\ (events'[new].type = "open" <=> n = 0)
          /\ worker'[id].at = "running" /\ log' = log
      BY <1>1, <2>2, <2>3, <2>4, <2>5, <2>7
    <3>2. /\ \A k \in Waiting(id) : events'[k] = events[k] /\ k \in Nat /\ k < new
          /\ new \in Nat
      <4>1. new \in Nat
        BY LenProperties DEF TypeInv, TypeOK
      <4>2. \A k \in Waiting(id) : events'[k] = events[k] /\ k \in Nat /\ k < new
        BY <2>2, WaitingPushed
      <4>3. QED
        BY <4>1, <4>2
    <3>3. \A x \in m .. n : x = n \/ x \in m .. last
      BY <1>3, <3>1
    <3>4. \A x \in m .. last : \E k \in Waiting(id) : events[k].n = x
      <4>1. CASE worker[id].at = "running"
        BY <1>4, <4>1
      <4>2. CASE worker[id].at = "connecting"
        <5>1. last = -1
          BY <4>2 DEF LastOf
        <5>2. QED
          BY <1>3, <5>1
      <4>3. QED
        BY <1>1, <2>7, <4>1, <4>2
    <3> HIDE DEF m, last, n, new, e
    <3>5. \A k \in Waiting(id)' : events'[k].n \in m .. n
      <4>1. \A x \in m .. last : x \in m .. n
        BY <1>3, <3>1
      <4>2. n \in m .. n
        BY <1>3, <1>4, <3>1
      <4>3. QED
        BY <1>4, <3>1, <3>2, <4>1, <4>2
    <3>6. \A x \in m .. n : \E k \in Waiting(id)' : events'[k].n = x
      BY <3>1, <3>2, <3>3, <3>4
    <3>7. ASSUME NEW k \in Waiting(id)', NEW x \in m .. events'[k].n
          PROVE  \E j \in Waiting(id)' : events'[j].n = x
      <4>1. x \in m .. n
        BY <1>3, <3>1, <3>5
      <4>2. QED
        BY <3>6, <4>1
    <3>8. ASSUME NEW j \in Waiting(id)', NEW k \in Waiting(id)', j < k
          PROVE  events'[j].n < events'[k].n
      <4>1. j # new
        BY <3>1, <3>2, <3>8
      <4>2. j \in Waiting(id)
        BY <3>1, <4>1
      <4>3. CASE k = new
        <5>1. events[j].n \in m .. last
          BY <1>4, <4>2
        <5>2. events[j].n < n
          BY <1>3, <3>1, <5>1
        <5>3. QED
          BY <3>1, <3>2, <4>2, <4>3, <5>2
      <4>4. CASE k # new
        BY <1>4, <3>1, <3>2, <3>8, <4>2, <4>4
      <4>5. QED
        BY <4>3, <4>4
    <3>9. \A k \in Waiting(id)' : events'[k].type = "open" <=> events'[k].n = 0
      BY <1>4, <3>1, <3>2
    <3>10. m <= n + 1
      BY <1>3, <1>4, <3>1
    <3>11. m' = m
      BY <3>1 DEF m
    <3>12. /\ Len(log'[id]) = m /\ LastOf(id)' = n
      BY <3>1 DEF m, last
    <3>13. QED
      BY <3>1, <3>5, <3>6, <3>7, <3>8, <3>9, <3>10, <3>12 DEF Contiguous
  <2>8. QED
    BY <2>6, <2>7
<1>8. QED
  <2>1. CASE TakeCommands(i)
    BY <1>5, <1>6, <2>1, TakeDoes
  <2>2. CASE Connect(i) \/ Receive(i) \/ Stop(i)
    BY <1>6, <1>7, <2>2, ReportDoes
  <2>3. QED
    BY <2>1, <2>2 DEF Work

(* An object that a step leaves alone, or that script closes.              *)
LEMMA FollowedStays ==
  ASSUME NEW id, Followed(id), log'[id] = log[id], worker'[id] = worker[id], events' = events,
         \/ readyState'[id] = readyState[id]
         \/ readyState'[id] = Closing /\ readyState[id] # Closed
  PROVE  Followed(id)'
<1>1. Contiguous(id) => Contiguous(id)'
  BY DEF Contiguous, Waiting, LastOf
<1>2. QED
  BY <1>1 DEF Followed, Connecting, Open, Closing, Closed

(* The event that socket_open or socket_message lets through is the next   *)
(* one of the log; the events of other objects are not touched.            *)
LEMMA FollowedDelivered ==
  ASSUME TypeInv, events # <<>>, events' = Tail(events), worker' = worker,
         Head(events).type # "close", Deliver(Head(events)),
         NEW id \in Ids, id \in ToSet(registered), Followed(id), Sees(log[id])
  PROVE  Followed(id)' /\ Sees(log'[id])
<1>1. PICK event \in SocketEvent : event = Head(events)
  BY SeqTake DEF TypeInv, TypeOK
<1>2. log[id] \in Seq(Seen) /\ Len(log[id]) \in Nat
  BY LenProperties DEF TypeInv, TypeOK, Shape
<1>3. 1 \in Waiting(id) <=> event.id = id
  BY <1>1, WaitingTaken
<1>4. event.id \in Ids
  BY DEF SocketEvent
<1>5. CASE Found(event.id) /\ readyState[event.id] \in Admitted(event.type)
  <2>1. /\ readyState' = [readyState EXCEPT ![event.id] = Open]
        /\ log' = Logged(event.id, <<event.type, event.n>>)
        /\ readyState[event.id] \in {Connecting, Open}
    BY <1>1, <1>5 DEF Deliver, Admitted, Expected
  <2>2. CASE event.id = id
    <3>1. Contiguous(id) /\ Plain(log[id])
      BY <2>1, <2>2 DEF Followed, Connecting, Open, Closed
    <3>2. event.n = Len(log[id])
      BY <1>1, <2>2, <3>1, HeadIsNext
    <3>3. event.type = "open" <=> event.n = 0
      BY <1>1, <1>3, <2>2, <3>1, WaitingTaken DEF Contiguous
    <3>4. event.type \in {"open", "message"}
      BY <1>1 DEF SocketEvent
    <3>5. <<event.type, event.n>> = Entry(Len(log[id]) + 1)
      BY <1>2, <3>2, <3>3, <3>4 DEF Entry
    <3>6. log'[id] = Append(log[id], Entry(Len(log[id]) + 1))
      BY <2>1, <2>2, <3>5 DEF Logged, TypeInv, Shape
    <3>7. Plain(log'[id])
      BY <1>2, <3>1, <3>6, PlainLog
    <3>8. log'[id] \in Seq(Seen) /\ Len(log'[id]) = Len(log[id]) + 1 /\ log'[id] # <<>>
      <4>1. <<event.type, event.n>> \in Seen
        BY <3>4 DEF Seen, SocketEvent
      <4>2. Entry(Len(log[id]) + 1) \in Seen
        BY <3>5, <4>1
      <4>3. log'[id] \in Seq(Seen) /\ Len(log'[id]) = Len(log[id]) + 1
        BY <1>2, <3>6, <4>2, SeqAdd
      <4>4. log'[id] # <<>>
        BY <1>2, <4>3, EmptySeq
      <4>5. QED
        BY <4>3, <4>4
    <3>9. Contiguous(id)'
      <4>1. worker'[id] = worker[id]
        OBVIOUS
      <4>2. Len(log'[id]) = IF 1 \in Waiting(id) THEN Len(log[id]) + 1 ELSE Len(log[id])
        BY <1>3, <2>2, <3>8
      <4>3. QED
        BY <3>1, <3>8, <4>1, <4>2, ContiguousTaken
    <3>10. readyState'[id] = Open
      BY <2>1, <2>2 DEF Ids
    <3>11. worker[id].at # "joined"
      BY <2>1, <2>2 DEF Followed, Connecting, Open, Closed
    <3>12. QED
      BY <3>7, <3>8, <3>9, <3>10, <3>11, PlainLog DEF Followed, Connecting, Open, Closed
  <2>3. CASE event.id # id
    <3>1. /\ log'[id] = log[id] /\ readyState'[id] = readyState[id] /\ worker'[id] = worker[id]
      BY <2>1, <2>3 DEF Logged, TypeInv, Shape, Ids
    <3>2. Contiguous(id) => Contiguous(id)'
      <4>1. Len(log'[id]) = IF 1 \in Waiting(id) THEN Len(log[id]) + 1 ELSE Len(log[id])
        BY <1>3, <2>3, <3>1
      <4>2. QED
        BY <1>2, <3>1, <4>1, ContiguousTaken
    <3>3. QED
      BY <3>1, <3>2 DEF Followed
  <2>4. QED
    BY <2>2, <2>3
<1>6. CASE ~(Found(event.id) /\ readyState[event.id] \in Admitted(event.type))
  <2>1. UNCHANGED <<readyState, log>>
    BY <1>1, <1>6 DEF Deliver
  <2>2. ASSUME readyState[id] \in {Connecting, Open}
        PROVE  event.id # id
    <3>1. SUFFICES ASSUME event.id = id
                   PROVE  FALSE
      OBVIOUS
    <3>2. Contiguous(id) /\ (event.type = "open" <=> event.n = 0)
      BY <1>1, <1>3, <2>2, <3>1, WaitingTaken DEF Followed, Contiguous
    <3>3. event.n = Len(log[id])
      BY <1>1, <3>1, <3>2, HeadIsNext
    <3>4. readyState[id] = Connecting <=> event.type = "open"
      BY <1>2, <2>2, <3>2, <3>3, EmptySeq DEF Followed, Connecting, Open
    <3>5. QED
      BY <1>6, <2>2, <3>1, <3>4 DEF Found, Admitted, Expected
  <2>3. readyState[id] \in {Connecting, Open} => Contiguous(id)'
    <3>1. SUFFICES ASSUME readyState[id] \in {Connecting, Open}
                   PROVE  Contiguous(id)'
      OBVIOUS
    <3>2. Len(log'[id]) = IF 1 \in Waiting(id) THEN Len(log[id]) + 1 ELSE Len(log[id])
      BY <1>3, <2>1, <2>2, <3>1
    <3>3. Contiguous(id) /\ worker'[id] = worker[id] /\ log'[id] \in Seq(Seen)
      BY <1>2, <2>1, <3>1 DEF Followed
    <3>4. QED
      BY <3>2, <3>3, ContiguousTaken
  <2>4. QED
    BY <2>1, <2>3 DEF Followed
<1>7. QED
  BY <1>5, <1>6

(* No step shows the handlers of an object anything out of order.          *)
LEMMA PageStep == TypeInv /\ TypeInv' /\ Threads /\ PageInv /\ [Next]_vars => PageInv'
<1> SUFFICES ASSUME TypeInv, TypeInv', Threads, PageInv, [Next]_vars
             PROVE  PageInv'
  OBVIOUS
<1> USE DEF Destructor, Host, Call
<1>1. /\ \A i \in Ids : log[i] \in Seq(Seen) /\ Sees(log[i])
      /\ InHandler("error") => Failed(log[call.id])
      /\ call # Destructor => \A i \in ToSet(registered) : Followed(i)
      /\ \A i \in ToSet(registered) : i \in Ids
  BY LenProperties, RegisteredAreIds, SMTT(30) DEF PageInv, TypeInv, TypeOK, Shape
<1>2. CASE Construct
  <2>1. PICK new \in Nat :
        /\ new \notin Ids /\ Ids' = Ids \cup {new}
        /\ \A i \in Ids : /\ worker'[i] = worker[i] /\ readyState'[i] = readyState[i]
                          /\ log'[i] = log[i]
        /\ worker'[new].at = "connecting" /\ readyState'[new] = Connecting
        /\ worker'[new].messages = 0 /\ log'[new] = <<>>
        /\ ToSet(registered') = ToSet(registered) \cup {new}
        /\ call # Destructor /\ \A k \in DOMAIN events : events[k].id # new
        /\ UNCHANGED events
    <3>1. Len(readyState) + 1 \in Nat
      BY LenProperties DEF TypeInv, TypeOK
    <3>2. QED
      BY <1>2, <3>1, ConstructDoes
  <2>2. InHandler("error")' => Failed(log[call.id])'
    <3>1. call \in Doing /\ call' = [call EXCEPT !.grown = @ \/ (InSocketClose /\ ~HasRoom)]
      BY <1>2 DEF Construct, TypeInv, TypeOK
    <3>2. call'.at = call.at /\ call'.id = call.id /\ call'.event = call.event
      BY <3>1 DEF Doing
    <3>3. InHandler("error") => call.id \in Ids
      BY DEF InHandler, TypeInv, Shape
    <3>4. QED
      BY <1>1, <2>1, <3>2, <3>3 DEF InHandler
  <2>3. Followed(new)'
    <3>1. Waiting(new)' = {}
      BY <2>1 DEF Waiting
    <3>2. Contiguous(new)'
      <4>1. Len(log'[new]) = 0
        BY <2>1, EmptySeq
      <4>2. LastOf(new)' = -1
        BY <2>1 DEF LastOf
      <4>3. QED
        BY <2>1, <3>1, <4>1, <4>2 DEF Contiguous
    <3>3. QED
      BY <2>1, <3>2 DEF Followed, Plain, Connecting, Closed, Open
  <2>4. \A i \in ToSet(registered) : Followed(i)'
    BY <1>1, <2>1, FollowedStays
  <2>5. \A i \in Ids' : Sees(log'[i])
    BY <1>1, <2>1 DEF Sees
  <2>6. QED
    BY <2>1, <2>2, <2>3, <2>4, <2>5 DEF PageInv
<1>3. CASE \E i \in Ids : Send(i) \/ Close(i)
  <2>1. PICK i \in Ids : Send(i) \/ Close(i)
    BY <1>3
  <2>2. UNCHANGED <<registered, log, worker, events, call>>
    BY <2>1 DEF Send, Close, workers
  <2>3. \A j \in Ids : /\ \/ readyState'[j] = readyState[j]
                          \/ readyState'[j] = Closing /\ readyState[j] # Closed
    BY <2>1 DEF Send, Close, MayClose, Closing, Closed, Ids
  <2>4. Ids' = Ids
    BY <2>1 DEF Send, Close, Ids
  <2>5. call # Destructor => \A j \in ToSet(registered) : Followed(j)'
    BY <1>1, <2>2, <2>3, FollowedStays
  <2>6. QED
    BY <1>1, <2>2, <2>4, <2>5 DEF PageInv, InHandler
<1>4. CASE PollEvent
  <2>1. /\ events # <<>> /\ events' = Tail(events) /\ call = Host
        /\ UNCHANGED <<registered, worker>>
    BY <1>4 DEF PollEvent, workers
  <2>2. call # Destructor
    BY <2>1
  <2>3. CASE Head(events).type = "close"
    <3>1. UNCHANGED <<readyState, log>> /\ call'.at = "join"
      BY <1>4, <2>3 DEF PollEvent
    <3>2. ASSUME NEW i \in ToSet(registered)
          PROVE  Followed(i)'
      <4>1. Followed(i) /\ i \in Ids /\ log[i] \in Seq(Seen)
        BY <1>1, <2>2
      <4>2. 1 \notin Waiting(i)
        BY <2>1, <2>3, <4>1, WaitingTaken
      <4>3. Contiguous(i) => Contiguous(i)'
        <5>1. /\ Len(log'[i]) = IF 1 \in Waiting(i) THEN Len(log[i]) + 1 ELSE Len(log[i])
              /\ log'[i] \in Seq(Seen) /\ worker'[i] = worker[i]
          BY <2>1, <3>1, <4>1, <4>2
        <5>2. QED
          BY <2>1, <4>1, <5>1, ContiguousTaken
      <4>4. QED
        BY <2>1, <3>1, <4>1, <4>3 DEF Followed
    <3>3. QED
      BY <1>1, <2>1, <3>1, <3>2 DEF PageInv, InHandler, Ids
  <2>4. CASE Head(events).type # "close"
    <3>1. Deliver(Head(events))
      BY <1>4, <2>4 DEF PollEvent
    <3>2. \A i \in ToSet(registered) : Followed(i)' /\ Sees(log'[i])
      BY <1>1, <2>1, <2>2, <2>4, <3>1, FollowedDelivered
    <3>3. \A i \in Ids \ ToSet(registered) : log'[i] = log[i]
      BY <3>1 DEF Deliver, Found, Logged, TypeInv, Shape
    <3>4. Ids' = Ids /\ ~InHandler("error")'
      <4>1. Head(events) \in SocketEvent
        BY <2>1, SeqTake DEF TypeInv, TypeOK
      <4>2. Ids' = Ids /\ call'.event \notin {"error", "close"}
        BY <2>4, <3>1, <4>1, DeliverKeeps
      <4>3. QED
        BY <4>2 DEF InHandler
    <3>5. \A i \in Ids' : Sees(log'[i])
      BY <1>1, <3>2, <3>3, <3>4
    <3>6. QED
      BY <2>1, <3>2, <3>4, <3>5 DEF PageInv
  <2>5. QED
    BY <2>3, <2>4
<1>5. CASE Join
  <2>1. PICK i \in Ids : i = call.id
    BY <1>5 DEF Join, TypeInv, Shape
  <2>2. /\ call.at = "join" /\ Joined(i) /\ DeliverClose(i, call.event)
        /\ UNCHANGED <<registered, events>>
        /\ worker[i].at = "ended" /\ call.event \in {"error", "close"}
    BY <1>5, <2>1 DEF Join, TypeInv, Shape
  <2>3. worker'[i].at = "joined" /\ \A j \in Ids \ {i} : worker'[j] = worker[j]
    BY <2>2, JoinedDoes
  <2>4. call # Destructor /\ log \in Seq(Seq(Seen)) /\ DOMAIN log = Ids
    BY <2>2, SMTT(30) DEF TypeInv, TypeOK, Shape
  <2>5. CASE Found(i)
    <3>1. /\ readyState' = [readyState EXCEPT ![i] = Closed]
          /\ log' = Logged(i, <<call.event, 0>>)
          /\ call' = [at |-> "handler", id |-> i, event |-> call.event, grown |-> FALSE]
      BY <2>2, <2>5 DEF DeliverClose
    <3>2. Followed(i)
      BY <1>1, <2>4, <2>5 DEF Found
    <3>3. Plain(log[i])
      BY <2>2, <3>2 DEF Followed
    <3>4. log'[i] = Append(log[i], <<call.event, 0>>) /\ \A j \in Ids \ {i} : log'[j] = log[j]
      BY <2>4, <3>1 DEF Logged
    <3>5. /\ Sees(Append(log[i], <<"error", 0>>)) /\ Failed(Append(log[i], <<"error", 0>>))
          /\ Sees(Append(log[i], <<"close", 0>>))
      BY <1>1, <3>3, PlainLog
    <3>6. Ids' = Ids /\ readyState'[i] = Closed /\ \A j \in Ids \ {i} : readyState'[j] = readyState[j]
      BY <3>1 DEF Ids
    <3>7. \A j \in Ids' : Sees(log'[j])
      BY <1>1, <2>2, <3>4, <3>5, <3>6
    <3>8. InHandler("error")' => Failed(log[call.id])'
      BY <3>1, <3>4, <3>5 DEF InHandler
    <3>9. Followed(i)'
      BY <2>3, <3>6 DEF Followed, Connecting, Open, Closed
    <3>10. \A j \in ToSet(registered) \ {i} : Followed(j)'
      BY <1>1, <2>2, <2>3, <2>4, <3>4, <3>6, FollowedStays
    <3>11. QED
      BY <2>2, <3>7, <3>8, <3>9, <3>10 DEF PageInv
  <2>6. CASE ~Found(i)
    <3>1. UNCHANGED <<readyState, log>> /\ call' = Host
      BY <2>2, <2>6 DEF DeliverClose
    <3>2. \A j \in ToSet(registered) : j \in Ids \ {i}
      BY <1>1, <2>6 DEF Found
    <3>3. \A j \in ToSet(registered) : Followed(j)'
      BY <1>1, <2>2, <2>3, <2>4, <3>1, <3>2, FollowedStays
    <3>4. QED
      BY <1>1, <2>2, <3>1, <3>3 DEF PageInv, InHandler, Ids
  <2>7. QED
    BY <2>5, <2>6
<1>6. CASE HandlerReturns
  <2>1. /\ call.at = "handler" /\ UNCHANGED <<readyState, events, worker>>
        /\ call \in Doing /\ Ids' = Ids
        /\ log \in Seq(Seq(Seen)) /\ DOMAIN log = Ids
    BY <1>6 DEF HandlerReturns, loader, workers, TypeInv, TypeOK, Shape, Ids
  <2>2. call # Destructor
    BY <2>1
  <2>3. CASE InSocketClose
    <3>1. call.id \in Ids /\ readyState[call.id] = Closed
      BY <2>1, <2>3 DEF TypeInv, Shape
    <3>2. PICK i \in Ids : i = call.id
      BY <3>1
    <3>3. /\ log'[i] = (IF InHandler("error") THEN Append(log[i], <<"close", 0>>) ELSE Over)
          /\ \A j \in Ids \ {i} : log'[j] = log[j]
          /\ ~InHandler("error")'
      <4>1. CASE InHandler("error")
        <5>1. log' = Logged(i, <<"close", 0>>) /\ call' = [call EXCEPT !.event = "close"]
          BY <1>6, <3>2, <4>1 DEF HandlerReturns, InHandler
        <5>2. call'.event = "close"
          BY <2>1, <5>1 DEF Doing
        <5>3. QED
          BY <2>1, <4>1, <5>1, <5>2 DEF Logged, InHandler
      <4>2. CASE InHandler("close")
        <5>1. log' = [log EXCEPT ![i] = Over] /\ call' = Host /\ ~InHandler("error")
          BY <1>6, <3>2, <4>2 DEF HandlerReturns, InHandler
        <5>2. QED
          BY <2>1, <5>1 DEF InHandler
      <4>3. QED
        BY <2>3, <4>1, <4>2 DEF InSocketClose
    <3>4. ToSet(registered)' \subseteq ToSet(registered)
      <4>1. registered' \in {registered, Forgotten(call.id)} /\ call.id \in ToSet(registered)
        BY <1>6, <2>3 DEF HandlerReturns, TypeInv, Shape
      <4>2. QED
        BY <4>1, ForgottenKeeps
    <3>5. Sees(log'[i])
      <4>1. Sees(Over)
        BY DEF Over, Sees
      <4>2. InHandler("error") => Sees(Append(log[i], <<"close", 0>>))
        BY <1>1, <3>2, FailedLog
      <4>3. QED
        BY <3>3, <4>1, <4>2
    <3>6. i \in ToSet(registered) => Followed(i)'
      BY <1>1, <2>1, <2>2, <3>1, <3>2 DEF Followed, Connecting, Open, Closed
    <3>7. \A j \in ToSet(registered) \ {i} : Followed(j)'
      BY <1>1, <2>1, <2>2, <3>3, FollowedStays
    <3>8. \A j \in Ids' : Sees(log'[j])
      BY <1>1, <2>1, <3>3, <3>5
    <3>9. QED
      BY <3>3, <3>4, <3>6, <3>7, <3>8 DEF PageInv
  <2>4. CASE ~InSocketClose
    <3>1. UNCHANGED <<registered, log>> /\ call' = Host
      BY <1>6, <2>4 DEF HandlerReturns, InSocketClose
    <3>2. \A j \in ToSet(registered) : Followed(j)'
      BY <1>1, <2>1, <2>2, <3>1, FollowedStays
    <3>3. QED
      BY <1>1, <2>1, <3>1, <3>2 DEF PageInv, InHandler
  <2>5. QED
    BY <2>3, <2>4
<1>7. CASE Navigate
  <2>1. /\ call = Host /\ call' = call /\ registered' = <<>> /\ Ids' = Ids
        /\ log' = [id \in Ids |-> IF id \in ToSet(registered) THEN Over ELSE log[id]]
    BY <1>7 DEF Navigate, workers, Ids
  <2>2. Sees(Over)
    BY DEF Over, Sees
  <2>3. \A i \in Ids' : Sees(log'[i])
    BY <1>1, <2>1, <2>2
  <2>4. QED
    BY <2>1, <2>3 DEF PageInv, InHandler, ToSet
<1>8. CASE Shutdown \/ JoinStopping
  <2>1. UNCHANGED <<readyState, log>> /\ call' = Destructor
    BY <1>8 DEF Shutdown, JoinStopping, page
  <2>2. QED
    BY <1>1, <2>1 DEF PageInv, InHandler, Ids
<1>9. CASE \E i \in Ids : Work(i)
  <2>1. PICK i \in Ids : Work(i)
    BY <1>9
  <2>2. /\ UNCHANGED <<readyState, registered, log, call>>
        /\ worker[i].at \in {"connecting", "running"}
        /\ worker'[i].at \in {"connecting", "running", "ended"}
        /\ \A j \in Ids \ {i} : worker'[j] = worker[j]
    BY <2>1, WorkDoes
  <2>3. ASSUME NEW j \in ToSet(registered), call # Destructor
        PROVE  Followed(j)'
    <3>1. j \in Ids /\ Followed(j)
      BY <1>1, <2>3
    <3>2. Contiguous(j) => Contiguous(j)'
      BY <2>1, <3>1, ContiguousPushed
    <3>3. /\ worker[j].at = "joined" <=> worker'[j].at = "joined"
      BY <2>2, <3>1
    <3>4. QED
      BY <2>2, <3>1, <3>2, <3>3 DEF Followed
  <2>4. QED
    BY <1>1, <2>2, <2>3 DEF PageInv, InHandler, Ids
<1>10. CASE UNCHANGED vars
  <2>1. UNCHANGED <<readyState, registered, log, events, worker, call>>
    BY <1>10 DEF vars, page, loader, workers
  <2>2. call # Destructor => \A j \in ToSet(registered) : Followed(j)'
    BY <1>1, <2>1, FollowedStays
  <2>3. QED
    BY <1>1, <2>1, <2>2 DEF PageInv, InHandler, Ids
<1>11. QED
  BY <1>2, <1>3, <1>4, <1>5, <1>6, <1>7, <1>8, <1>9, <1>10 DEF Next, ScriptStep

\* What the two ends of a socket see: the handlers first open, then the peer's messages
\* in order and without a gap, then an error at most and one close; the peer the texts
\* in the order of the calls of send, each at most once (socket_open, socket_message
\* and socket_close of view.cpp, run_websocket of curl_resource_loader.cpp).
THEOREM BothEndsSee == Spec => []BothEndsSeeTheProtocol
<1> DEFINE Inv == SocketInv /\ PeerInv /\ PageInv
<1>1. Init => Inv
  <2> SUFFICES ASSUME Init
               PROVE  PeerInv /\ PageInv /\ SocketInv
    OBVIOUS
  <2>1. Ids = {} /\ call = Host /\ registered = <<>>
    BY DEF Init, Ids
  <2>2. PeerInv /\ PageInv
    BY <2>1 DEF PeerInv, PageInv, InHandler, Host, Call, ToSet
  <2>3. SocketInv
    BY SocketInit
  <2>4. QED
    BY <2>2, <2>3
<1>2. Inv /\ [Next]_vars => Inv'
  BY TypeStep, ThreadsStep, AttendanceStep, GrowthStep, PeerStep, PageStep DEF SocketInv
<1>3. Inv => BothEndsSeeTheProtocol
  <2> SUFFICES ASSUME Inv, NEW id \in Ids
               PROVE  LET seen == log[id]
                          is(k, type) == seen[k][1] = type
                      IN  /\ \A k \in DOMAIN seen :
                               /\ is(k, "open") => k = 1
                               /\ is(k, "message") => is(1, "open") /\ seen[k][2] = k - 1
                               /\ is(k, "error") => k >= Len(seen) - 1
                               /\ (is(k, "close") \/ is(k, "over")) => k = Len(seen)
                          /\ \A j, k \in DOMAIN delivered[id] :
                               j < k => delivered[id][j] < delivered[id][k]
    BY DEF BothEndsSeeTheProtocol
  <2>1. Sees(log[id]) /\ TextsInOrder(id)
    BY DEF PageInv, PeerInv
  <2>2. QED
    BY <2>1 DEF Sees, TextsInOrder
<1>4. QED
  BY <1>1, <1>2, <1>3, PTL DEF Spec
=============================================================================
