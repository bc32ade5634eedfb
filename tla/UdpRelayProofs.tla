--------------------------- MODULE UdpRelayProofs ---------------------------
(***************************************************************************)
(* Theorems about UdpRelay for every set of clients, targets and datagrams *)
(* in processing, and every finite set of sockets.                         *)
(***************************************************************************)
EXTENDS UdpRelay, FiniteSetTheorems, TLAPS

\* What a task knows where it is.
TasksKnow == \A p \in Packets :
                /\ task[p].at # "none" => task[p].client \in Clients /\ task[p].target \in Targets
                /\ task[p].at = "send" => task[p].socket \in Sockets

\* Only a socket with a listener, once it has one, is used; it is used for the listener's
\* client.
SocketsServe == /\ \A s \in Sockets : listener[s].at # "none" => listener[s].client \in Clients
                /\ \A x \in sent : /\ listener[x[1]].at # "none"
                                   /\ listener[x[1]].client = x[2]

\* Only what is listened to holds answers, one of each target.
Inboxes == \A s \in Sockets :
              /\ inbox[s] # <<>> => listener[s].at = "listening"
              /\ \A i, j \in 1 .. Len(inbox[s]) : inbox[s][i] = inbox[s][j] => i = j

IInv == TypeOK /\ TasksKnow /\ EntriesAreLive /\ SendersHaveListeners /\ SocketsServe /\ Inboxes

-----------------------------------------------------------------------------
(* The inductive invariant                                                 *)

\* An association starts with an empty map and no socket.
LEMMA InitInv == Init => IInv
  BY DEF Init, IInv, TypeOK, TasksKnow, EntriesAreLive, SendersHaveListeners, SocketsServe,
         Inboxes, Idle, Unbound, TaskState

\* The values of `task`, as TypeOK has them.
Tasks == [Packets -> [at : TaskState, client : Clients \union {None},
                      target : Targets \union {None}, socket : Sockets \union {None}]]

\* A task that gets its socket is still a task.
LEMMA TaskMoves ==
  ASSUME TypeOK, NEW p \in Packets, NEW a \in TaskState, NEW s \in Sockets \union {None}
  PROVE  [task EXCEPT ![p].at = a, ![p].socket = s] \in Tasks
<1> DEFINE moved == [task EXCEPT ![p].at = a]
<1>1. moved \in Tasks
  <2>1. task \in Tasks
    BY DEF TypeOK, Tasks
  <2> QED BY <2>1 DEF Tasks
<1>2. ASSUME NEW m \in Tasks PROVE [m EXCEPT ![p].socket = s] \in Tasks
  BY <1>2 DEF Tasks
<1> QED BY <1>1, <1>2

\* A new task knows its client and target, and nothing else changes.
LEMMA ReceivePreserves ==
  ASSUME IInv, NEW p \in Packets, NEW c \in Clients, NEW t \in Targets, Receive(p, c, t)
  PROVE  IInv'
<1> USE DEF IInv, Receive
<1>1. TypeOK'
  BY DEF TypeOK, Idle, TaskState
<1>2. TasksKnow' /\ SendersHaveListeners'
  BY DEF TypeOK, TasksKnow, SendersHaveListeners, Idle
<1>3. EntriesAreLive' /\ SocketsServe' /\ Inboxes'
  BY DEF EntriesAreLive, SocketsServe, Inboxes
<1> QED BY <1>1, <1>2, <1>3

\* A hit in the map leads to a socket that has a listener for this very client.
LEMMA LookupPreserves ==
  ASSUME IInv, NEW p \in Packets, Lookup(p)
  PROVE  IInv'
<1> USE DEF IInv, Lookup, SocketOf
<1>1. task[p].client \in Clients
  BY DEF TasksKnow
<1>2. TypeOK'
  <2>1. clientMap[task[p].client] \in Sockets \union {None}
    BY <1>1 DEF TypeOK
  <2>2. task' \in Tasks
    BY <2>1, TaskMoves DEF TaskState
  <2> QED BY <2>2 DEF TypeOK, Tasks
<1>3. TasksKnow'
  BY <1>1 DEF TypeOK, TasksKnow
<1>4. SendersHaveListeners'
  BY <1>1 DEF TypeOK, SendersHaveListeners, EntriesAreLive
<1>5. EntriesAreLive' /\ SocketsServe' /\ Inboxes'
  BY DEF EntriesAreLive, SocketsServe, Inboxes
<1> QED BY <1>2, <1>3, <1>4, <1>5

\* The new socket was nobody's, so no entry, task or answer is left without its listener.
LEMMA BindSocketPreserves ==
  ASSUME IInv, NEW p \in Packets, NEW s \in Sockets, BindSocket(p, s)
  PROVE  IInv'
<1> USE DEF IInv, BindSocket, Enter
<1>1. task[p].client \in Clients /\ task[p].target \in Targets
  BY DEF TasksKnow
<1>2. TypeOK'
  <2>1. task' \in Tasks
    BY TaskMoves DEF TaskState
  <2>2. clientMap' \in [Clients -> Sockets \union {None}]
    BY <1>1 DEF TypeOK
  <2>3. listener' \in [Sockets -> [at : {"none", "listening", "ended"},
                                  client : Clients \union {None}, label : Targets \union {None}]]
    BY <1>1 DEF TypeOK
  <2> QED BY <2>1, <2>2, <2>3 DEF TypeOK, Tasks
<1>3. TasksKnow'
  BY <1>1 DEF TypeOK, TasksKnow
<1>4. SendersHaveListeners'
  BY <1>1 DEF TypeOK, SendersHaveListeners, TasksKnow
<1>5. EntriesAreLive'
  BY <1>1, NoneAssumption DEF TypeOK, EntriesAreLive
<1>6. SocketsServe' /\ Inboxes'
  BY <1>1 DEF TypeOK, SocketsServe, Inboxes
<1> QED BY <1>2, <1>3, <1>4, <1>5, <1>6

\* What is sent goes out through a socket with a listener for the sender's client.
LEMMA SendPreserves ==
  ASSUME IInv, NEW p \in Packets, Send(p)
  PROVE  IInv'
<1> USE DEF IInv, Send
<1>1. /\ task[p].client \in Clients /\ task[p].target \in Targets
      /\ task[p].socket \in Sockets
  BY DEF TasksKnow
<1>2. TypeOK'
  BY <1>1 DEF TypeOK, Idle, TaskState
<1>3. TasksKnow' /\ SendersHaveListeners'
  BY DEF TypeOK, TasksKnow, SendersHaveListeners, Idle
<1>4. SocketsServe'
  BY <1>1 DEF SocketsServe, SendersHaveListeners
<1>5. EntriesAreLive' /\ Inboxes'
  BY DEF EntriesAreLive, Inboxes
<1> QED BY <1>2, <1>3, <1>4, <1>5

\* A task that fails leaves the map and the listeners as they are.
LEMMA TaskFailsPreserves ==
  ASSUME IInv, NEW p \in Packets, TaskFails(p)
  PROVE  IInv'
<1> USE DEF IInv, TaskFails
<1>1. TypeOK' /\ TasksKnow' /\ SendersHaveListeners'
  BY DEF TypeOK, TasksKnow, SendersHaveListeners, Idle, TaskState
<1>2. EntriesAreLive' /\ SocketsServe' /\ Inboxes'
  BY DEF EntriesAreLive, SocketsServe, Inboxes
<1> QED BY <1>1, <1>2

\* An answer that comes in was not waiting yet.
LEMMA RespondPreserves ==
  ASSUME IInv, NEW s \in Sockets, NEW t \in Targets, Respond(s, t)
  PROVE  IInv'
<1> USE DEF IInv, Respond
<1>1. inbox[s] \in Seq(Targets)
  BY DEF TypeOK
<1>2. inbox' = [inbox EXCEPT ![s] = Append(inbox[s], t)] /\ Append(inbox[s], t) \in Seq(Targets)
  BY <1>1
<1>3. TypeOK'
  BY <1>2 DEF TypeOK
<1>4. Inboxes'
  BY <1>1, <1>2 DEF TypeOK, Inboxes, Contains
<1>5. TasksKnow' /\ EntriesAreLive' /\ SendersHaveListeners' /\ SocketsServe'
  BY DEF TasksKnow, EntriesAreLive, SendersHaveListeners, SocketsServe
<1> QED BY <1>3, <1>4, <1>5

\* The oldest answer leaves the buffer.
LEMMA ForwardPreserves ==
  ASSUME IInv, NEW s \in Sockets, Forward(s)
  PROVE  IInv'
<1> USE DEF IInv, Forward
<1>1. inbox[s] \in Seq(Targets)
  BY DEF TypeOK
<1>2. inbox' = [inbox EXCEPT ![s] = Tail(inbox[s])] /\ Tail(inbox[s]) \in Seq(Targets)
  BY <1>1
<1>3. TypeOK'
  BY <1>2 DEF TypeOK
<1>4. Inboxes'
  BY <1>1, <1>2 DEF TypeOK, Inboxes
<1>5. TasksKnow' /\ EntriesAreLive' /\ SendersHaveListeners' /\ SocketsServe'
  BY DEF TasksKnow, EntriesAreLive, SendersHaveListeners, SocketsServe
<1> QED BY <1>3, <1>4, <1>5

\* A listener that ends takes the entry of its client with it, also when that one leads to
\* another socket; no other entry leads to its own.
LEMMA ListenerFailsPreserves ==
  ASSUME IInv, NEW s \in Sockets, ListenerFails(s)
  PROVE  IInv'
<1> USE DEF IInv, ListenerFails, CleanUp
<1>1. listener[s].client \in Clients
  BY DEF SocketsServe
<1>2. TypeOK'
  <2>1. clientMap' \in [Clients -> Sockets \union {None}]
    BY <1>1 DEF TypeOK
  <2>2. listener' \in [Sockets -> [at : {"none", "listening", "ended"},
                                  client : Clients \union {None}, label : Targets \union {None}]]
    BY DEF TypeOK
  <2>3. inbox' \in [Sockets -> Seq(Targets)]
    BY DEF TypeOK
  <2> QED BY <2>1, <2>2, <2>3 DEF TypeOK
<1>3. TasksKnow' /\ SendersHaveListeners'
  BY DEF TypeOK, TasksKnow, SendersHaveListeners
<1>4. EntriesAreLive'
  BY <1>1 DEF TypeOK, EntriesAreLive
<1>5. SocketsServe'
  BY <1>1 DEF TypeOK, SocketsServe
<1>6. Inboxes'
  BY DEF TypeOK, Inboxes
<1> QED BY <1>2, <1>3, <1>4, <1>5, <1>6

\* Every step preserves the invariant.
LEMMA NextPreserves == IInv /\ [Next]_vars => IInv'
<1> SUFFICES ASSUME IInv, [Next]_vars PROVE IInv'
  OBVIOUS
<1>1. ASSUME NEW p \in Packets, TaskStep(p) PROVE IInv'
  BY <1>1, LookupPreserves, SendPreserves, TaskFailsPreserves, BindSocketPreserves DEF TaskStep
<1>2. ASSUME NEW s \in Sockets, Forward(s) \/ ListenerFails(s) PROVE IInv'
  BY <1>2, ForwardPreserves, ListenerFailsPreserves
<1>3. CASE ControlCloses \/ UNCHANGED vars
  BY <1>3 DEF ControlCloses, vars, IInv, TypeOK, TasksKnow, EntriesAreLive,
              SendersHaveListeners, SocketsServe, Inboxes
<1> QED BY <1>1, <1>2, <1>3, ReceivePreserves, RespondPreserves DEF Next

\* The invariant of the association, in every behaviour, whatever is fair.
LEMMA Invariance == SafeSpec => []IInv
  BY InitInv, NextPreserves, PTL DEF SafeSpec

\* The variables keep their types.
THEOREM TypeCorrect == SafeSpec => []TypeOK
<1>1. IInv => TypeOK
  BY DEF IInv
<1> QED BY <1>1, Invariance, PTL

\* Whatever tasks race for an entry and whichever listeners fail, an entry of client_map leads
\* to a socket whose answers are read for this client (udp_associate.rs:117-135, :246).
THEOREM EntriesAlwaysLive == SafeSpec => []EntriesAreLive
<1>1. IInv => EntriesAreLive
  BY DEF IInv
<1> QED BY <1>1, Invariance, PTL

\* A task never sends from a socket nobody was ever set to read for its client
\* (udp_associate.rs:117-135).
THEOREM SendersAlwaysHaveListeners == SafeSpec => []SendersHaveListeners
<1>1. IInv => SendersHaveListeners
  BY DEF IInv
<1> QED BY <1>1, Invariance, PTL

-----------------------------------------------------------------------------
(* The refinement of Association                                           *)

\* The sockets where an answer of t waits for c.
Holding(c, t) == {s \in Sockets : listener[s].client = c /\ Contains(inbox[s], t)}

\* Association's variables, as UdpRelay gives them to it.
Asked  == {<<x[2], x[3]>> : x \in sent}
Coming == [c \in Clients |-> [t \in Targets |-> Cardinality(Holding(c, t))]]

\* The number of these sockets is a number.
LEMMA HoldingFinite ==
  ASSUME NEW c, NEW t
  PROVE  IsFiniteSet(Holding(c, t)) /\ Cardinality(Holding(c, t)) \in Nat
<1>1. IsFiniteSet(Holding(c, t))
  BY SocketsAssumption, FS_Subset DEF Holding
<1> QED BY <1>1, FS_CardinalityType

\* Association sees nothing of a step that moves no answer and sends nothing.
LEMMA Unseen ==
  ASSUME control' = control, sent' = sent,
         \A c \in Clients, t \in Targets : Holding(c, t)' = Holding(c, t)
  PROVE  UNCHANGED Relay!vars
<1>1. Asked' = Asked
  BY DEF Asked
<1>2. Coming' = Coming
  BY DEF Coming
<1> QED BY <1>1, <1>2 DEF Relay!vars, Asked, Coming, Holding

\* A step in which no buffer changes, nor the client of a socket that holds something.
LEMMA SameAnswers ==
  ASSUME inbox' = inbox, TypeOK,
         \A s \in Sockets : inbox[s] # <<>> => listener'[s].client = listener[s].client
  PROVE  \A c \in Clients, t \in Targets : Holding(c, t)' = Holding(c, t)
<1>1. ASSUME NEW s \in Sockets, NEW t, Contains(inbox[s], t) PROVE inbox[s] # <<>>
  BY <1>1 DEF Contains, TypeOK
<1> QED BY <1>1 DEF Holding

\* The number of answers of one target to one client is all that changes.
LEMMA ComingChanges ==
  ASSUME NEW c \in Clients, NEW t \in Targets, NEW n, Cardinality(Holding(c, t))' = n,
         \A d \in Clients, u \in Targets :
             <<d, u>> # <<c, t>> => Holding(d, u)' = Holding(d, u)
  PROVE  Coming' = [Coming EXCEPT ![c][t] = n]
<1>1. \A u \in Targets \ {t} : Cardinality(Holding(c, u))' = Cardinality(Holding(c, u))
  OBVIOUS
<1>2. \A d \in Clients \ {c}, u \in Targets :
          Cardinality(Holding(d, u))' = Cardinality(Holding(d, u))
  OBVIOUS
<1>3. Coming'[c] = [Coming[c] EXCEPT ![t] = n]
  BY <1>1 DEF Coming
<1>4. \A d \in Clients \ {c} : Coming'[d] = Coming[d]
  BY <1>2 DEF Coming
<1> QED BY <1>3, <1>4 DEF Coming

\* A datagram that goes out is a question of its client.
LEMMA SendRefines ==
  ASSUME IInv, NEW p \in Packets, Send(p)
  PROVE  Relay!Next
<1>1. PICK s \in Sockets, c \in Clients, t \in Targets : sent' = sent \union {<<s, c, t>>}
  BY DEF Send, IInv, TasksKnow
<1>2. Asked' = Asked \union {<<c, t>>}
  <2>1. <<s, c, t>>[2] = c /\ <<s, c, t>>[3] = t
    OBVIOUS
  <2> QED BY <1>1, <2>1 DEF Asked
<1>3. Coming' = Coming
  BY SameAnswers DEF Send, IInv, Coming
<1>4. Relay!Ask(c, t)
  BY <1>2, <1>3 DEF Send, Relay!Ask, Asked, Coming, Holding
<1> QED BY <1>4 DEF Relay!Next

\* An answer that comes in is one more for the client that asked.
LEMMA RespondRefines ==
  ASSUME IInv, NEW s \in Sockets, NEW t \in Targets, Respond(s, t)
  PROVE  Relay!Next
<1>1. PICK c \in Clients : c = listener[s].client
  BY DEF Respond, IInv, SocketsServe
<1>2. <<c, t>> \in Asked
  BY <1>1 DEF Respond, IInv, SocketsServe, Asked
<1>3. Asked' = Asked
  BY DEF Respond, Asked
<1>4. inbox[s] \in Seq(Targets) /\ inbox' = [inbox EXCEPT ![s] = Append(inbox[s], t)]
  BY DEF Respond, IInv, TypeOK
<1>5. ASSUME NEW u \in Targets
      PROVE  Contains(Append(inbox[s], t), u) <=> Contains(inbox[s], u) \/ u = t
  BY <1>4 DEF Contains
<1>6. s \notin Holding(c, t) /\ Holding(c, t)' = Holding(c, t) \union {s}
  BY <1>1, <1>4, <1>5 DEF Respond, IInv, TypeOK, Holding
<1>7. ASSUME NEW d \in Clients, NEW u \in Targets, <<d, u>> # <<c, t>>
      PROVE  Holding(d, u)' = Holding(d, u)
  BY <1>1, <1>4, <1>5, <1>7 DEF Respond, IInv, TypeOK, Holding
<1>8. Cardinality(Holding(c, t))' = Cardinality(Holding(c, t)) + 1
  BY <1>6, HoldingFinite, FS_AddElement
<1>9. Coming' = [Coming EXCEPT ![c][t] = @ + 1]
  <2>1. Coming[c][t] = Cardinality(Holding(c, t))
    BY <1>1 DEF Coming
  <2> QED BY <1>1, <1>7, <1>8, <2>1, ComingChanges
<1>10. Relay!Answer(c, t)
  BY <1>2, <1>3, <1>9 DEF Respond, Relay!Answer, Asked, Coming, Holding
<1> QED BY <1>1, <1>10 DEF Relay!Next

\* An answer that is sent on is one less, and its client gets it.
LEMMA ForwardRefines ==
  ASSUME IInv, NEW s \in Sockets, Forward(s)
  PROVE  Relay!Next
<1>1. PICK c \in Clients : c = listener[s].client
  BY DEF Forward, IInv, SocketsServe
<1>2. inbox[s] \in Seq(Targets) /\ inbox[s] # <<>>
      /\ inbox' = [inbox EXCEPT ![s] = Tail(inbox[s])]
  BY DEF Forward, IInv, TypeOK
<1>3. Asked' = Asked
  BY DEF Forward, Asked
<1>4. PICK t \in Targets : t = inbox[s][1] /\ Contains(inbox[s], t)
  BY <1>2 DEF Contains
<1>5. ASSUME NEW u \in Targets
      PROVE  Contains(Tail(inbox[s]), u) <=> Contains(inbox[s], u) /\ u # t
  <2>1. \A i, j \in 1 .. Len(inbox[s]) : inbox[s][i] = inbox[s][j] => i = j
    BY DEF IInv, Inboxes
  <2>2. /\ Len(Tail(inbox[s])) = Len(inbox[s]) - 1
        /\ \A i \in 1 .. Len(inbox[s]) - 1 : Tail(inbox[s])[i] = inbox[s][i + 1]
    BY <1>2
  <2>3. ASSUME Contains(Tail(inbox[s]), u) PROVE Contains(inbox[s], u) /\ u # t
    <3>1. PICK i \in 1 .. Len(inbox[s]) - 1 : inbox[s][i + 1] = u
      BY <2>2, <2>3 DEF Contains
    <3>2. i + 1 \in 1 .. Len(inbox[s]) /\ i + 1 # 1 /\ 1 \in 1 .. Len(inbox[s])
      BY <1>2, <3>1
    <3> QED BY <1>4, <2>1, <3>1, <3>2 DEF Contains
  <2>4. ASSUME Contains(inbox[s], u), u # t PROVE Contains(Tail(inbox[s]), u)
    <3>1. PICK i \in 1 .. Len(inbox[s]) : inbox[s][i] = u
      BY <2>4 DEF Contains
    <3>2. i - 1 \in 1 .. Len(inbox[s]) - 1 /\ (i - 1) + 1 = i
      BY <1>2, <1>4, <2>4, <3>1
    <3> QED BY <2>2, <3>1, <3>2 DEF Contains
  <2> QED BY <2>3, <2>4
<1>6. s \in Holding(c, t) /\ Holding(c, t)' = Holding(c, t) \ {s}
  <2>1. s \in Holding(c, t)
    BY <1>1, <1>4 DEF Holding
  <2>2. ~Contains(inbox'[s], t)
    BY <1>2, <1>4, <1>5 DEF IInv, TypeOK
  <2>3. \A x \in Sockets \ {s} : inbox'[x] = inbox[x]
    BY <1>2
  <2>4. listener' = listener
    BY DEF Forward
  <2> QED BY <2>1, <2>2, <2>3, <2>4 DEF Holding
<1>7. ASSUME NEW d \in Clients, NEW u \in Targets, <<d, u>> # <<c, t>>
      PROVE  Holding(d, u)' = Holding(d, u)
  BY <1>1, <1>2, <1>5, <1>7 DEF Forward, IInv, TypeOK, Holding
<1>8. /\ Cardinality(Holding(c, t))' = Cardinality(Holding(c, t)) - 1
      /\ Cardinality(Holding(c, t)) > 0
  BY <1>6, HoldingFinite, FS_RemoveElement, FS_EmptySet
<1>9. Coming[c][t] > 0 /\ Coming' = [Coming EXCEPT ![c][t] = @ - 1]
  <2>1. Coming[c][t] = Cardinality(Holding(c, t))
    BY <1>1, <1>4 DEF Coming
  <2>2. Coming' = [Coming EXCEPT ![c][t] = Cardinality(Holding(c, t)) - 1]
    BY <1>7, <1>8, ComingChanges
  <2> QED BY <1>8, <2>1, <2>2
<1>10. Relay!Deliver(c, t)
  BY <1>3, <1>9 DEF Forward, Relay!Deliver, Asked, Coming, Holding
<1> QED BY <1>1, <1>4, <1>10 DEF Relay!Next

\* With a listener go the answers in its buffer, one of each target.
LEMMA ListenerFailsRefines ==
  ASSUME IInv, NEW s \in Sockets, ListenerFails(s)
  PROVE  Relay!Next \/ UNCHANGED Relay!vars
<1> DEFINE lost == {t \in Targets : Contains(inbox[s], t)}
<1>1. PICK c \in Clients : c = listener[s].client
  BY DEF ListenerFails, IInv, SocketsServe
<1>2. /\ inbox \in [Sockets -> Seq(Targets)] /\ inbox' = [inbox EXCEPT ![s] = <<>>]
      /\ \A x \in Sockets : listener'[x].client = listener[x].client
      /\ control' = control /\ sent' = sent
  BY DEF ListenerFails, IInv, TypeOK
<1>3. \A u : ~Contains(<<>>, u)
  BY DEF Contains
<1>4. ASSUME NEW t \in lost PROVE s \in Holding(c, t) /\ Holding(c, t)' = Holding(c, t) \ {s}
  BY <1>1, <1>2, <1>3 DEF Holding
<1>5. ASSUME NEW d \in Clients, NEW t \in Targets, d # c \/ t \notin lost
      PROVE  Holding(d, t)' = Holding(d, t)
  BY <1>1, <1>2, <1>3, <1>5 DEF Holding
<1>6. ASSUME NEW t \in lost
      PROVE  /\ Cardinality(Holding(c, t))' = Cardinality(Holding(c, t)) - 1
             /\ Cardinality(Holding(c, t)) > 0
  BY <1>4, HoldingFinite, FS_RemoveElement, FS_EmptySet
<1>7. CASE lost = {}
  BY <1>2, <1>5, <1>7, Unseen
<1>8. CASE lost # {}
  <2>1. lost \in (SUBSET {t \in Targets : Coming[c][t] > 0}) \ {{}}
    <3>1. \A t \in lost : Coming[c][t] > 0
      BY <1>1, <1>6 DEF Coming
    <3> QED BY <1>8, <3>1
  <2>2. Coming' = [Coming EXCEPT ![c] = [t \in Targets |-> IF t \in lost THEN @[t] - 1 ELSE @[t]]]
    <3>1. \A t \in Targets : Coming[c][t] = Cardinality(Holding(c, t))
                             /\ Coming'[c][t] = Cardinality(Holding(c, t))'
      BY DEF Coming
    <3>2. \A t \in Targets : Coming'[c][t] = IF t \in lost THEN Coming[c][t] - 1
                                                         ELSE Coming[c][t]
      BY <1>1, <1>5, <1>6, <3>1
    <3>3. \A d \in Clients \ {c} : Coming'[d] = Coming[d]
      BY <1>5 DEF Coming
    <3>4. Coming'[c] = [t \in Targets |-> IF t \in lost THEN Coming[c][t] - 1 ELSE Coming[c][t]]
      BY <1>1, <3>2 DEF Coming
    <3> QED BY <3>3, <3>4 DEF Coming
  <2>3. Asked' = Asked
    BY <1>2 DEF Asked
  <2>4. Relay!Lose(c)
    BY <1>2, <2>1, <2>2, <2>3 DEF Relay!Lose, Asked, Coming, Holding
  <2> QED BY <1>1, <2>4 DEF Relay!Next
<1> QED BY <1>7, <1>8

\* Every step is one of Association, or one it does not see.
LEMMA StepRefines ==
  ASSUME IInv, [Next]_vars
  PROVE  [Relay!Next]_(Relay!vars)
<1>1. ASSUME control' = control, sent' = sent, inbox' = inbox, listener' = listener
      PROVE  UNCHANGED Relay!vars
  BY <1>1, SameAnswers, Unseen DEF IInv
<1>2. ASSUME NEW p \in Packets, NEW s \in Sockets, BindSocket(p, s) PROVE UNCHANGED Relay!vars
  <2>1. inbox[s] = <<>>
    BY <1>2 DEF BindSocket, IInv, Inboxes
  <2>2. control' = control /\ inbox' = inbox /\ sent' = sent
        /\ \A x \in Sockets \ {s} : listener'[x] = listener[x]
    BY <1>2 DEF BindSocket, Enter, IInv, TypeOK
  <2> QED BY <2>1, <2>2, SameAnswers, Unseen DEF IInv
<1>3. ASSUME NEW p \in Packets, TaskStep(p) PROVE Relay!Next \/ UNCHANGED Relay!vars
  BY <1>1, <1>2, <1>3, SendRefines DEF TaskStep, Lookup, TaskFails
<1>4. ASSUME NEW p \in Packets, NEW c \in Clients, NEW t \in Targets, Receive(p, c, t)
      PROVE  UNCHANGED Relay!vars
  BY <1>1, <1>4 DEF Receive
<1>5. CASE ControlCloses
  <2>1. Asked' = Asked
    BY <1>5 DEF ControlCloses, Asked
  <2>2. Coming' = Coming
    BY <1>5, SameAnswers DEF ControlCloses, IInv, Coming
  <2>3. Relay!Close
    BY <1>5, <2>1, <2>2 DEF ControlCloses, Relay!Close, Asked, Coming, Holding
  <2> QED BY <2>3 DEF Relay!Next
<1>6. CASE UNCHANGED vars
  BY <1>1, <1>6 DEF vars
<1> QED BY <1>3, <1>4, <1>5, <1>6, RespondRefines, ForwardRefines, ListenerFailsRefines DEF Next

\* A UDP association gives every client the answers to its own datagrams and no others, and
\* loses with a socket no more than what its buffer holds, for any number of clients, targets
\* and sockets (udp_associate.rs:85-142, :219-248).  That nobody is forgotten is
\* left to TLC.
THEOREM ImplementsAssociation == SafeSpec => Relay!SafeSpec
<1>1. Init => Relay!Init
  <2> SUFFICES ASSUME Init PROVE Relay!Init
    OBVIOUS
  <2>1. Asked = {}
    BY DEF Init, Asked
  <2>2. \A c \in Clients, t \in Targets : Holding(c, t) = {}
    BY DEF Init, Holding, Contains
  <2>3. Coming = [c \in Clients |-> [t \in Targets |-> 0]]
    BY <2>2, FS_EmptySet DEF Coming
  <2> QED BY <2>1, <2>3 DEF Init, Relay!Init, Asked, Coming, Holding
<1>2. IInv /\ [Next]_vars => [Relay!Next]_(Relay!vars)
  BY StepRefines
<1> QED BY <1>1, <1>2, Invariance, PTL DEF SafeSpec, Relay!SafeSpec
=============================================================================
