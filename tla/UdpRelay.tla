------------------------------ MODULE UdpRelay ------------------------------
(***************************************************************************)
(* src/protocol/socks5/udp_associate.rs: one UDP association.  relay_loop  *)
(* spawns a task for every datagram; a client address that is not in       *)
(* client_map gets a socket of its own and a listener task that sends the  *)
(* answers back; the loop ends with the TCP control channel.               *)
(***************************************************************************)
EXTENDS Naturals, Sequences, SequencesExt, FiniteSets

CONSTANTS Clients,     \* client addresses (UDP source addresses)
          Targets,     \* target addresses in the SOCKS5 header
          Sockets,     \* the sockets that can be bound, in the order of use
          Packets,     \* datagrams in processing at a time (slots, used again)
          None         \* no socket, no address

ASSUME NoneAssumption    == None \notin Sockets \union Clients \union Targets
ASSUME SocketsAssumption == IsFiniteSet(Sockets)

VARIABLES control,     \* is the TCP control channel open, relay_loop running?
          task,        \* the task of each datagram: where it is and what it knows
          clientMap,   \* client_map
          listener,    \* the listener of each socket
          inbox,       \* answers that wait in each socket's receive buffer, by sender
          sent         \* <<socket, client, target>>: who has been sent to from where, for whom

vars == <<control, task, clientMap, listener, inbox, sent>>

Idle == [at |-> "none", client |-> None, target |-> None, socket |-> None]
Unbound == [at |-> "none", client |-> None, label |-> None]

TaskState == {"none", "received", "binding", "send"}

TypeOK ==
    /\ control \in {"open", "closed"}
    /\ task \in [Packets -> [at : TaskState, client : Clients \union {None},
                             target : Targets \union {None}, socket : Sockets \union {None}]]
    /\ clientMap \in [Clients -> Sockets \union {None}]
    /\ listener \in [Sockets -> [at : {"none", "listening", "ended"},
                                 client : Clients \union {None}, label : Targets \union {None}]]
    /\ inbox \in [Sockets -> Seq(Targets)]
    /\ sent \subseteq Sockets \X Clients \X Targets

Init == /\ control = "open"
        /\ task = [p \in Packets |-> Idle]
        /\ clientMap = [c \in Clients |-> None]
        /\ listener = [s \in Sockets |-> Unbound]
        /\ inbox = [s \in Sockets |-> <<>>]
        /\ sent = {}

-----------------------------------------------------------------------------
(* relay_loop                                                              *)

\* recv_from: a well-formed datagram of c for t gets a task.  A malformed one is parsed
\* by its task and dropped: nothing changes.
Receive(p, c, t) == /\ control = "open"
                    /\ task[p] = Idle
                    /\ task' = [task EXCEPT ![p] = [Idle EXCEPT !.at = "received", !.client = c,
                                                                !.target = t]]
                    /\ UNCHANGED <<control, clientMap, listener, inbox, sent>>

\* The control channel closes, or recv_from fails: the loop ends.  Nothing else is told.
ControlCloses == /\ control = "open"
                 /\ control' = "closed"
                 /\ UNCHANGED <<task, clientMap, listener, inbox, sent>>

-----------------------------------------------------------------------------
(* handle_udp_packet                                                       *)

\* Mutant: the socket of any client will do.
AnyClientsSocket(c) == IF \E d \in Clients : clientMap[d] # None
                       THEN CHOOSE s \in Sockets : \E d \in Clients : clientMap[d] = s
                       ELSE None

\* client_map.get(&client_addr)
SocketOf(c) == clientMap[c]

\* The entry decides which way the task goes; the bind that follows a miss is awaited.
Lookup(p) == /\ task[p].at = "received"
             /\ LET s == SocketOf(task[p].client)
                IN  task' = [task EXCEPT ![p].at = IF s = None THEN "binding" ELSE "send",
                                         ![p].socket = s]
             /\ UNCHANGED <<control, clientMap, listener, inbox, sent>>

\* Mutant: the listener is given its two addresses the wrong way round.
EnterSwapped(s, c, t) == /\ clientMap' = [clientMap EXCEPT ![c] = s]
                         /\ listener' = [listener EXCEPT ![s] =
                                           [at |-> "listening", client |-> t, label |-> c]]

\* Mutant: a task that finds, after its bind, another entry leaves out the listener.
ListenIfFirst(s, c, t) == /\ clientMap' = [clientMap EXCEPT ![c] = s]
                          /\ listener' = IF clientMap[c] # None THEN listener
                                         ELSE [listener EXCEPT ![s] =
                                                 [at |-> "listening", client |-> c, label |-> t]]

\* The new socket is entered, whatever the map holds now, and its listener spawned.
Enter(s, c, t) == /\ clientMap' = [clientMap EXCEPT ![c] = s]
                  /\ listener' = [listener EXCEPT ![s] =
                                    [at |-> "listening", client |-> c, label |-> t]]

BindSocket(p, s) == /\ task[p].at = "binding"
                    /\ listener[s].at = "none"
                    /\ Enter(s, task[p].client, task[p].target)
                    /\ task' = [task EXCEPT ![p].at = "send", ![p].socket = s]
                    /\ UNCHANGED <<control, inbox, sent>>

\* The name is resolved and the payload sent, and the task is over.
Send(p) == /\ task[p].at = "send"
           /\ sent' = sent \union {<<task[p].socket, task[p].client, task[p].target>>}
           /\ task' = [task EXCEPT ![p] = Idle]
           /\ UNCHANGED <<control, clientMap, listener, inbox>>

\* bind, resolve_target_addr or send_to fails: the task ends, map and listener stay.
TaskFails(p) == /\ task[p].at \in {"binding", "send"}
                /\ task' = [task EXCEPT ![p] = Idle]
                /\ UNCHANGED <<control, clientMap, listener, inbox, sent>>

-----------------------------------------------------------------------------
(* Targets (external)                                                      *)

\* A target that has been sent to answers.  One answer of each target waits at a time;
\* a socket that nobody reads any more is left out.
Respond(s, t) == /\ \E c \in Clients : <<s, c, t>> \in sent
                 /\ listener[s].at = "listening"
                 /\ ~Contains(inbox[s], t)
                 /\ inbox' = [inbox EXCEPT ![s] = Append(@, t)]
                 /\ UNCHANGED <<control, task, clientMap, listener, sent>>

-----------------------------------------------------------------------------
(* listen_for_responses                                                    *)

\* Mutant: the listener looks its socket up in the map, where another may have been entered,
\* or the entry removed by the other's listener.
ForwardIfEntered(s) == /\ listener[s].at = "listening" /\ clientMap[listener[s].client] = s
                       /\ inbox[s] # <<>>
                       /\ inbox' = [inbox EXCEPT ![s] = Tail(@)]
                       /\ UNCHANGED <<control, task, clientMap, listener, sent>>

\* The oldest answer goes to the listener's client, under the address `label`.
Forward(s) == /\ listener[s].at = "listening"
              /\ inbox[s] # <<>>
              /\ inbox' = [inbox EXCEPT ![s] = Tail(@)]
              /\ UNCHANGED <<control, task, clientMap, listener, sent>>

\* Mutant: the entry is left behind.
NoCleanUp(c) == UNCHANGED clientMap

\* client_map.remove(&client_addr): whatever socket the entry holds by now.
CleanUp(c) == clientMap' = [clientMap EXCEPT ![c] = None]

\* recv_from or send_to fails.
ListenerFails(s) == /\ listener[s].at = "listening"
                    /\ listener' = [listener EXCEPT ![s].at = "ended"]
                    /\ CleanUp(listener[s].client)
                    /\ inbox' = [inbox EXCEPT ![s] = <<>>]
                    /\ UNCHANGED <<control, task, sent>>

-----------------------------------------------------------------------------

TaskStep(p) == \/ Lookup(p) \/ Send(p) \/ TaskFails(p)
               \/ \E s \in Sockets : BindSocket(p, s)

Next == \/ \E p \in Packets, c \in Clients, t \in Targets : Receive(p, c, t)
        \/ ControlCloses
        \/ \E p \in Packets : TaskStep(p)
        \/ \E s \in Sockets, t \in Targets : Respond(s, t)
        \/ \E s \in Sockets : Forward(s) \/ ListenerFails(s)

SafeSpec == Init /\ [][Next]_vars

\* The runtime runs every task that is ready.
Fairness == /\ \A p \in Packets : WF_vars(TaskStep(p))
            /\ \A s \in Sockets : WF_vars(Forward(s))

Spec == SafeSpec /\ Fairness

-----------------------------------------------------------------------------
(* Properties                                                              *)

\* An entry of the map leads to a socket whose answers somebody reads, for this very
\* client: also after two tasks entered a socket for the same client, and
\* after one of their listeners ended (udp_associate.rs:117-135, :246).
EntriesAreLive == \A c \in Clients : clientMap[c] # None =>
                      /\ listener[clientMap[c]].at = "listening"
                      /\ listener[clientMap[c]].client = c

\* A socket a task sends from has, or had until it failed, a listener for its client: no
\* answer is left unread because two tasks raced (udp_associate.rs:117-135).
SendersHaveListeners == \A p \in Packets : task[p].at = "send" =>
                            /\ listener[task[p].socket].at # "none"
                            /\ listener[task[p].socket].client = task[p].client

\* Seen by its clients: who has asked whom, and the answers that wait, by client.
Relay == INSTANCE Association
    WITH open   <- control = "open",
         asked  <- {<<x[2], x[3]>> : x \in sent},
         coming <- [c \in Clients |-> [t \in Targets |->
                      Cardinality({s \in Sockets : /\ listener[s].client = c
                                                   /\ Contains(inbox[s], t)})]]

\* Each client gets the answers to its own datagrams and no others, and none is forgotten while
\* the control channel is open, however the tasks of several clients, or of one, overlap in
\* lookup, bind and insert, and whichever listeners fail (udp_associate.rs:85-142, :219-248).
AssociationSpec == Relay!Spec

\* While the control channel is open an answer that has come in is sent on unless its listener
\* fails, on every socket: also on one whose entry another task has replaced by its own, or
\* another socket's listener has removed (udp_associate.rs:121, :227-237, :246).
AnswersAreForwarded ==
    \A s \in Sockets, t \in Targets :
        Contains(inbox[s], t) ~> ~Contains(inbox[s], t) \/ control = "closed"

-----------------------------------------------------------------------------
(* What comments and tests say and the code does not do                    *)

\* tests/socks5_test.rs:444: "Test that TCP control channel closure stops UDP relay".
ListenersStop ==
    control = "closed" ~> \A s \in Sockets : listener[s].at # "listening"
=============================================================================
