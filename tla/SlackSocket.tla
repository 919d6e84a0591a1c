----------------------------- MODULE SlackSocket -----------------------------
(***************************************************************************)
(* SlackSocketModeService of apps/notification: one WebSocket to Slack, by *)
(* which the reactions and replies of people come in that acknowledge an   *)
(* incident.  It is opened again, after a delay, whenever it is lost.      *)
(*                                                                         *)
(* Every callback is a step: the answer of Slack to the request for an     *)
(* address, an event of the socket, the timer, the end of the processing   *)
(* of an envelope, and the shutdown.  What the processing does, however    *)
(* often, is in Notification.                                              *)
(***************************************************************************)
EXTENDS Naturals, Sequences

CONSTANTS
  Envelopes,     \* events of Slack that a person causes
  MaxSockets     \* how often a socket is opened

VARIABLES
  connecting, socket,      \* fields of the service; a socket is named by its number, or 0
  reconnectTimer,          \* the field: a timer was set and has not fired
  ticking,                 \* a timer is set, and not cleared
  stopped,
  sockets,                 \* readyState of all of them: Seq(States)
  envelope, carrier        \* [Envelopes -> where it is], and the socket that brought it

States == {"CONNECTING", "OPEN", "CLOSING", "CLOSED"}

service == <<connecting, socket, reconnectTimer, ticking, stopped>>
envelopes == <<envelope, carrier>>
vars == <<service, sockets, envelopes>>

(* onModuleInit has called connect(). *)
Init ==
  /\ connecting = TRUE /\ socket = 0
  /\ reconnectTimer = FALSE /\ ticking = FALSE /\ stopped = FALSE
  /\ sockets = <<>>
  /\ envelope = [e \in Envelopes |-> "due"] /\ carrier = [e \in Envelopes |-> 0]

ScheduleReconnect ==
  IF stopped \/ reconnectTimer THEN UNCHANGED <<reconnectTimer, ticking>>
  ELSE reconnectTimer' = TRUE /\ ticking' = TRUE

(* Slack names an address, and connect() opens a socket there. *)
Connected ==
  /\ connecting /\ Len(sockets) < MaxSockets
  /\ sockets' = Append(sockets, "CONNECTING")
  /\ socket' = Len(sockets) + 1
  /\ connecting' = FALSE
  /\ UNCHANGED <<reconnectTimer, ticking, stopped, envelopes>>

(* It does not answer within ten seconds, or refuses. *)
ConnectFails ==
  /\ connecting
  /\ ScheduleReconnect
  /\ connecting' = FALSE
  /\ UNCHANGED <<socket, stopped, sockets, envelopes>>

TimerFiresKeepingIt ==
  /\ ticking
  /\ ticking' = FALSE
  /\ connecting' = (connecting \/ (~stopped /\ socket = 0))
  /\ UNCHANGED <<reconnectTimer, socket, stopped, sockets, envelopes>>

(* The timer calls connect(), which does nothing while there is a socket. *)
TimerFires ==
  /\ ticking
  /\ ticking' = FALSE /\ reconnectTimer' = FALSE
  /\ connecting' = (connecting \/ (~stopped /\ socket = 0))
  /\ UNCHANGED <<socket, stopped, sockets, envelopes>>

Opened(s) ==
  /\ sockets[s] = "CONNECTING"
  /\ sockets' = [sockets EXCEPT ![s] = "OPEN"]
  /\ UNCHANGED <<service, envelopes>>

(* An envelope of type "disconnect": Slack wants the socket closed. *)
Disconnect(s) ==
  /\ sockets[s] = "OPEN"
  /\ sockets' = [sockets EXCEPT ![s] = "CLOSING"]
  /\ UNCHANGED <<service, envelopes>>

(* The close event, for whatever reason; an error event comes before it. *)
Close(s) ==
  /\ sockets[s] # "CLOSED"
  /\ sockets' = [sockets EXCEPT ![s] = "CLOSED"]
  /\ socket' = IF socket = s THEN 0 ELSE socket
  /\ ScheduleReconnect
  /\ UNCHANGED <<connecting, stopped, envelopes>>

(* onModuleDestroy: a request under way is not given up. *)
Stop ==
  /\ ~stopped
  /\ stopped' = TRUE /\ ticking' = FALSE
  /\ sockets' = [s \in DOMAIN sockets |->
                   IF s = socket /\ sockets[s] # "CLOSED" THEN "CLOSING" ELSE sockets[s]]
  /\ UNCHANGED <<connecting, socket, reconnectTimer, envelopes>>

(* receive(): Slack sends what is not acknowledged by any open socket. *)
Receive(e, s) ==
  /\ envelope[e] = "due" /\ sockets[s] = "OPEN"
  /\ envelope' = [envelope EXCEPT ![e] = "processed"]
  /\ carrier' = [carrier EXCEPT ![e] = s]
  /\ UNCHANGED <<service, sockets>>

(* After the await the socket may have been closed: no acknowledgement then. *)
Acknowledge(e) ==
  /\ envelope[e] = "processed"
  /\ envelope' = [envelope EXCEPT ![e] = IF sockets[carrier[e]] = "OPEN" THEN "acknowledged" ELSE "due"]
  /\ UNCHANGED <<service, sockets, carrier>>

ProcessFails(e) ==
  /\ envelope[e] = "processed"
  /\ envelope' = [envelope EXCEPT ![e] = "due"]
  /\ UNCHANGED <<service, sockets, carrier>>

Next ==
  \/ Connected \/ ConnectFails \/ TimerFires \/ Stop
  \/ \E s \in DOMAIN sockets : Opened(s) \/ Disconnect(s) \/ Close(s)
  \/ \E e \in Envelopes : Acknowledge(e) \/ ProcessFails(e) \/ \E s \in DOMAIN sockets : Receive(e, s)

Spec == Init /\ [][Next]_vars

-----------------------------------------------------------------------------
(* Until it is stopped the service has one socket that is not closed, or is  *)
(* about to open one and has none: it never goes deaf, and no envelope comes *)
(* by two sockets at a time.  The field that holds the socket, the one that  *)
(* says it is being opened and the timer are each set and reset elsewhere.   *)
NeverDeaf ==
  ~stopped =>
    /\ socket # 0 \/ connecting \/ ticking
    /\ \A s \in DOMAIN sockets : sockets[s] # "CLOSED" <=> s = socket

=============================================================================
