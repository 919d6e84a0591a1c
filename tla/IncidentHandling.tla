-------------------------- MODULE IncidentHandling --------------------------
(***************************************************************************)
(* The incidents; the Slack ticket of one of them; the connection by which *)
(* Slack tells of those who acknowledge one; and who is on call.  These    *)
(* take nothing from the incidents that changes while they move - a ticket *)
(* no more than the version of its incident - so that they need not move   *)
(* together: a behaviour is one of the four.                               *)
(***************************************************************************)
EXTENDS Incidents

CONSTANTS
  MaxChanges, MaxRequests, MaxTicketFaults,                \* of SlackTickets
  Envelopes, MaxSockets,                                   \* of SlackSocket
  Contacts, NoContact, Editors, Ranges, MaxEntries         \* of OnCall

ASSUME HandlingAssumption ==
  /\ MaxChanges \in Nat \ {0} /\ {MaxRequests, MaxTicketFaults, MaxSockets, MaxEntries} \subseteq Nat
  /\ NoContact \notin Contacts
  /\ \A r \in Ranges : r.start \in Nat /\ r.end \in Nat /\ r.start < r.end

VARIABLES
  part,
  published, handled, asking, requests, asked, task, claims, ticket, messages,
  replies, ticketFaults, raced, repeated, unanswered, missed, broken,
  connecting, socket, reconnectTimer, ticking, stopped, sockets, envelope, carrier,
  enabled, shifts, overrides, editor, overlapping

Tickets == INSTANCE SlackTickets WITH
             MaxEvents <- MaxChanges, MaxFaults <- MaxTicketFaults, faults <- ticketFaults
Socket == INSTANCE SlackSocket
Roster == INSTANCE OnCall WITH raced <- overlapping

ticketVars == <<published, handled, asking, requests, asked, task, claims, ticket, messages,
                replies, ticketFaults, raced, repeated, unanswered, missed, broken>>
socketVars == <<connecting, socket, reconnectTimer, ticking, stopped, sockets, envelope, carrier>>
rosterVars == <<enabled, shifts, overrides, editor, overlapping>>
handlingVars == <<part, vars, ticketVars, socketVars, rosterVars>>

HandlingInit ==
  /\ part \in {"incidents", "ticket", "socket", "roster"}
  /\ Init /\ (part # "incidents" => story = CHOOSE s \in Stories : TRUE)
  /\ Tickets!Init /\ Socket!Init /\ Roster!Init

HandlingNext ==
  \/ part = "incidents" /\ Next /\ UNCHANGED <<part, ticketVars, socketVars, rosterVars>>
  \/ part = "ticket" /\ Tickets!Next /\ UNCHANGED <<part, vars, socketVars, rosterVars>>
  \/ part = "socket" /\ Socket!Next /\ UNCHANGED <<part, vars, ticketVars, rosterVars>>
  \/ part = "roster" /\ Roster!Next /\ UNCHANGED <<part, vars, ticketVars, socketVars>>

HandlingSpec == HandlingInit /\ [][HandlingNext]_handlingVars

-----------------------------------------------------------------------------
(* What SlackTickets says of the ticket: the incident has one message, unless *)
(* two creations raced or an answer of Slack was lost.                        *)
OneTicketMessage == Tickets!OneTicketMessage

(* A claim is of an update that is in the thread, and of no other; what is in *)
(* it besides was taken by requests whose answer was lost.                    *)
ClaimsAreHonest == Tickets!ClaimsAreHonest

(* The ticket ends as the incident does. *)
TicketShowsTheEnd == Tickets!TicketShowsTheEnd

(* What SlackSocket says of the connection: there is one, or there will be. *)
NeverDeaf == Socket!NeverDeaf

(* What OnCall says of who is on call: they are until then. *)
AssignmentLasts == Roster!AssignmentLasts

=============================================================================
