------------------------------- MODULE OnCall -------------------------------
(***************************************************************************)
(* Who is on call: OnCallController of apps/api over the repositories of   *)
(* packages/database, and OnCallResolver of packages/notifications, for    *)
(* one schedule.  A shift is added in three calls of the database - is the *)
(* schedule enabled, does it overlap another, the insert - and so is an    *)
(* override; the schedule is read, and written back whole.                 *)
(*                                                                         *)
(* Instants are numbers; a range holds its start and not its end.          *)
(***************************************************************************)
EXTENDS Naturals, FiniteSets

CONSTANTS
  Contacts, NoContact, Editors,
  Ranges,         \* of which the entries may be: set of [start, end]
  MaxEntries      \* how many entries there are, and are being added

VARIABLES
  enabled,               \* of the schedule
  shifts, overrides,     \* sets of [contact, start, end]
  editor,                \* [Editors -> the request: where it stands]
  raced                  \* an entry was checked while one that overlaps it was being added

vars == <<enabled, shifts, overrides, editor, raced>>

Instants == {r.start : r \in Ranges} \union {r.end : r \in Ranges}
NoEntry == [contact |-> NoContact, start |-> 0, end |-> 0]
Idle == [at |-> "idle", table |-> "shifts", entry |-> NoEntry, enables |-> FALSE]

Init ==
  /\ enabled = TRUE /\ shifts = {} /\ overrides = {}
  /\ editor = [x \in Editors |-> Idle] /\ raced = FALSE

Table(name) == IF name = "shifts" THEN shifts ELSE overrides

Overlaps(a, b) == a.start < b.end /\ b.start < a.end

HasOverlapWithin(table, entry) ==
  \E v \in table : v.start <= entry.start /\ entry.start < v.end

(* hasOverlap() *)
HasOverlap(table, entry) == \E v \in table : Overlaps(v, entry)

-----------------------------------------------------------------------------
Adding == {x \in Editors : editor[x].at \in {"check", "insert"}}

(* addShift, addOverride: for a schedule that is enabled. *)
Add(x) ==
  /\ editor[x] = Idle /\ enabled
  /\ Cardinality(shifts) + Cardinality(overrides) + Cardinality(Adding) < MaxEntries
  /\ \E table \in {"shifts", "overrides"}, c \in Contacts, r \in Ranges :
       editor' = [editor EXCEPT ![x] =
         [at |-> "check", table |-> table, enables |-> FALSE,
          entry |-> [contact |-> c, start |-> r.start, end |-> r.end]]]
  /\ UNCHANGED <<enabled, shifts, overrides, raced>>

Check(x) ==
  /\ editor[x].at = "check"
  /\ editor' = [editor EXCEPT ![x] =
       IF HasOverlap(Table(editor[x].table), editor[x].entry) THEN Idle
       ELSE [editor[x] EXCEPT !.at = "insert"]]
  /\ raced' = (raced \/ \E y \in Editors :
                  /\ editor[y].at = "insert" /\ editor[y].table = editor[x].table
                  /\ Overlaps(editor[y].entry, editor[x].entry))
  /\ UNCHANGED <<enabled, shifts, overrides>>

Insert(x) ==
  /\ editor[x].at = "insert"
  /\ LET e == editor[x].entry
         onShifts == editor[x].table = "shifts"
     IN /\ shifts' = IF onShifts THEN shifts \union {e} ELSE shifts
        /\ overrides' = IF onShifts THEN overrides ELSE overrides \union {e}
  /\ editor' = [editor EXCEPT ![x] = Idle]
  /\ UNCHANGED <<enabled, raced>>

(* update: `enabled' is what the request says, or what it was when read. *)
Patch(x) ==
  /\ editor[x] = Idle
  /\ \E b \in BOOLEAN : editor' = [editor EXCEPT ![x].at = "patch", ![x].enables = b]
  /\ UNCHANGED <<enabled, shifts, overrides, raced>>

Write(x) ==
  /\ editor[x].at = "patch"
  /\ enabled' = editor[x].enables
  /\ editor' = [editor EXCEPT ![x] = Idle]
  /\ UNCHANGED <<shifts, overrides, raced>>

Next == \E x \in Editors : Add(x) \/ Check(x) \/ Insert(x) \/ Patch(x) \/ Write(x)

Spec == Init /\ [][Next]_vars

-----------------------------------------------------------------------------
(* OnCallResolver.resolve                                                   *)

(* findActive(): of those of now the latest, or NoEntry. *)
FindActive(table, at) ==
  LET now == {v \in table : v.start <= at /\ at < v.end}
  IN IF now = {} THEN NoEntry
     ELSE CHOOSE v \in now : \A w \in now : w.start <= v.start

(* The contact of the override or else of the shift, and until when. *)
Resolve(at) ==
  LET shift == FindActive(shifts, at)
      override == FindActive(overrides, at)
  IN IF ~enabled \/ shift = NoEntry THEN [contact |-> NoContact, validUntil |-> 0]
     ELSE IF override = NoEntry THEN [contact |-> shift.contact, validUntil |-> shift.end]
     ELSE [contact |-> override.contact,
           validUntil |-> IF override.end < shift.end THEN override.end ELSE shift.end]

(* Who is said to be on call until an instant is on call until then, as long  *)
(* as no override begins before it - of which validUntil does not know - and  *)
(* no entry was added while one that overlaps it was.                           *)
AssignmentLasts ==
  ~raced => \A t \in Instants :
    LET said == Resolve(t)
    IN \A u \in Instants :
         t <= u /\ u < said.validUntil /\ (\A o \in overrides : ~(t < o.start /\ o.start <= u)) =>
           Resolve(u).contact = said.contact

=============================================================================
