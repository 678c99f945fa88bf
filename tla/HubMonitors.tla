----------------------------- MODULE HubMonitors -----------------------------
(***************************************************************************)
(* The executive monitor of app/hub/worker.py over one day.  The clock      *)
(* shows the part of the day: 0 before 08:30, part i from the i-th slot on, *)
(* the last one after 20:00.  A round reads the clock once and then awaits  *)
(* the CRM for every request, while the clock goes on.  The CRM is          *)
(* external: it keeps a slot once, and delivers the pending notifications   *)
(* one per request.                                                         *)
(***************************************************************************)
EXTENDS Naturals, FiniteSets

CONSTANTS Slots,            \* slots of the executive brief: 1 .. Slots
          DispatchLimit,    \* notifications a round dispatches at most
          MaxPending,       \* bound: notifications that become pending
          MaxErrors         \* bound: requests that raise, and restarts

ASSUME MonitorsAssumption ==
    /\ Slots \in Nat \ {0}
    /\ DispatchLimit \in Nat \ {0}
    /\ MaxPending \in Nat /\ MaxErrors \in Nat

VARIABLES clock,       \* the part of the day
          round,       \* [at, now, slot, sent] of the executive monitor
          scheduled,   \* slots the CRM was asked for
          pending,     \* notifications that wait in the CRM
          created,     \* notifications created so far
          covered,     \* the part of the day of the last round without an error
          errors

monitorsVars ==
    <<clock, round, scheduled, pending, created, covered, errors>>

Closed == Slots + 1
Sleeping == [at |-> "sleep", now |-> 0, slot |-> 0, sent |-> 0]

MonitorsInit ==
    /\ clock = 0
    /\ round = Sleeping
    /\ scheduled = {}
    /\ pending = 0 /\ created = 0 /\ covered = 0
    /\ errors = 0

Window(now) == now \in 1 .. Slots

\* Mutant: a round schedules only the latest slot.
FirstDueLatest(now) == now

\* Every due slot is scheduled again in every round, the earliest first.
FirstDue(now) == 1

Wake ==
    /\ round.at = "sleep"
    /\ IF Window(clock)
       THEN /\ round' = [at |-> "schedule", now |-> clock, slot |-> FirstDue(clock),
                         sent |-> 0]
            /\ UNCHANGED covered
       ELSE /\ covered' = clock
            /\ UNCHANGED round
    /\ UNCHANGED <<clock, scheduled, pending, created, errors>>

\* The CRM keeps the slot although its answer may be lost; the exception ends
\* the round, without the later slots and without the dispatch.
Schedule ==
    /\ round.at = "schedule"
    /\ \/ /\ scheduled' = scheduled \cup {round.slot}
          /\ round' = IF round.slot = round.now
                      THEN [round EXCEPT !.at = "dispatch"]
                      ELSE [round EXCEPT !.slot = @ + 1]
          /\ UNCHANGED errors
       \/ /\ errors < MaxErrors
          /\ errors' = errors + 1
          /\ scheduled' \in {scheduled, scheduled \cup {round.slot}}
          /\ round' = Sleeping
    /\ UNCHANGED <<clock, pending, created, covered>>

DispatchesEnough == round.sent + 1 = DispatchLimit

EndRound == round' = Sleeping /\ covered' = round.now

Dispatch ==
    /\ round.at = "dispatch"
    /\ \/ /\ pending = 0
          /\ EndRound
          /\ UNCHANGED <<pending, errors>>
       \/ /\ pending > 0
          /\ pending' = pending - 1
          /\ IF DispatchesEnough
             THEN EndRound
             ELSE round' = [round EXCEPT !.sent = @ + 1] /\ UNCHANGED covered
          /\ UNCHANGED errors
       \/ /\ errors < MaxErrors
          /\ errors' = errors + 1
          /\ round' = Sleeping
          /\ UNCHANGED <<pending, covered>>
    /\ UNCHANGED <<clock, scheduled, created>>

\* A review that was completed finds something to say.
Notify ==
    /\ scheduled # {} /\ created < MaxPending
    /\ created' = created + 1
    /\ pending' = pending + 1
    /\ UNCHANGED <<clock, round, scheduled, covered, errors>>

\* The parts of the day are hours long and the rounds thirty seconds apart.
ClockMoves ==
    /\ clock < Closed
    /\ clock' = clock + 1
    /\ UNCHANGED <<round, scheduled, pending, created, covered, errors>>

\* The hub is restarted in the middle of a round.
Restart ==
    /\ round.at # "sleep"
    /\ errors < MaxErrors
    /\ errors' = errors + 1
    /\ round' = Sleeping
    /\ UNCHANGED <<clock, scheduled, pending, created, covered>>

MonitorsNext ==
    \/ Wake \/ Schedule \/ Dispatch \/ Notify \/ ClockMoves \/ Restart

MonitorsSpec == MonitorsInit /\ [][MonitorsNext]_monitorsVars

-----------------------------------------------------------------------------
\* One round without an error makes up for every slot that was missed before:
\* "lets a recovered worker rebuild a missed 08:30 brief and any later reviews"
\* (app/hub/worker.py:160), however the requests before it failed.
RoundRebuildsMissedSlots == covered \in 1 .. Slots => 1 .. covered \subseteq scheduled
=============================================================================
