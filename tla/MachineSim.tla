----------------------------- MODULE MachineSim -----------------------------
(***************************************************************************)
(* One machine of the plant simulator (generator/sim.py): its shifts,      *)
(* breaks, work orders, units and unplanned stops in simulated time, and   *)
(* the events it emits.  Machines share nothing (sim.py:218-226), so one   *)
(* machine stands for all.  Draws of the random generator are choices from *)
(* small sets, times are ticks.                                            *)
(***************************************************************************)
EXTENDS Integers, Sequences, FiniteSets, Functions

CONSTANTS
    None,               \* no order, no operator
    Badges,
    Shifts,             \* sequence of [start, end, breaks : Seq([at, ticks])] of a day
    DayTicks, Days,
    UnitCounts,         \* units_min .. units_max
    Changeovers,        \* durations drawn for a changeover
    Cycles,             \* durations drawn for a unit
    Gaps,               \* load and unload between two units
    Stops               \* durations drawn for an unplanned stop

ASSUME MachineSimAssumption ==
    /\ None \notin Badges /\ None \notin [id : Nat, units : UnitCounts]
    /\ Shifts \in Seq(Range(Shifts))
    /\ DayTicks \in Nat \ {0} /\ Days \in Nat
    /\ UnitCounts \subseteq Nat \ {0} /\ Changeovers \subseteq Nat \ {0}
    /\ Cycles \subseteq Nat \ {0} /\ Gaps \subseteq Nat /\ Stops \subseteq Nat \ {0}
    /\ \A i \in DOMAIN Shifts : /\ Shifts[i].start \in 0..DayTicks - 1
                                /\ Shifts[i].end \in 0..DayTicks
                                /\ \A j \in DOMAIN Shifts[i].breaks :
                                      Shifts[i].breaks[j].ticks \in Nat \ {0}

VARIABLES
    turn,               \* number of the shift, over all days
    onShift,            \* inside the loop of _run_shift
    now, state, order, unitSeq, ordersStarted, operator,    \* MachineSim
    breaks,             \* the breaks of the shift that are not taken yet, by their index
    events              \* what _emit appended, in that order

vars == <<turn, onShift, now, state, order, unitSeq, ordersStarted, operator, breaks, events>>

-----------------------------------------------------------------------------
(* The calendar *)

ShiftOf(n) == Shifts[((n - 1) % Len(Shifts)) + 1]
DayStart(n) == ((n - 1) \div Len(Shifts)) * DayTicks
StartAt(n) == DayStart(n) + ShiftOf(n).start

\* A shift whose end is not after its start crosses midnight.
EndAt(n) ==
    DayStart(n) + ShiftOf(n).end + (IF ShiftOf(n).end <= ShiftOf(n).start THEN DayTicks ELSE 0)

\* A break is on the day the shift starts.  The code sorts the breaks by their time and
\* goes through the list, which is to take the earliest of those that are left.
Break(n, i) == ShiftOf(n).breaks[i]
BreakAt(n, i) == DayStart(n) + Break(n, i).at
Precedes(n, i, j) == BreakAt(n, i) < BreakAt(n, j) \/ (BreakAt(n, i) = BreakAt(n, j) /\ i <= j)

-----------------------------------------------------------------------------
(* Emission *)

Scan(at, action) == <<[type |-> "scan", at |-> at, badge |-> operator, action |-> action]>>

CycleEvent(at, seq) ==
    <<[type |-> "cycle", at |-> at, order |-> order.id, unit |-> seq, badge |-> operator]>>
DefectEvent(at, seq) ==
    <<[type |-> "defect", at |-> at, order |-> order.id, unit |-> seq, badge |-> operator]>>

\* Mutant of Change: a transition to the same state is emitted as well.
ChangeAlways(at, from, to) == <<[type |-> "change", at |-> at, from |-> from, to |-> to]>>

\* _transition: a state_change event, unless the machine is in that state.
Change(at, from, to) ==
    IF to = from THEN <<>> ELSE <<[type |-> "change", at |-> at, from |-> from, to |-> to]>>

-----------------------------------------------------------------------------
(* Handlers *)

\* Mutant of StartShift: the badge is emitted and not kept.
LoginOnly ==
    /\ ~onShift /\ turn < Days * Len(Shifts)
    /\ turn' = turn + 1 /\ onShift' = TRUE
    /\ now' = StartAt(turn + 1)
    /\ breaks' = DOMAIN ShiftOf(turn + 1).breaks
    /\ \E b \in Badges :
          events' = events \o <<[type |-> "scan", at |-> now', badge |-> b, action |-> "login"]>>
    /\ UNCHANGED <<state, order, unitSeq, ordersStarted, operator>>

\* _run_shift up to its loop: the clock is set to the start of the shift, also when
\* the shift before ran past it.
StartShift ==
    /\ ~onShift /\ turn < Days * Len(Shifts)
    /\ turn' = turn + 1 /\ onShift' = TRUE
    /\ now' = StartAt(turn + 1)
    /\ breaks' = DOMAIN ShiftOf(turn + 1).breaks
    /\ operator' \in Badges
    /\ events' = events \o <<[type |-> "scan", at |-> now', badge |-> operator', action |-> "login"]>>
    /\ UNCHANGED <<state, order, unitSeq, ordersStarted>>

\* Mutant of ShiftRuns: one tick more.
RunsAtTheEnd == onShift /\ now <= EndAt(turn)
ShiftRuns == onShift /\ now < EndAt(turn)

BreakDue == \E i \in breaks : now >= BreakAt(turn, i)

\* Mutant of BreakEnd: the break ends when the calendar says, however late it began.
ScheduledBreakEnd(i) == BreakAt(turn, i) + Break(turn, i).ticks
BreakEnd(i) == now + Break(turn, i).ticks

\* Held for the break, then in EXECUTE, whatever the machine did before.
TakeBreak ==
    /\ ShiftRuns /\ BreakDue
    /\ \E i \in breaks :
          /\ \A j \in breaks : Precedes(turn, i, j)
          /\ now' = BreakEnd(i)
          /\ breaks' = breaks \ {i}
    /\ events' = events \o Change(now, state, "HELD") \o Change(now', "HELD", "EXECUTE")
    /\ state' = "EXECUTE"
    /\ UNCHANGED <<turn, onShift, order, unitSeq, ordersStarted, operator>>

OrderComplete == order # None /\ unitSeq >= order.units

NeedsOrder == order = None \/ OrderComplete

\* Mutant of NoUnits: the number a new order starts with is that of the last one.
KeepUnitSeq == unitSeq

NoUnits == 0

\* begin_order: the changeover, at whose end the machine executes.
BeginOrder ==
    /\ ShiftRuns /\ ~BreakDue /\ NeedsOrder
    /\ \E units \in UnitCounts : order' = [id |-> ordersStarted + 1, units |-> units]
    /\ unitSeq' = NoUnits
    /\ ordersStarted' = ordersStarted + 1
    /\ \E d \in Changeovers : now' = now + d
    /\ events' = events \o Change(now, state, "CHANGEOVER") \o Scan(now, "changeover_start")
                        \o Scan(now', "changeover_end") \o Change(now', "CHANGEOVER", "EXECUTE")
    /\ state' = "EXECUTE"
    /\ UNCHANGED <<turn, onShift, operator, breaks>>

\* run_unit: the cycle, a defect of that unit or none, the gap, and an unplanned
\* stop or none.  The state is whatever it was: an order taken over from the last
\* shift runs on a machine that says IDLE.
RunUnit ==
    /\ ShiftRuns /\ ~BreakDue /\ ~NeedsOrder
    /\ unitSeq' = unitSeq + 1
    /\ \E d \in Cycles, gap \in Gaps, defect \in BOOLEAN, stop \in Stops \cup {0} :
          LET end == now + d
              made == events \o CycleEvent(end, unitSeq')
                             \o (IF defect THEN DefectEvent(end, unitSeq') ELSE <<>>)
              rest == end + gap
          IN IF stop = 0
             THEN now' = rest /\ events' = made /\ UNCHANGED state
             ELSE /\ now' = rest + stop
                  /\ events' = made \o Change(rest, state, "HELD")
                                    \o Change(now', "HELD", "EXECUTE")
                  /\ state' = "EXECUTE"
    /\ UNCHANGED <<turn, onShift, order, ordersStarted, operator, breaks>>

\* end_shift, at the time the loop overran to: logout, then IDLE.
EndShift ==
    /\ onShift /\ ~ShiftRuns
    /\ events' = events \o Scan(now, "logout") \o Change(now, state, "IDLE")
    /\ onShift' = FALSE /\ state' = "IDLE" /\ operator' = None
    /\ UNCHANGED <<turn, now, order, unitSeq, ordersStarted, breaks>>

Init ==
    /\ turn = 0 /\ onShift = FALSE /\ now = 0 /\ state = "IDLE" /\ order = None
    /\ unitSeq = 0 /\ ordersStarted = 0 /\ operator = None /\ breaks = {}
    /\ events = <<>>

Next == StartShift \/ TakeBreak \/ BeginOrder \/ RunUnit \/ EndShift

Spec == Init /\ [][Next]_vars

-----------------------------------------------------------------------------
\* The units of an order among the first n events, as the positions of their cycles.
UnitsOf(id, n) == {i \in 1..n : events[i].type = "cycle" /\ events[i].order = id}

\* The state_change events of a machine are a walk: each leaves the state the one
\* before entered, and none is a step in place, over shifts and taken-over orders.
StatesChain ==
    \A i \in DOMAIN events :
       events[i].type = "change" =>
          /\ events[i].from # events[i].to
          /\ (\A j \in 1..i - 1 : events[j].type # "change") => events[i].from = "IDLE"
          /\ \A j \in 1..i - 1 :
                events[j].type = "change" /\ (\A k \in j + 1..i - 1 : events[k].type # "change")
                  => events[i].from = events[j].to

\* Work order and unit are the natural key of a produced unit (fct_defects.sql:3-5).
\* An order counts its own units from 1, makes no more of them than it has, and is not
\* given up: whichever shifts it runs through, the next one begins when it has all its
\* units (tests/test_generator.py:170-179).  Each defect finds the cycle of its unit.
UnitsCountFromOne ==
    /\ \A i \in DOMAIN events :
          events[i].type = "cycle" =>
             /\ events[i].order \in 1..ordersStarted
             /\ events[i].unit = Cardinality(UnitsOf(events[i].order, i))
    /\ \A id \in 1..ordersStarted :
          LET made == Cardinality(UnitsOf(id, Len(events)))
          IN  IF order.id = id THEN made = unitSeq /\ made <= order.units ELSE made \in UnitCounts
    /\ \A k \in DOMAIN events :
          events[k].type = "defect" =>
             \E i \in UnitsOf(events[k].order, k) :
                events[i].unit = events[k].unit /\ events[i].at = events[k].at

\* The badge on a cycle, a defect or a changeover scan is that of the operator who
\* logged in last and has not logged out.
OperatorsAreOnDuty ==
    \A i \in DOMAIN events :
        (events[i].type # "change" /\ (events[i].type = "scan" => events[i].action # "login"))
          => \E j \in 1..i - 1 :
                /\ events[j].type = "scan" /\ events[j].action = "login"
                /\ events[j].badge = events[i].badge
                /\ \A k \in j + 1..i - 1 : events[k].type = "scan"
                                             => events[k].action \notin {"login", "logout"}

\* The shift an event belongs to, by the logins up to it.
IsLogin(e) == e.type = "scan" /\ e.action = "login"
TurnOf(i) == Cardinality({j \in 1..i : IsLogin(events[j])})

\* The quiet window is quiet, and time runs forward while a shift lasts: a login is at
\* the start of its shift, no event of the shift is earlier than the one before it, and
\* a unit is begun before the shift ends, so that its cycle is at most one cycle later
\* (tests/test_generator.py:182-190; sim.py:274 sets the clock back for the next shift).
ShiftsRunInOrder ==
    \A i \in DOMAIN events :
        /\ IF IsLogin(events[i]) THEN events[i].at = StartAt(TurnOf(i))
           ELSE events[i].at >= events[i - 1].at
        /\ events[i].type = "cycle" => \E d \in Cycles : events[i].at - d < EndAt(TurnOf(i))

=============================================================================
