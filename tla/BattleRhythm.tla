---------------------------- MODULE BattleRhythm ----------------------------
(***************************************************************************)
(* The battle rhythm of the key terrain board: a clock with cycles that         *)
(* operators start, pause and shift, and a scheduler that counts each cycle on    *)
(* every active entry of the board (handlers_battle_rhythm.go,                *)
(* handlers_battle_rhythm_snapshots.go, handlers_key_terrain.go,              *)
(* static/key-terrain.js).                                                   *)
(*                                                                           *)
(* All of them read the settings or an entry and write it back as a whole.      *)
(* The form of the settings sends the clock its page last knew.                *)
(*                                                                           *)
(* Left out: what else settings and entries hold, the steps but for where they   *)
(* let the operators shift the clock, snapshots, entries that come and go, and   *)
(* writes that fail: the files follow the memory (StoreFile).                  *)
(***************************************************************************)
EXTENDS Integers, FiniteSets

CONSTANTS Entries,     \* the entries of the board
          Operators,   \* pages of those who may write, with a request each
          Lengths,     \* cycle lengths, in minutes
          MaxTime,     \* bound: minutes that pass
          MaxAhead,    \* bound: how far ahead the clock may be set
          MaxRequests  \* bound: requests and restarts

BattleRhythmAssumption == /\ IsFiniteSet(Entries) /\ IsFiniteSet(Operators)
                          /\ Lengths # {} /\ Lengths \subseteq Nat \ {0}
                          /\ {MaxTime, MaxAhead, MaxRequests} \subseteq Nat

VARIABLES now,        \* the minute
          settings,   \* BattleRhythmConfig in the store
          entries,    \* the entries in the store
          sched,      \* the rollover under way
          tasks,      \* the request of each operator
          pages,      \* what each page has of the settings
          sent,       \* requests and restarts so far
          clock,      \* history: what the operators made of the clock
          seen,       \* history: the last cycle the scheduler looked at
          tally,      \* history: what each entry should have counted
          off,        \* history: entries whose count was disturbed
          strayed     \* history: a form put an older clock back

history == <<clock, seen, tally, off, strayed>>
vars == <<now, settings, entries, sched, tasks, pages, sent, history>>

Idle == [kind |-> "idle"]

\* What a page has of them.
ClockOf(cfg) == [started |-> cfg.started, paused |-> cfg.paused]

Stopped == [mode |-> "stopped", ran |-> 0]

\* The board has a rhythm, which may just have been started.
Init == /\ now = 0
        /\ settings \in [enabled : {TRUE}, cycle : Lengths, started : {{}, {0}},
                         paused : {{}}, last : {0}]
        /\ entries = [e \in Entries |-> [rounds |-> 0, state |-> "active"]]
        /\ sched = Idle
        /\ tasks = [o \in Operators |-> Idle]
        /\ pages = [o \in Operators |-> ClockOf(settings)]
        /\ sent = 0
        /\ clock = IF settings.started = {} THEN Stopped ELSE [Stopped EXCEPT !.mode = "running"]
        /\ seen = 0
        /\ tally = [e \in Entries |-> 0]
        /\ off = {}
        /\ strayed = FALSE

The(s) == CHOOSE x \in s : TRUE

Largest(a, b) == IF a > b THEN a ELSE b

\* Bound: time stands still when no request is left and no count is claimed.
Claimed == off # Entries /\ ~strayed

Minute == /\ now < MaxTime /\ (sent < MaxRequests \/ Claimed)
          /\ now' = now + 1
          /\ clock' = IF clock.mode = "running" THEN [clock EXCEPT !.ran = @ + 1] ELSE clock
          /\ UNCHANGED <<settings, entries, sched, tasks, pages, sent, seen, tally, off, strayed>>

(***************************************************************************)
(* The scheduler.                                                            *)
(***************************************************************************)
Ticking(cfg) == cfg.enabled /\ cfg.started # {} /\ cfg.paused = {}

\* The cycle the clock is in, for the code and for the operators.
CycleAt(cfg, time) == (time - The(cfg.started)) \div cfg.cycle
CycleMeant == clock.ran \div settings.cycle

Active(e) == entries[e].state = "active"

\* The tick reads settings and entries (nothing that comes between the two could
\* not come before or after both), and returns when no cycle began.
Tick ==
    /\ sched = Idle
    /\ settings.enabled /\ (Ticking(settings) \/ clock.mode = "running")
    /\ IF Ticking(settings) /\ CycleAt(settings, now) > settings.last
       THEN sched' = [kind |-> "rollover", copy |-> settings, index |-> CycleAt(settings, now),
                      todo |-> {e \in Entries : Active(e)}, read |-> entries]
       ELSE UNCHANGED sched
    /\ IF clock.mode = "running" /\ CycleMeant > seen
       THEN /\ seen' = CycleMeant
            /\ tally' = [e \in Entries |->
                            tally[e] + IF Active(e) THEN CycleMeant - seen ELSE 0]
       ELSE UNCHANGED <<seen, tally>>
    /\ UNCHANGED <<now, settings, entries, tasks, pages, sent, clock, off, strayed>>

\* UpdateKeyTerrainEntry with the copy: what was written since is undone.
Count(e) ==
    /\ sched.kind = "rollover" /\ e \in sched.todo
    /\ LET copy == sched.read[e]
       IN  entries' = [entries EXCEPT ![e] =
                          [copy EXCEPT !.rounds = @ + sched.index - sched.copy.last]]
    /\ sched' = [sched EXCEPT !.todo = @ \ {e}]
    /\ UNCHANGED <<now, settings, tasks, pages, sent, history>>

\* SaveKeyTerrainSettings with the copy: what was saved since is undone.
SaveIndex ==
    /\ sched.kind = "rollover" /\ sched.todo = {}
    /\ settings' = [sched.copy EXCEPT !.last = sched.index]
    /\ sched' = Idle
    /\ UNCHANGED <<now, entries, tasks, pages, sent, history>>

(***************************************************************************)
(* Requests.                                                                 *)
(***************************************************************************)
Sends(o, task) == /\ tasks[o] = Idle
                  /\ sent < MaxRequests /\ sent' = sent + 1
                  /\ tasks' = [tasks EXCEPT ![o] = task]
                  /\ UNCHANGED <<now, settings, entries, sched, pages, history>>

\* History: settings are saved over what was saved since, or during a rollover.
Clashes(copy) == copy # settings \/ sched # Idle

\* UpdateKeyTerrainEntry, which disturbs the count when it undoes another write or
\* comes during a rollover.
Puts(e, entry, disturbs) == /\ entries' = [entries EXCEPT ![e] = entry]
                            /\ off' = IF disturbs THEN off \cup {e} ELSE off

Ends(o) == tasks' = [tasks EXCEPT ![o] = Idle]

\* computeBattleRhythmState: how far into its cycle the clock is.  Before H0 it is
\* at zero, or in the lead-in of a step that starts earlier.
Positions(cfg, time) ==
    LET elapsed == (IF cfg.paused = {} THEN time ELSE The(cfg.paused)) - The(cfg.started)
    IN  IF elapsed < 0 THEN {0, elapsed} ELSE {elapsed % cfg.cycle}

\* computeBattleRhythmStepShift: back to the start of a step or of the cycle, or a
\* whole cycle when there is nothing to go back to; ahead to a step or the end.
Shifts(cfg, time, action) ==
    UNION {IF action = "backward"
           THEN IF p <= 0 THEN {cfg.cycle} ELSE {p - s : s \in 0..(p - 1)}
           ELSE {p - s : s \in Largest(0, p + 1)..cfg.cycle} : p \in Positions(cfg, time)}

Moved(cfg, by) == [cfg EXCEPT !.started = {The(@) + by},
                              !.paused = {t + by : t \in @}]

\* What a control makes of the settings, and of the clock as it is meant: each
\* outcome with the clock's change.
Outcomes(action, cfg, time) ==
    CASE action = "start" ->
            {[cfg |-> [cfg EXCEPT !.started = {h0}, !.paused = {}, !.last = 0],
              by |-> 0] : h0 \in time..(time + MaxAhead)}
      [] action = "reset" ->
            {[cfg |-> [cfg EXCEPT !.started = {}, !.paused = {}, !.last = 0], by |-> 0]}
      [] action = "pause" ->
            {[cfg |-> IF cfg.paused = {} THEN [cfg EXCEPT !.paused = {time}] ELSE cfg,
              by |-> 0]}
      [] action = "resume" ->
            {[cfg |-> [cfg EXCEPT !.started = {The(@) + time - The(cfg.paused)},
                                  !.paused = {}],
              by |-> 0]}
      [] action = "forward" -> {[cfg |-> cfg, by |-> 0]}
      [] OTHER -> {[cfg |-> Moved(cfg, by), by |-> by] : by \in Shifts(cfg, time, action)}

Anew == {"start", "reset"}

Controls == {"start", "pause", "resume", "reset", "backward", "forward", "fast_forward"}

\* handleBattleRhythmControl up to the time it takes.
Control(o, action) ==
    /\ action \notin {"start", "reset"} => settings.started # {}
    /\ action = "resume" => settings.paused # {}
    /\ Sends(o, [kind |-> "control", action |-> action, copy |-> settings, at |-> now])

\* The clock as the operator who pressed the button meant it.
Meant(task, result) ==
    LET late == now - task.at
    IN  CASE task.action = "start" -> [mode |-> "running", ran |-> now - The(result.cfg.started)]
          [] task.action = "reset" -> Stopped
          [] task.action = "pause" /\ clock.mode = "running" ->
                [mode |-> "paused", ran |-> clock.ran - late]
          [] task.action = "resume" -> [mode |-> "running", ran |-> clock.ran + late]
          [] OTHER -> [clock EXCEPT !.ran = @ - result.by]

\* It saves the settings it read.  A start or a reset counts afresh.  The page
\* takes the clock from the answer, if it gets it, but for a pause its own time.
ControlSaves(o) ==
    /\ tasks[o].kind = "control"
    /\ \E result \in Outcomes(tasks[o].action, tasks[o].copy, tasks[o].at) :
          /\ settings' = result.cfg
          /\ clock' = Meant(tasks[o], result)
          /\ off' = IF tasks[o].action \in Anew
                    THEN IF sched = Idle THEN {} ELSE Entries
                    ELSE IF /\ ~Clashes(tasks[o].copy)
                            /\ result.by # 0 => settings.paused = {}
                    THEN off ELSE Entries
          /\ \/ pages' = [pages EXCEPT ![o] =
                             [started |-> result.cfg.started,
                              paused |-> IF result.cfg.paused = {} THEN {} ELSE {now}]]
             \/ UNCHANGED pages
    /\ IF tasks[o].action \in Anew
       THEN seen' = 0 /\ tally' = [e \in Entries |-> entries[e].rounds] /\ strayed' = FALSE
       ELSE UNCHANGED <<seen, tally, strayed>>
    /\ Ends(o)
    /\ UNCHANGED <<now, entries, sched, sent>>

\* The page fetches the settings: when it opens, and when something on the board
\* changed that is not the clock (_ktHandleSSE).
Fetch(o) == /\ sent < MaxRequests
            /\ pages' = [pages EXCEPT ![o] = ClockOf(settings)]
            /\ UNCHANGED <<now, settings, entries, sched, tasks, sent, history>>

\* handleSaveKeyTerrainSettings up to what it keeps.  The form has the clock of the
\* page and no last cycle.
Save(o) ==
    \E enabled \in BOOLEAN, cycle \in Lengths :
       Sends(o, [kind |-> "save", copy |-> settings,
                 form |-> [enabled |-> enabled, cycle |-> cycle, last |-> 0,
                           started |-> pages[o].started, paused |-> pages[o].paused]])

\* Mutant: the form is saved as it came.
KeptNothing(form, existing) == form

Kept(form, existing) == [form EXCEPT !.last = existing.last]

SaveSaves(o) ==
    /\ tasks[o].kind = "save"
    /\ LET found == tasks[o].copy
           new == Kept(tasks[o].form, found)
       IN  /\ settings' = new
           /\ pages' = [pages EXCEPT ![o] = ClockOf(new)]
           /\ off' = IF Clashes([settings EXCEPT !.last = found.last,
                                                 !.started = found.started,
                                                 !.paused = found.paused])
                     THEN Entries ELSE off
           /\ strayed' = (strayed \/ ClockOf(new) # ClockOf(found))
    /\ Ends(o)
    /\ UNCHANGED <<now, entries, sched, sent, clock, seen, tally>>

\* handleUpdateKeyTerrainEntry: an entry is changed, archived, given the priority
\* zero or another count.
Edit(o, e) == Sends(o, [kind |-> "edit", entry |-> e, copy |-> entries[e]])

EditSaves(o) ==
    /\ tasks[o].kind = "edit"
    /\ LET e == tasks[o].entry
           copy == tasks[o].copy
       IN  \E state \in {"active", "inactive", "archived"}, rounds \in {copy.rounds, 0} :
              /\ rounds # copy.rounds => state = copy.state
              /\ Puts(e, [rounds |-> rounds, state |-> state],
                      copy # entries[e] \/ sched # Idle)
              /\ tally' = IF rounds = copy.rounds THEN tally ELSE [tally EXCEPT ![e] = rounds]
    /\ Ends(o)
    /\ UNCHANGED <<now, settings, sched, pages, sent, clock, seen, strayed>>

\* handleResetKeyTerrainCycles.
ResetCycles(o) ==
    Sends(o, [kind |-> "zero", read |-> entries,
              todo |-> {e \in Entries : entries[e].state # "archived" /\ entries[e].rounds # 0}])

Zero(o, e) ==
    /\ tasks[o].kind = "zero" /\ e \in tasks[o].todo
    /\ Puts(e, [tasks[o].read[e] EXCEPT !.rounds = 0], sched # Idle)
    /\ tally' = [tally EXCEPT ![e] = 0]
    /\ tasks' = [tasks EXCEPT ![o].todo = @ \ {e}]
    /\ UNCHANGED <<now, settings, sched, pages, sent, clock, seen, strayed>>

\* The cycle is taken from the time that has passed since H0, pauses or not.
ReadsCycle(o) ==
    /\ tasks[o].kind = "zero" /\ tasks[o].todo = {}
    /\ IF settings.started = {} THEN Ends(o)
       ELSE tasks' = [tasks EXCEPT ![o] =
                         [kind |-> "mark", copy |-> settings,
                          index |-> Largest(0, CycleAt(settings, now)),
                          meant |-> Largest(0, CycleMeant)]]
    /\ UNCHANGED <<now, settings, entries, sched, pages, sent, history>>

MarkSaves(o) ==
    /\ tasks[o].kind = "mark"
    /\ settings' = [tasks[o].copy EXCEPT !.last = tasks[o].index]
    /\ seen' = tasks[o].meant
    /\ off' = IF ~Clashes(tasks[o].copy) /\ tasks[o].index = tasks[o].meant
              THEN off ELSE Entries
    /\ Ends(o)
    /\ UNCHANGED <<now, entries, sched, pages, sent, clock, tally, strayed>>

\* The server restarts: what it counted of a rollover it will count again.
Restart ==
    /\ sched # Idle \/ \E o \in Operators : tasks[o] # Idle
    /\ sent < MaxRequests /\ sent' = sent + 1
    /\ off' = IF sched = Idle THEN off ELSE Entries
    /\ sched' = Idle
    /\ tasks' = [o \in Operators |-> Idle]
    /\ UNCHANGED <<now, settings, entries, pages, clock, seen, tally, strayed>>

Next ==
    \/ Minute \/ Tick \/ SaveIndex \/ Restart
    \/ \E e \in Entries : Count(e)
    \/ \E o \in Operators :
          \/ \E action \in Controls : Control(o, action)
          \/ ControlSaves(o) \/ Fetch(o) \/ Save(o) \/ SaveSaves(o) \/ EditSaves(o)
          \/ ResetCycles(o) \/ ReadsCycle(o) \/ MarkSaves(o)
          \/ \E e \in Entries : Edit(o, e) \/ Zero(o, e)

Spec == Init /\ [][Next]_vars

(***************************************************************************)
(* Properties.                                                               *)
(***************************************************************************)
\* Settings, entries and requests keep their types, and the clock is paused only
\* when it was started.
TypeOK ==
    /\ now \in 0..MaxTime /\ sent \in 0..MaxRequests
    /\ settings.enabled \in BOOLEAN /\ settings.cycle \in Lengths /\ settings.last \in Nat
    /\ settings.started \subseteq Int /\ Cardinality(settings.started) <= 1
    /\ settings.paused \subseteq Int /\ Cardinality(settings.paused) <= 1
    /\ settings.paused # {} => settings.started # {}
    /\ \A e \in Entries : /\ entries[e].rounds \in Nat
                          /\ entries[e].state \in {"active", "inactive", "archived"}
    /\ sched.kind \in {"idle", "rollover"}
    /\ \A o \in Operators :
          tasks[o].kind \in {"idle", "control", "save", "edit", "zero", "mark"}
    /\ off \subseteq Entries /\ strayed \in BOOLEAN

\* The clock stands where the operators' controls put it.
ClockIsAsMeant ==
    /\ settings.started = {} <=> clock.mode = "stopped"
    /\ settings.paused # {} <=> clock.mode = "paused"
    /\ clock.mode # "stopped" =>
          LET time == IF settings.paused = {} THEN now ELSE The(settings.paused)
          IN  time - The(settings.started) = clock.ran

\* Between rollovers each entry has counted the cycles that began on the clock the
\* operators made while it was active, however late the scheduler looks, whatever is
\* paused, shifted, restarted or set to zero (runDueBattleRhythmCycles).  Left out are
\* entries over which two writers, a rollover or a restart in it disturbed the count.
CountsEveryCycle ==
    sched = Idle /\ ~strayed =>
       \A e \in Entries \ off : entries[e].rounds = tally[e]

\* The clock in the store is the one the controls made, and saving the settings does
\* not touch it (handleBattleRhythmControl, handleSaveKeyTerrainSettings), unless
\* writers overlapped or the form had an older clock.
ControlsKeepTheClock == ~strayed /\ off # Entries => ClockIsAsMeant
=============================================================================
