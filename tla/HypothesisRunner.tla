-------------------------- MODULE HypothesisRunner --------------------------
(* The autonomous hypothesis loop                                          *)
(* (ai/simulator_engine/hypothesis_runner.py): its background task and the *)
(* forced run-once requests share one asyncio.Lock, and one cycle proposes *)
(* an experiment (LLM), has it debated (LLM), changes the World, lets it   *)
(* settle, measures and publishes (LLM). At every await the controller may *)
(* be switched, the World may tick or be reset, and the loop be stopped.   *)
(*                                                                         *)
(* Abstracted data: of an experiment only whether it changed the World and *)
(* how it ended; of the World only its day. The report's counters, the     *)
(* texts and the sealed rollout files are left out.                        *)
EXTENDS Integers, Sequences, SequencesExt

CONSTANTS
    Requests,   \* the POST /world/hypotheses/run-once requests
    MaxDay      \* bound on the World's day

ASSUME HypothesisAssumption ==
    /\ "loop" \notin Requests /\ "nobody" \notin Requests
    /\ MaxDay \in Nat

Tasks == Requests \cup {"loop"}

Nobody == "nobody"

VARIABLES
    autonomous,   \* SystemController.is_autonomous_hypothesis()
    worldOn,      \* SystemController.world_simulation_enabled
    day,          \* WorldKernel.world.sim_day
    running,      \* _running
    holder,       \* who has the runner's _lock
    waiters,      \* who waits for it
    pc,           \* where each task is in its cycle
    preDay,       \* pre_day
    span,         \* tick_span of the last measured cycle of a task
    since,        \* history: days the World went forward since then, up to MaxDay
    disturbed,    \* history: another cycle changed the World since then
    enteredArmed  \* history: the runner was armed when the cycle took the lock

control == <<autonomous, worldOn>>
lock == <<holder, waiters>>
measured == <<preDay, span, since, disturbed>>
vars == <<control, day, running, lock, pc, measured, enteredArmed>>

Armed == autonomous /\ worldOn

AtMost(n) == IF n < MaxDay THEN n ELSE MaxDay

(* A cycle that has taken its pre snapshot.                                *)
Measuring(t) == pc[t] \in {"settling", "reporting"}

(* Where a task goes when its cycle is over.                               *)
Rest(t) == IF t = "loop" THEN "sleeping" ELSE "idle"

Goto(t, label) == pc' = [pc EXCEPT ![t] = label]

(* The cycle is over, and so are the values it worked with.                *)
Forget(t) ==
    /\ preDay' = [preDay EXCEPT ![t] = 0]
    /\ span' = [span EXCEPT ![t] = 0]
    /\ since' = [since EXCEPT ![t] = 0]
    /\ disturbed' = [disturbed EXCEPT ![t] = FALSE]
    /\ enteredArmed' = [enteredArmed EXCEPT ![t] = FALSE]

-----------------------------------------------------------------------------
Init ==
    /\ autonomous \in BOOLEAN /\ worldOn \in BOOLEAN
    /\ day = 0 /\ running = TRUE
    /\ holder = Nobody /\ waiters = <<>>
    /\ pc = [t \in Tasks |-> Rest(t)]
    /\ preDay = [t \in Tasks |-> 0]
    /\ span = [t \in Tasks |-> 0]
    /\ since = [t \in Tasks |-> 0]
    /\ disturbed = [t \in Tasks |-> FALSE]
    /\ enteredArmed = [t \in Tasks |-> FALSE]

(* The controller's set_mode and set_world_simulation.                     *)
SwitchControl ==
    /\ \/ autonomous' = ~autonomous /\ UNCHANGED worldOn
       \/ worldOn' = ~worldOn /\ UNCHANGED autonomous
    /\ UNCHANGED <<day, running, lock, pc, measured, enteredArmed>>

(* WorldKernel._on_tick: the day is the one that the engine published. Its *)
(* clock also runs while the World is off, and a tick that was queued      *)
(* before a reset is still obeyed after it, so the day may go either way.  *)
Tick ==
    /\ worldOn
    /\ day' \in 1 .. MaxDay
    /\ since' = [t \in Tasks |-> IF Measuring(t) /\ day' > day
                                THEN AtMost(since[t] + day' - day) ELSE since[t]]
    /\ UNCHANGED <<control, running, lock, pc, preDay, span, disturbed, enteredArmed>>

(* WorldKernel.reset: no lock is asked for.                                *)
ResetWorld ==
    /\ day' = 0
    /\ UNCHANGED <<control, running, lock, pc, measured, enteredArmed>>

-----------------------------------------------------------------------------
(* A forced request calls run_once(force=True).                            *)
Ask(t) ==
    /\ t \in Requests /\ pc[t] = "idle"
    /\ Goto(t, "waiting")
    /\ waiters' = Append(waiters, t)
    /\ UNCHANGED <<control, day, running, holder, measured, enteredArmed>>

(* Mutant: `while self.is_armed()`.                                        *)
LoopEndsUnarmed ==
    /\ pc["loop"] = "sleeping"
    /\ IF Armed THEN Goto("loop", "waiting") /\ waiters' = Append(waiters, "loop")
                ELSE Goto("loop", "stopped") /\ UNCHANGED waiters
    /\ UNCHANGED <<control, day, running, holder, measured, enteredArmed>>

(* The loop wakes up; unarmed, it goes back to sleep.                      *)
LoopWakes ==
    /\ pc["loop"] = "sleeping"
    /\ Armed
    /\ Goto("loop", "waiting")
    /\ waiters' = Append(waiters, "loop")
    /\ UNCHANGED <<control, day, running, holder, measured, enteredArmed>>

(* Mutant: run_once does not take the lock.                                *)
AnyWaiter(t) == waiters # <<>> /\ Head(waiters) = t

(* asyncio.Lock serves its waiters in order.                               *)
MayEnter(t) == holder = Nobody /\ waiters # <<>> /\ Head(waiters) = t

(* `if not force and not self.is_armed()`.                                 *)
Goes(t) == t # "loop" \/ Armed

(* run_once has the lock: an unforced cycle that is not armed is skipped.  *)
Enter(t) ==
    /\ pc[t] = "waiting" /\ MayEnter(t)
    /\ waiters' = Tail(waiters)
    /\ IF Goes(t)
       THEN /\ Goto(t, "proposing")
            /\ holder' = t
            /\ enteredArmed' = [enteredArmed EXCEPT ![t] = Armed]
       ELSE Goto(t, Rest(t)) /\ UNCHANGED <<holder, enteredArmed>>
    /\ UNCHANGED <<control, day, running, measured>>

(* _thinker.propose() has answered.                                        *)
Proposed(t) ==
    /\ pc[t] = "proposing"
    /\ Goto(t, "debating")
    /\ UNCHANGED <<control, day, running, lock, measured, enteredArmed>>

(* The debate has ended: the pre snapshot, apply_mutations and the         *)
(* scenario, none of which gives the event loop away. The experiment may   *)
(* have no mutations, they may fail, and so may the scenario; the cycle is *)
(* an error when the scenario raises, or refuses and nothing was applied.  *)
Perturb(t) ==
    /\ pc[t] = "debating"
    /\ preDay' = [preDay EXCEPT ![t] = day]
    /\ since' = [since EXCEPT ![t] = 0]
    /\ \E applied \in BOOLEAN, scenario \in {"done", "refused", "raised"} :
          LET touched == applied \/ scenario = "done"
              failed == scenario = "raised" \/ (scenario = "refused" /\ ~applied)
          IN /\ disturbed' = [u \in Tasks |->
                                 IF u = t THEN FALSE
                                 ELSE disturbed[u] \/ (Measuring(u) /\ touched)]
             /\ Goto(t, IF failed THEN "publishing" ELSE "settling")
    /\ UNCHANGED <<control, day, running, lock, span, enteredArmed>>

(* Mutant: the distance of the days, whichever is the later one.           *)
DayDistance(t) == IF day > preDay[t] THEN day - preDay[t] ELSE preDay[t] - day

(* Mutant: no max(0, ...).                                                 *)
PlainSpan(t) == day - preDay[t]

(* max(0, post_day - pre_day).                                             *)
TickSpan(t) == IF day > preDay[t] THEN day - preDay[t] ELSE 0

(* The World has settled: the post snapshot and the outcome.               *)
Measure(t) ==
    /\ pc[t] = "settling"
    /\ span' = [span EXCEPT ![t] = TickSpan(t)]
    /\ Goto(t, "reporting")
    /\ UNCHANGED <<control, day, running, lock, preDay, since, disturbed, enteredArmed>>

(* _publish and _export_rollout have ended: the lock is given back.        *)
Finish(t) ==
    /\ pc[t] \in {"publishing", "reporting"}
    /\ Goto(t, Rest(t))
    /\ holder' = Nobody
    /\ Forget(t)
    /\ UNCHANGED <<control, day, running, waiters>>

(* Mutant: a cancelled cycle keeps the lock.                               *)
CancelledKeepsLock(t) == UNCHANGED holder

(* `async with self._lock` under cancellation.                             *)
ReleaseOnCancel(t) == holder' = IF holder = t THEN Nobody ELSE holder

(* stop(): the task is cancelled at the await that it stands at; a waiter  *)
(* takes itself out of the lock's queue.                                   *)
Stop ==
    /\ running /\ running' = FALSE
    /\ Goto("loop", "stopped")
    /\ ReleaseOnCancel("loop")
    /\ waiters' = RemoveFirst(waiters, "loop")
    /\ Forget("loop")
    /\ UNCHANGED <<control, day>>

-----------------------------------------------------------------------------
(* A step of a task that it takes without its caller.                      *)
Step(t) == Enter(t) \/ Proposed(t) \/ Perturb(t) \/ Measure(t) \/ Finish(t)

Next ==
    \/ SwitchControl \/ Tick \/ ResetWorld \/ LoopWakes \/ Stop
    \/ \E t \in Tasks : Ask(t) \/ Step(t)

(* Every LLM call has a timeout, the settle time passes, and the loop's    *)
(* sleep ends; an operator need not do anything.                           *)
Fairness == WF_vars(LoopWakes) /\ \A t \in Tasks : WF_vars(Step(t))

Spec == Init /\ [][Next]_vars /\ Fairness

-----------------------------------------------------------------------------
Labels == {"idle", "sleeping", "stopped", "waiting", "proposing", "debating",
           "settling", "publishing", "reporting"}

InCycle(t) == pc[t] \in {"proposing", "debating", "settling", "publishing", "reporting"}

TypeOK ==
    /\ autonomous \in BOOLEAN /\ worldOn \in BOOLEAN
    /\ day \in 0 .. MaxDay /\ running \in BOOLEAN
    /\ holder \in Tasks \cup {Nobody}
    /\ waiters \in Seq(Tasks)
    /\ pc \in [Tasks -> Labels]
    /\ preDay \in [Tasks -> 0 .. MaxDay]
    /\ span \in [Tasks -> 0 .. MaxDay]
    /\ since \in [Tasks -> 0 .. MaxDay]
    /\ disturbed \in [Tasks -> BOOLEAN]
    /\ enteredArmed \in [Tasks -> BOOLEAN]

(* The deltas of an outcome are its own experiment's: between the pre and  *)
(* the post snapshot of a cycle no other cycle, forced or not, changes the *)
(* World, however long the LLM calls in between take.                      *)
DeltasAreOwn == \A t \in Tasks : Measuring(t) => ~disturbed[t]

(* An autonomous experiment is only begun while the controller permits it: *)
(* the loop asks before it waits for the lock, for minutes perhaps, and    *)
(* what it then does was permitted when it got it.                         *)
BegunArmed ==
    [][Perturb("loop") => enteredArmed["loop"]]_vars

(* The tick span of an outcome is never more than the World went forward   *)
(* between its snapshots, even when it was reset in between.               *)
SpanIsReal == \A t \in Tasks : pc[t] = "reporting" => span[t] <= since[t]

(* A forced request is answered: nobody dies with the lock.                *)
RequestAnswered == \A t \in Requests : (pc[t] = "waiting") ~> (pc[t] = "idle")

(* A runner that stays armed and is not stopped goes on experimenting,     *)
(* whatever it was before and however many requests come in between.       *)
LoopKeepsGoing ==
    <>[](Armed /\ running) => []<>(InCycle("loop"))

(* The controller's guardrail (core/system_controller.py, "compute         *)
(* guardrail"): no autonomous experiment touches a World that is switched  *)
(* off. It may: the switch is not looked at between the lock and Perturb.  *)
GuardrailHolds ==
    [][Perturb("loop") => Armed]_vars
=============================================================================
