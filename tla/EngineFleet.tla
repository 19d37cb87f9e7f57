---------------------------- MODULE EngineFleet ----------------------------
(***************************************************************************)
(* Rollout fault tolerance: TrainLoop composed with the table of engines   *)
(* in RolloutManager, the heartbeat thread of RolloutHealthMonitor, the    *)
(* restart of killed engines and the weight updater's own list of engines. *)
(*                                                                         *)
(* An engine occupies NodesPerEngine slots of all_rollout_engines; its     *)
(* first slot is the server that is sent requests.  A slot holds the       *)
(* number of the actor living in it, 0 for None; an actor is the pair of   *)
(* its slot and its number.                                                *)
(***************************************************************************)
EXTENDS TrainLoop

CONSTANTS
  NumEngines, NodesPerEngine,
  JoinTimesOut,   \* thread.join may time out with the heartbeat thread alive
  MaxFaults       \* bound: servers that stop answering

ASSUME FleetAssumption ==
  /\ NumEngines \in Nat \ {0} /\ NodesPerEngine \in Nat \ {0}
  /\ JoinTimesOut \in BOOLEAN /\ MaxFaults \in Nat

Engines == 0 .. NumEngines - 1
Slots   == 0 .. NumEngines * NodesPerEngine - 1
Threads == {1, 2}   \* the heartbeat thread and one that outlived its join

VARIABLES
  table,     \* all_rollout_engines
  born,      \* actors created in each slot
  sick,      \* actors whose server no longer answers
  gone,      \* actors whose shutdown returned, and that were killed
  numNew,    \* num_new_engines
  phase,     \* how far generate is: "out", "open", "joining", "closed"
  linked,    \* the updater's rollout_engines
  weights,   \* weight version of the server living in each engine
  thread,    \* what each heartbeat thread does
  mine,      \* the monitor's _thread, 0 for None
  event,     \* the monitor's _stop_event: "none", "clear", "set"
  failed     \* the job died in update_weights

managerSide == <<numNew, phase>>
monitorVars == <<thread, mine, event>>
fleetVars == <<table, born, sick, gone, managerSide, linked, weights, monitorVars, failed>>
allFleetVars == <<vars, fleetVars>>

Node0(e) == e * NodesPerEngine
SlotsOf(e) == Node0(e) .. Node0(e) + NodesPerEngine - 1
Heads == [e \in Engines |-> table[Node0(e)]]          \* rollout_engines
Answers(e, n) == n # 0 /\ <<Node0(e), n>> \notin sick \union gone
Resting == [at |-> "off", engine |-> 0, seen |-> [e \in Engines |-> 0], slot |-> 0, victim |-> 0]

FleetInit ==
  /\ Init
  /\ table = [s \in Slots |-> 1] /\ born = [s \in Slots |-> 1]
  /\ sick = {} /\ gone = {}
  /\ numNew = NumEngines * NodesPerEngine /\ phase = "out"
  /\ linked = [e \in Engines |-> 0] /\ weights = [e \in Engines |-> None]
  /\ thread = [t \in Threads |-> Resting] /\ mine = 0 /\ event = "none"
  /\ failed = FALSE
-----------------------------------------------------------------------------
(* RolloutManager.generate *)

\* RolloutHealthMonitor.start
StartMonitor ==
  /\ BeginCall /\ Head(calls).op = "generate"
  /\ \E t \in Threads :
       /\ thread[t].at = "off"
       /\ thread' = [thread EXCEPT ![t].at = "wait"]
       /\ mine' = t
  /\ event' = "clear"
  /\ phase' = "open"
  /\ UNCHANGED <<table, born, sick, gone, numNew, linked, weights, failed>>

\* RolloutHealthMonitor.stop, up to the join
StopMonitor ==
  /\ phase = "open"
  /\ event' = "set"
  /\ phase' = "joining"
  /\ UNCHANGED <<vars, table, born, sick, gone, numNew, linked, weights, thread, mine, failed>>

\* The join returns when the thread has ended, or after its timeout.
Joined_unchecked == TRUE
Joined == \/ thread[mine].at = "off"
          \/ JoinTimesOut /\ thread[mine].at \in {"probe", "shut"}

\* num_new_engines, after init_rollout_engines has filled the empty slots.
NewEngines_unreported(empty) == 0
NewEngines(empty) == Cardinality(empty)

\* The rest of stop, and init_rollout_engines: every empty slot gets a new
\* actor, whose server loads the checkpoint it was configured with.
RestartEngines ==
  /\ phase = "joining"
  /\ Joined
  /\ mine' = 0 /\ event' = "none"
  /\ LET empty == {s \in Slots : table[s] = 0} IN
     /\ born' = [s \in Slots |-> IF s \in empty THEN born[s] + 1 ELSE born[s]]
     /\ table' = [s \in Slots |-> IF s \in empty THEN born[s] + 1 ELSE table[s]]
     /\ weights' = [e \in Engines |-> IF Node0(e) \in empty THEN None ELSE weights[e]]
     /\ numNew' = NewEngines(empty)
  /\ phase' = "closed"
  /\ UNCHANGED <<vars, sick, gone, linked, thread, failed>>

GenerateReturns ==
  /\ phase = "closed"
  /\ EndGenerate
  /\ phase' = "out"
  /\ UNCHANGED <<table, born, sick, gone, numNew, linked, weights, monitorVars, failed>>
-----------------------------------------------------------------------------
(* The heartbeat thread *)

\* A server stops answering while it serves a rollout.
Fault(e) ==
  /\ phase = "open"
  /\ Cardinality(sick) < MaxFaults
  /\ Answers(e, table[Node0(e)])
  /\ sick' = sick \union {<<Node0(e), table[Node0(e)]>>}
  /\ UNCHANGED <<vars, table, born, gone, managerSide, linked, weights, monitorVars, failed>>

MonitorFrame == UNCHANGED <<vars, born, sick, managerSide, linked, weights, mine, event, failed>>

\* self._stop_event.wait: an event that is set, and one that stop has replaced
\* by None, both end the thread; otherwise a sweep over a fresh snapshot begins.
Wait_deaf(t) ==
  /\ thread[t].at = "wait"
  /\ thread' = [thread EXCEPT ![t] = [@ EXCEPT !.at = "scan", !.engine = 0, !.seen = Heads]]
  /\ MonitorFrame /\ UNCHANGED <<table, gone>>
Wait(t) ==
  /\ thread[t].at = "wait"
  /\ thread' = [thread EXCEPT ![t] =
       IF event = "clear" THEN [@ EXCEPT !.at = "scan", !.engine = 0, !.seen = Heads]
                          ELSE Resting]
  /\ MonitorFrame /\ UNCHANGED <<table, gone>>

Advance(th) == [th EXCEPT !.at = IF th.engine + 1 = NumEngines THEN "wait" ELSE "scan",
                          !.engine = (th.engine + 1) % NumEngines]

\* The next engine of the sweep; a set event breaks it off, a None one does not.
Scan(t) ==
  /\ thread[t].at = "scan"
  /\ thread' = [thread EXCEPT ![t] =
       IF event = "set" THEN [@ EXCEPT !.at = "wait", !.engine = 0]
       ELSE IF @.seen[@.engine] = 0 THEN Advance(@)
       ELSE [@ EXCEPT !.at = "probe"]]
  /\ MonitorFrame /\ UNCHANGED <<table, gone>>

\* health_generate of the engine in the snapshot answers or times out.
Probe(t) ==
  /\ thread[t].at = "probe"
  /\ thread' = [thread EXCEPT ![t] =
       IF Answers(@.engine, @.seen[@.engine]) THEN Advance(@)
       ELSE [@ EXCEPT !.at = "kill", !.slot = Node0(thread[t].engine)]]
  /\ MonitorFrame /\ UNCHANGED <<table, gone>>

\* _kill_engine, node by node: it takes whatever the slot holds now, and the
\* slot is emptied when the shutdown of that actor has returned or raised.
Kill(t) ==
  /\ thread[t].at = "kill"
  /\ thread' = [thread EXCEPT ![t] = [@ EXCEPT !.at = "shut", !.victim = table[thread[t].slot]]]
  /\ MonitorFrame /\ UNCHANGED <<table, gone>>

\* ray.kill is skipped when shutdown raises, and the actor lives on outside the
\* table.  It may raise on the first node, whose router must be told, and always
\* does on the others, which keep no process to kill, and for an empty slot.
Shut(t) ==
  /\ thread[t].at = "shut"
  /\ LET s == thread[t].slot
         victim == thread[t].victim IN
     /\ \/ UNCHANGED gone
        \/ s = Node0(thread[t].engine) /\ victim # 0 /\ gone' = gone \union {<<s, victim>>}
     /\ table' = [table EXCEPT ![s] = 0]
     /\ thread' = [thread EXCEPT ![t] =
          IF s + 1 \in SlotsOf(@.engine) THEN [@ EXCEPT !.at = "kill", !.slot = s + 1]
                                         ELSE Advance(@)]
  /\ MonitorFrame
-----------------------------------------------------------------------------
(* The actor's update_weights *)

\* A new engine makes the updater take over the manager's list.
Connect ==
  /\ BeginPush
  /\ linked' = IF numNew > 0 THEN Heads ELSE linked
  /\ UNCHANGED <<table, born, sick, gone, managerSide, weights, monitorVars, failed>>

AllAnswer == \A e \in Engines : Answers(e, linked[e])

Broadcast ==
  /\ AllAnswer
  /\ EndPush
  /\ weights' = [e \in Engines |-> IF linked[e] = table[Node0(e)] THEN Len(model) ELSE weights[e]]
  /\ UNCHANGED <<table, born, sick, gone, managerSide, linked, monitorVars, failed>>

\* pause_generation on an actor that is gone, or whose server does not answer,
\* raises in the training process.
PushFails ==
  /\ pushing /\ ~AllAnswer
  /\ failed' = TRUE
  /\ UNCHANGED <<vars, table, born, sick, gone, managerSide, linked, weights, monitorVars>>

\* The steps of the train loop that the fleet takes no part in.
OtherSteps ==
  /\ \/ Load \/ Launch \/ FetchSync \/ Await \/ FetchAsync \/ Train \/ SaveModel
     \/ Saved \/ Sync \/ Eval \/ NextRollout \/ EndEval \/ SaveData
     \/ BeginCall /\ Head(calls).op = "eval"
  /\ UNCHANGED fleetVars

GenerateStep == StartMonitor \/ StopMonitor \/ RestartEngines \/ GenerateReturns
ThreadStep(t) == Wait(t) \/ Scan(t) \/ Probe(t) \/ Kill(t) \/ Shut(t)
PushStep == Connect \/ Broadcast \/ PushFails

FleetNext ==
  /\ ~failed
  /\ \/ GenerateStep \/ PushStep \/ OtherSteps
     \/ \E t \in Threads : ThreadStep(t)
     \/ \E e \in Engines : Fault(e)

FleetSpec == FleetInit /\ [][FleetNext]_allFleetVars

\* The processes and the thread run; nothing forces a fault.
FleetFairness ==
  /\ WF_allFleetVars(~failed /\ (GenerateStep \/ PushStep \/ OtherSteps))
  /\ \A t \in Threads : WF_allFleetVars(~failed /\ ThreadStep(t))
FairFleetSpec == FleetSpec /\ FleetFairness
-----------------------------------------------------------------------------
(* Properties *)

\* "the server will be restarted and its parameters will be correctly updated"
\* (fault-tolerance.md): a rollout is only ever served with the weights of the
\* last update.
EveryServerIsUpToDate ==
  phase = "open" => \A e \in Engines : weights[e] = served

\* The monitor only ever shuts down servers that stopped answering.
OnlySickAreKilled ==
  \A e \in Engines : \A n \in 1 .. born[Node0(e)] :
    <<Node0(e), n>> \in gone => <<Node0(e), n>> \in sick

\* "After the current rollout round is complete, the server will be restarted"
\* (fault-tolerance.md): between rollouts the table has no holes and no dead
\* actors, and the nodes of an engine were started together.
KilledIsReplaced ==
  phase \in {"out", "closed"} =>
    \A e \in Engines : \A s \in SlotsOf(e) :
      table[s] # 0 /\ table[s] = table[Node0(e)] /\ <<s, table[s]>> \notin gone

\* A weight update only fails on a server that nobody had yet found to be sick;
\* one that the monitor caught, and whose successor started, never costs the job.
CaughtFaultsAreSurvived ==
  failed => \E e \in Engines : <<Node0(e), table[Node0(e)]>> \in sick

\* The job ends, by completing or by failing.
JobEnds == <>(failed \/ pc = "done")
=============================================================================
