------------------------------- MODULE ProcRR -------------------------------
(***************************************************************************)
(* The fairness bound behind the "RR" comment of core/sche.c.  A history   *)
(* variable records which slots scheduler() has dispatched since the slot  *)
(* Watched became RUNABLE; it constrains no step of Proc.                  *)
(***************************************************************************)
EXTENDS Proc

CONSTANT Watched    \* the slot whose wait is observed

ASSUME WatchedAssumption == Watched \in Slots /\ Watched # kproc

VARIABLE overtaken  \* slots dispatched while Watched has been waiting

rrvars == <<vars, overtaken>>

Waiting == Task(Watched) /\ state[Watched] = "RUNABLE" /\ pid[Watched] # 0

Dispatched(i) == cpu = "scheduler" /\ cpu' = "switch" /\ cur_proc' = i

Observe ==
    overtaken' = IF Waiting /\ Waiting'
                 THEN overtaken \union {i \in Slots : Dispatched(i)}
                 ELSE {}

RRInit == Init /\ overtaken = {}
RRNext == Next /\ Observe
RRSpec == RRInit /\ [][RRNext]_rrvars

(* Round robin: while a task waits for the processor, scheduler() gives it *)
(* to every other slot at most once, so the wait lasts at most             *)
(* PROC_MAX - 2 turns, whatever is forked, exits or blocks meanwhile.      *)
RoundRobin ==
    [][\A i \in Slots : Waiting /\ Dispatched(i) => i \notin overtaken]_rrvars

(* A slot that has overtaken Watched lies behind it in the scan order.     *)
OvertakenBehind ==
    /\ overtaken \subseteq Slots
    /\ overtaken # {} => Waiting
    /\ \A i \in overtaken :
        IF scan <= Watched THEN i < scan \/ i > Watched
                           ELSE Watched < i /\ i < scan

=============================================================================
