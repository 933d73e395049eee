------------------------------- MODULE Agenda -------------------------------
(***************************************************************************)
(* What a multi_manager promises to those who trigger it, whatever array,  *)
(* index and time it keeps: a run, once started, fires each entry of its   *)
(* list once, an earlier entry before a later one, none before its time    *)
(* has come and none after it, and is neither given up nor started again   *)
(* before its end.  Only who removes the manager ends its run early.       *)
(*                                                                         *)
(* An entry is a record with its place in the list and its delay.          *)
(***************************************************************************)
EXTENDS Naturals

CONSTANTS
  Runner,   \* the entities that may run a list
  Entry     \* the entries of all lists: records with a field delay

VARIABLES
  present,  \* the runners there are
  running,  \* those that are in the middle of a run
  open,     \* open[r]: the entries r has still to fire
  age       \* age[r]: the time since r was started

agenda == <<present, running, open, age>>

TypeOK == /\ present \subseteq Runner /\ running \subseteq present
          /\ open \in [Runner -> SUBSET Entry]
          /\ age \in [Runner -> Nat]

Due(r) == {x \in open[r] : x.delay <= age[r]}

Init == /\ present \subseteq Runner
        /\ running = {}
        /\ open = [r \in Runner |-> {}]
        /\ age = [r \in Runner |-> 0]

\* A run starts with a list, perhaps that of a new runner; one that runs is not started.
Start(r) ==
  /\ r \notin running
  /\ present' = present \cup {r}
  /\ running' = running \cup {r}
  /\ open'[r] \subseteq Entry
  /\ open' = [open EXCEPT ![r] = open'[r]]
  /\ age' = [age EXCEPT ![r] = 0]

\* The first of the entries that are left is fired when its time has come.
Fire(r, x) ==
  /\ r \in running
  /\ x \in Due(r)
  /\ \A y \in open[r] : x.delay <= y.delay
  /\ open' = [open EXCEPT ![r] = @ \ {x}]
  /\ UNCHANGED <<present, running, age>>

\* A run ends when nothing is left.
Finish(r) ==
  /\ r \in running /\ open[r] = {}
  /\ running' = running \ {r}
  /\ age' = [age EXCEPT ![r] = 0]
  /\ UNCHANGED <<present, open>>

\* A runner is removed, perhaps in the middle of a run.
Remove(r) ==
  /\ r \in present
  /\ present' = present \ {r}
  /\ running' = running \ {r}
  /\ open' = [open EXCEPT ![r] = {}]
  /\ age' = [age EXCEPT ![r] = 0]

\* Time passes only when nothing is overdue.
Pass ==
  /\ \A r \in running : Due(r) = {}
  /\ age' = [r \in Runner |-> IF r \in running THEN age[r] + 1 ELSE age[r]]
  /\ UNCHANGED <<present, running, open>>

Next ==
  \/ \E r \in Runner : Start(r) \/ Finish(r) \/ Remove(r) \/ \E x \in open[r] : Fire(r, x)
  \/ Pass

Spec == Init /\ [][Next]_agenda
=============================================================================
