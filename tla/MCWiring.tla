------------------------------ MODULE MCWiring ------------------------------
(* Three kinds of map for TLC.                                                          *)
EXTENDS Wiring, TLC

Plain == [e \in Ents |-> ""]
Zero == [e \in Ents |-> 0]
On(f, default) == f @@ [e \in Ents |-> default]

\* Two buttons and a manager switch a multisource, which unlocks a third button and
\* pushes it; that one and a fourth start the manager, whose list is out of order.
Airlock ==
  [kind |-> On(1 :> "button" @@ 2 :> "button" @@ 3 :> "manager" @@ 4 :> "multisource"
               @@ 5 :> "button" @@ 6 :> "button", "free"),
   name |-> On(3 :> "mm" @@ 4 :> "ms" @@ 5 :> "door", ""),
   target |-> On(1 :> "ms" @@ 2 :> "ms" @@ 4 :> "door" @@ 5 :> "mm" @@ 6 :> "mm", ""),
   kill |-> Plain,
   master |-> On(5 :> "ms", ""),
   delay |-> Zero,
   wait |-> On(1 :> 3 @@ 2 :> 2 @@ 6 :> Never, 1),
   count |-> Zero,
   list |-> On(3 :> <<[name |-> "ms", delay |-> 1], [name |-> "door", delay |-> 0]>>, <<>>),
   flags |-> On(1 :> {"still"} @@ 2 :> {"touch"}, {}),
   sets |-> On(<<>>, "toggle"),
   global |-> "off"]

\* A trigger_once, a trigger_multiple, a threaded manager and relays work on a counter.
Count ==
  [kind |-> On(1 :> "multiple" @@ 2 :> "multiple" @@ 3 :> "counter" @@ 4 :> "manager"
               @@ 5 :> "relay" @@ 6 :> "relay", "free"),
   name |-> On(3 :> "count" @@ 4 :> "mm" @@ 5 :> "r" @@ 6 :> "r", ""),
   target |-> On(1 :> "count" @@ 2 :> "mm" @@ 3 :> "mm" @@ 5 :> "count" @@ 6 :> "count", ""),
   kill |-> On(3 :> "mm", ""),
   master |-> Plain,
   delay |-> On(1 :> 1 @@ 6 :> 1, 0),
   wait |-> On(2 :> 1, Never),
   count |-> On(3 :> 3, 0),
   list |-> On(4 :> <<[name |-> "r", delay |-> 2], [name |-> "count", delay |-> 0]>>, <<>>),
   flags |-> On(4 :> {"thread"} @@ 5 :> {"once"}, {}),
   sets |-> On(<<>>, "toggle"),
   global |-> "off"]

\* An auto trigger and a toggle button switch a multisource that hangs on a global state;
\* it is the master of a counter, which is used right after the global state is set, and
\* of a button that is shot.
State(to, start, auto) ==
  [kind |-> On(1 :> "auto" @@ 2 :> "global" @@ 3 :> "multisource" @@ 4 :> "counter"
               @@ 5 :> "button" @@ 6 :> "button", "free"),
   name |-> On(2 :> "count" @@ 3 :> "ms" @@ 4 :> "count", ""),
   target |-> On(1 :> "ms" @@ 3 :> "count" @@ 5 :> "ms" @@ 6 :> "count", ""),
   kill |-> On(4 :> "ms", ""),
   master |-> On(4 :> "ms" @@ 6 :> "ms", ""),
   delay |-> Zero,
   wait |-> On(<<>>, 1),
   count |-> On(4 :> IF start = "on" THEN 1 ELSE 2, 0),
   list |-> On(<<>>, <<>>),
   flags |-> On(1 :> {"global"} \cup auto @@ 3 :> {"global"}
                @@ 5 :> {"toggle", "touch", "health"}
                @@ 6 :> {"touch", "health", "still"}, {}),
   sets |-> On(2 :> to, "toggle"),
   global |-> start]

States == {State("toggle", "on", {}), State("toggle", "off", {"once"}),
           State("on", "dead", {"once"}), State("dead", "on", {"once"})}
Maps == {Airlock, Count} \cup States

\* What FiresOnce of WiringProofs takes for granted holds of them.
ASSUME NoReturnOfMaps == NoReturn
=============================================================================
