------------------------------ MODULE VarMap --------------------------------
(***************************************************************************)
(* What the variable services promise of the non-volatile store: names map *)
(* to values, and a SetVariable changes the value of its own name only, at *)
(* one instant between the call and its return.  A call that fails, or     *)
(* that a power failure cuts off, has happened entirely or not at all.     *)
(***************************************************************************)
CONSTANTS
  Keys,      \* names with their vendor GUIDs
  Values,
  NoValue,   \* the value of a name without variable; setting it deletes
  NoRequest

VARIABLES
  map,       \* the value of each name
  request    \* of the SetVariable in progress: [key, val]

vars == <<map, request>>

Requests == [key : Keys, val : Values \cup {NoValue}]

Init ==
  /\ map \in [Keys -> Values \cup {NoValue}]
  /\ request = NoRequest

Updated == [map EXCEPT ![request.key] = request.val]

Ask ==
  /\ request = NoRequest
  /\ request' \in Requests
  /\ UNCHANGED map

Commit ==
  /\ request # NoRequest
  /\ map' = Updated
  /\ UNCHANGED request

End ==
  /\ request # NoRequest
  /\ request' = NoRequest
  /\ map' \in {map, Updated}

Next == Ask \/ Commit \/ End

Spec == Init /\ [][Next]_vars
=============================================================================
