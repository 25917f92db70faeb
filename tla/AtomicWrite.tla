---------------------------- MODULE AtomicWrite -----------------------------
(***************************************************************************)
(* What the fault tolerant write driver promises: a write replaces part of *)
(* the contents of a block at one instant between the call and its return. *)
(* A call that fails, or that a power failure cuts off, has happened       *)
(* entirely or not at all.                                                 *)
(***************************************************************************)
CONSTANTS
  Lbas,      \* the blocks
  Cells,     \* the parts of a block
  Values,    \* what a part can hold
  Requests,  \* writes: [lba, cells, value, private]
  NoRequest

VARIABLES
  block,     \* contents of each block
  phase,     \* of the write in progress: "idle", "asked", "done"
  request    \* its arguments

vars == <<block, phase, request>>

\* The image of a block once request r is written over the image old.
Overlay(old, r) == [c \in Cells |-> IF c \in r.cells THEN r.value ELSE old[c]]

Init ==
  /\ block \in [Lbas -> [Cells -> Values]]
  /\ phase = "idle"
  /\ request = NoRequest

Ask ==
  /\ phase = "idle" /\ phase' = "asked"
  /\ request' \in Requests
  /\ UNCHANGED block

Written == [block EXCEPT ![request.lba] = Overlay(@, request)]

Commit ==
  /\ phase = "asked" /\ phase' = "done"
  /\ block' = Written
  /\ UNCHANGED request

\* Success, an error or a power failure; the last two may fall on the commit.
End ==
  /\ phase # "idle" /\ phase' = "idle"
  /\ request' = NoRequest
  /\ block' = block \/ (phase = "asked" /\ block' = Written)

Next == Ask \/ Commit \/ End

Spec == Init /\ [][Next]_vars
=============================================================================
