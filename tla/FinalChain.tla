------------------------------ MODULE FinalChain ------------------------------
(***************************************************************************)
(* What a node promises about its chain: it is at a block head, a prefix   *)
(* of its chain that ends in final is settled, the settled prefix only     *)
(* ever grows along the tree of blocks, and head never leaves it.          *)
(***************************************************************************)
CONSTANTS
  Start,       \* the block the node starts from
  OnChain(_, _)  \* OnChain(a, b): a is b or an ancestor of b

VARIABLES head, final

Init == head = Start /\ final = Start

\* The node applies or undoes blocks, or changes the branch, above final.
Move == OnChain(final, head') /\ UNCHANGED final

\* More of the chain is settled; a restarted node may at the same time be on
\* any chain that contains it.
Settle == final # final' /\ OnChain(final, final') /\ OnChain(final', head')

Next == Move \/ Settle

Spec == Init /\ [][Next]_<<head, final>>
===============================================================================
