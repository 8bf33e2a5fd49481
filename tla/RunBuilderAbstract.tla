------------------------- MODULE RunBuilderAbstract -------------------------
(***************************************************************************)
(* What the run coalescer promises (spec 4.6 and invariant 8.4): every     *)
(* entry fed in appears, in order and exactly once, in the mappings the    *)
(* user sees.  Here the user-visible mappings are a sequence of entries    *)
(* that grows by the fed entry at every step.                              *)
(***************************************************************************)
EXTENDS Sequences

CONSTANT Entries

VARIABLES
  fed,    \* entries given to the coalescer
  shown   \* entries covered by the runs it produced (or holds open)

Init == fed = << >> /\ shown = << >>

Feed(e) == fed' = Append(fed, e) /\ shown' = Append(shown, e)

Spec == Init /\ [][\E e \in Entries : Feed(e)]_<<fed, shown>>
=============================================================================
