-------------------------- MODULE MCOrderLifecycle --------------------------
EXTENDS OrderLifecycle, TLC

CONSTANTS o1, c1, c2, r1, r2

CbtSymmetry == Permutations(Cbts)
Symmetry == Permutations(Cbts) \cup Permutations(Requests)

(* Nothing is said of an order once it is overtaken, and there is one.     *)
NotOvertaken == overtaken = {}

(* Nor of its jobs once they are out of step with it.                      *)
InStep == history = <<{}, {}, {}>>
==============================================================================
