---------------------------- MODULE GestureProofs ----------------------------
(***************************************************************************)
(* Proofs about the gesture state machine of Gesture.tla, for every x_len, *)
(* tolerance, set of deltas and bound on the sums.                         *)
(***************************************************************************)
EXTENDS Gesture, TLAPS

\* The type and the scoping of the sums together: the inductive invariant.
GestureInv == TypeOK /\ SumsScoped

\* Every delta is an integer.
LEMMA DeltasInt == \A p \in Packets : p.delta_x \in Int /\ p.delta_y \in Int
<1>1. Deltas \subseteq Int
  BY DeltaAssumption
<1>2. QED
  BY <1>1, Zenon DEF Packets

\* Init establishes the invariant.
LEMMA InitInv == Init => GestureInv
<1> SUFFICES ASSUME Init PROVE GestureInv
  OBVIOUS
<1>1. 0 \in -SumBound .. SumBound
  BY BoundAssumption
<1>2. currentState \in States /\ pp \in Packets
  BY DEF Init, States
<1>3. QED
  BY <1>1, <1>2 DEF Init, GestureInv, TypeOK, SumsScoped

(***************************************************************************)
(* One call of mouse_state_machine preserves the invariant: state_change   *)
(* zeroes both sums, DRAWING1 clamps both sums at 0 from below, DRAWING2   *)
(* clamps x_sum from below and y_sum from above, and the other branches    *)
(* leave the state and the sums alone.                                     *)
(***************************************************************************)
LEMMA StepInv == GestureInv /\ [Next]_vars => GestureInv'
<1> SUFFICES ASSUME GestureInv, [Next]_vars PROVE GestureInv'
  OBVIOUS
<1>1. CASE UNCHANGED vars
  BY <1>1 DEF GestureInv, TypeOK, SumsScoped, vars
<1>2. CASE Next
  <2>1. PICK p \in Packets : mouse_state_machine(p)
    BY <1>2 DEF Next
  <2>2. p.delta_x \in Int /\ p.delta_y \in Int
    BY DeltasInt
  <2>3. pp' \in Packets
    BY <2>1 DEF mouse_state_machine
  <2>4. x_sum \in Int /\ y_sum \in Int /\ currentState \in States
    BY DEF GestureInv, TypeOK
  <2>5. Abs(x_sum') <= SumBound /\ Abs(y_sum') <= SumBound
    BY <2>1 DEF mouse_state_machine
  <2>6. CASE FromStart(p)
    BY <2>6, <2>3, <2>4, <2>5, BoundAssumption
    DEF FromStart, state_change, Stay, GestureInv, TypeOK, SumsScoped, Abs, States
  <2>7. CASE Drawing1Move(p)
    BY <2>7, <2>2, <2>3, <2>4, <2>5, BoundAssumption
    DEF Drawing1Move, state_change, GestureInv, TypeOK, SumsScoped, Abs, States
  <2>8. CASE Drawing1Other(p)
    BY <2>8, <2>3, <2>4, <2>5, BoundAssumption
    DEF Drawing1Other, state_change, Stay, GestureInv, TypeOK, SumsScoped, Abs, States
  <2>9. CASE FromPeak(p)
    BY <2>9, <2>3, <2>4, <2>5, BoundAssumption
    DEF FromPeak, state_change, Stay, GestureInv, TypeOK, SumsScoped, Abs, States
  <2>10. CASE Drawing2Move(p)
    BY <2>10, <2>2, <2>3, <2>4, <2>5, BoundAssumption
    DEF Drawing2Move, state_change, GestureInv, TypeOK, SumsScoped, Abs, States
  <2>11. CASE Drawing2Other(p)
    BY <2>11, <2>3, <2>4, <2>5, BoundAssumption
    DEF Drawing2Other, state_change, Stay, GestureInv, TypeOK, SumsScoped, Abs, States
  <2>12. CASE AtComplete(p)
    BY <2>12, <2>3, <2>4, <2>5, BoundAssumption
    DEF AtComplete, Stay, GestureInv, TypeOK, SumsScoped, Abs, States
  <2>13. QED
    BY <2>1, <2>6, <2>7, <2>8, <2>9, <2>10, <2>11, <2>12 DEF mouse_state_machine
<1>3. QED
  BY <1>1, <1>2

(***************************************************************************)
(* The running sums belong to the current stroke in every reachable state, *)
(* whatever packets the mouse sends: the one-sided clamps of               *)
(* mouse_state_machine and the zeroing in state_change keep them so.       *)
(***************************************************************************)
THEOREM SumsAlwaysScoped == Spec => []SumsScoped
<1>1. Init => GestureInv
  BY InitInv
<1>2. GestureInv /\ [Next]_vars => GestureInv'
  BY StepInv
<1>3. GestureInv => SumsScoped
  BY DEF GestureInv
<1>4. QED
  BY <1>1, <1>2, <1>3, PTL DEF Spec

\* The gesture machine keeps its type: the state is one of the five and the
\* sums stay within the bound the calls are explored to.
THEOREM GestureTypeCorrect == Spec => []TypeOK
<1>1. GestureInv => TypeOK
  BY DEF GestureInv
<1>2. QED
  BY InitInv, StepInv, <1>1, PTL DEF Spec
=============================================================================
