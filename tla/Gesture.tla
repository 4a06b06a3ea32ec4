------------------------------- MODULE Gesture -------------------------------
(***************************************************************************)
(* The gesture state machine of src/proj/src/device/mouse.c:               *)
(* mouse_state_machine (193-242) with state_change (250-254) and           *)
(* state_maintain (262-265).  One step is one call with a completed        *)
(* packet; only the packet's buttons and deltas are read.                  *)
(*                                                                         *)
(* The function reads the state through its parameter and state_change    *)
(* writes the global currentState: the model assumes the caller passes     *)
(* &currentState, the only way the machine can advance.                    *)
(***************************************************************************)
EXTENDS Integers

CONSTANTS
  X_LEN,      \* x_len: minimum stroke length (uint8_t)
  TOLERANCE,  \* tolerance: noise allowed against the stroke (uint8_t)
  Deltas,     \* delta_x / delta_y values of the packets fed in
  SumBound    \* bound on |x_sum| and |y_sum| (int in the code)

ASSUME ParamAssumption == X_LEN \in 0 .. 255 /\ TOLERANCE \in 0 .. 255
ASSUME DeltaAssumption == Deltas \subseteq -256 .. 255 /\ 0 \in Deltas
ASSUME BoundAssumption == SumBound \in Nat

\* enum MouseState of mouse.h
States == {"START", "DRAWING1", "PEAK", "DRAWING2", "COMPLETE"}

\* The fields of struct packet the machine reads.
Packets == [lb : BOOLEAN, rb : BOOLEAN, mb : BOOLEAN,
            delta_x : Deltas, delta_y : Deltas]

VARIABLES
  currentState,  \* global currentState
  x_sum,         \* global x_sum
  y_sum,         \* global y_sum
  pp             \* the packet of the last call

vars == <<currentState, x_sum, y_sum, pp>>

Abs(n) == IF n < 0 THEN -n ELSE n

\* currentState, x_sum and y_sum are globals initialised to START, 0, 0.
Init ==
  /\ currentState = "START"
  /\ x_sum = 0
  /\ y_sum = 0
  /\ pp \in Packets

\* state_change: zero both sums and move to s.
state_change(s) == currentState' = s /\ x_sum' = 0 /\ y_sum' = 0

Stay == UNCHANGED <<currentState, x_sum, y_sum>>

\* Only the left button / only the right button is held.
LeftOnly(p) == p.lb /\ ~(p.rb \/ p.mb)
RightOnly(p) == p.rb /\ ~(p.lb \/ p.mb)

-----------------------------------------------------------------------------
(* START: a left-only packet starts the first stroke.                      *)
FromStart(p) ==
  /\ currentState = "START"
  /\ IF LeftOnly(p) THEN state_change("DRAWING1") ELSE Stay

(* DRAWING1, left-only: state_maintain, clamp both sums at 0 from below,   *)
(* abort when the packet moves left or down by more than the tolerance.    *)
Drawing1Move(p) ==
  LET xs == x_sum + p.delta_x
      ys == y_sum + p.delta_y
  IN  /\ currentState = "DRAWING1"
      /\ LeftOnly(p)
      /\ IF \/ p.delta_x < 0 /\ Abs(p.delta_x) > TOLERANCE
            \/ p.delta_y < 0 /\ Abs(p.delta_y) > TOLERANCE
         THEN state_change("START")
         ELSE /\ x_sum' = IF xs < 0 THEN 0 ELSE xs
              /\ y_sum' = IF ys < 0 THEN 0 ELSE ys
              /\ UNCHANGED currentState

(* DRAWING1, no button held: the first stroke ends, at PEAK if it was long *)
(* and steep enough, else back at START.  With the right or middle button  *)
(* held the call changes nothing.                                          *)
Drawing1Other(p) ==
  /\ currentState = "DRAWING1"
  /\ ~LeftOnly(p)
  /\ IF ~p.rb /\ ~(p.rb \/ p.mb)
     THEN IF x_sum >= X_LEN /\ y_sum > x_sum
          THEN state_change("PEAK") ELSE state_change("START")
     ELSE Stay

(* PEAK: any left or middle press, or motion beyond the tolerance, aborts; *)
(* otherwise a right press starts the second stroke.                       *)
FromPeak(p) ==
  /\ currentState = "PEAK"
  /\ IF \/ p.lb \/ p.mb
        \/ Abs(p.delta_x) > TOLERANCE \/ Abs(p.delta_y) > TOLERANCE
     THEN state_change("START")
     ELSE IF p.rb THEN state_change("DRAWING2") ELSE Stay

\* Mutant of Drawing2Move: y_sum clamped from below, as in DRAWING1.
Drawing2MoveClampBelow(p) ==
  LET xs == x_sum + p.delta_x
      ys == y_sum + p.delta_y
  IN  /\ currentState = "DRAWING2"
      /\ RightOnly(p)
      /\ IF \/ p.delta_x < 0 /\ Abs(p.delta_x) > TOLERANCE
            \/ p.delta_y > 0 /\ Abs(p.delta_y) > TOLERANCE
         THEN state_change("START")
         ELSE /\ x_sum' = IF xs < 0 THEN 0 ELSE xs
              /\ y_sum' = IF ys < 0 THEN 0 ELSE ys
              /\ UNCHANGED currentState

(* DRAWING2, right-only: accumulate, clamp x_sum at 0 from below and y_sum *)
(* at 0 from above, abort on motion left or up beyond the tolerance.       *)
Drawing2Move(p) ==
  LET xs == x_sum + p.delta_x
      ys == y_sum + p.delta_y
  IN  /\ currentState = "DRAWING2"
      /\ RightOnly(p)
      /\ IF \/ p.delta_x < 0 /\ Abs(p.delta_x) > TOLERANCE
            \/ p.delta_y > 0 /\ Abs(p.delta_y) > TOLERANCE
         THEN state_change("START")
         ELSE /\ x_sum' = IF xs < 0 THEN 0 ELSE xs
              /\ y_sum' = IF ys > 0 THEN 0 ELSE ys
              /\ UNCHANGED currentState

(* DRAWING2, right and middle released: the gesture completes if the       *)
(* second stroke was long and steep enough, else back at START.            *)
Drawing2Other(p) ==
  /\ currentState = "DRAWING2"
  /\ ~RightOnly(p)
  /\ IF ~p.rb /\ ~(p.rb \/ p.mb)
     THEN IF x_sum >= X_LEN /\ -y_sum > x_sum
          THEN state_change("COMPLETE") ELSE state_change("START")
     ELSE Stay

(* COMPLETE: the default case, nothing changes.                            *)
AtComplete(p) ==
  /\ currentState = "COMPLETE"
  /\ Stay

(* One call of mouse_state_machine with packet p.  Calls that would take a *)
(* sum beyond SumBound are not explored.                                   *)
mouse_state_machine(p) ==
  /\ pp' = p
  /\ \/ FromStart(p)
     \/ Drawing1Move(p)
     \/ Drawing1Other(p)
     \/ FromPeak(p)
     \/ Drawing2Move(p)
     \/ Drawing2Other(p)
     \/ AtComplete(p)
  /\ Abs(x_sum') <= SumBound /\ Abs(y_sum') <= SumBound

Next == \E p \in Packets : mouse_state_machine(p)

Spec == Init /\ [][Next]_vars

-----------------------------------------------------------------------------
TypeOK ==
  /\ currentState \in States
  /\ x_sum \in -SumBound .. SumBound
  /\ y_sum \in -SumBound .. SumBound
  /\ pp \in Packets

(***************************************************************************)
(* The running sums belong to the current stroke (spec 3, 4.5): they are   *)
(* zero outside the two strokes, non-negative in the first, and in the     *)
(* second x_sum is non-negative and y_sum non-positive -- the one-sided    *)
(* clamps of mouse_state_machine are what keep them so.                    *)
(***************************************************************************)
SumsScoped ==
  /\ currentState \in {"START", "PEAK", "COMPLETE"} => x_sum = 0 /\ y_sum = 0
  /\ currentState = "DRAWING1" => x_sum >= 0 /\ y_sum >= 0
  /\ currentState = "DRAWING2" => x_sum >= 0 /\ y_sum <= 0

(***************************************************************************)
(* Spec 8: "Injecting a middle-button press at any point resets to IDLE":  *)
(* a packet with the middle button pressed, fed to the machine in the      *)
(* middle of a gesture, takes it back to START.                            *)
(***************************************************************************)
MiddleButtonResets ==
  [][ (pp'.mb /\ currentState \in {"DRAWING1", "PEAK", "DRAWING2"})
        => currentState' = "START" ]_vars

(***************************************************************************)
(* Spec 4.5: STROKE_2 mirrors STROKE_1, so a stroke ends "on release":     *)
(* the machine leaves a stroke for PEAK or COMPLETE only on a packet with  *)
(* no button held.                                                         *)
(***************************************************************************)
StrokeEndsOnRelease ==
  [][ (currentState' \in {"PEAK", "COMPLETE"} /\ currentState' # currentState)
        => ~(pp'.lb \/ pp'.rb \/ pp'.mb) ]_vars

=============================================================================
