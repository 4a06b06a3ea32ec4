------------------------------ MODULE Dispatcher ------------------------------
(***************************************************************************)
(* The game's event loop and dispatcher: proj_main_loop (src/proj/src/     *)
(* proj.c 70-125), game_state_handler, kbd_state_handler and               *)
(* mouse_state_handler (dispatcher/dispatcher.c), the menus' handlers      *)
(* (menu/menu.c), handle_game_keyboard (logic/game_logic.c) and the game   *)
(* state (dispatcher/state.c).                                             *)
(*                                                                         *)
(* One step is one notification: its mouse branch, its timer branch and    *)
(* its keyboard branch run in that order, each on the state the one before *)
(* left.  The byte-level channels are in MouseChannel and KeyboardChannel: *)
(* here a mouse interrupt either completes a packet or not, a keyboard     *)
(* interrupt either completes a scancode or not.  The cursor, sprites,     *)
(* score and timers are data no property reads and are left out; what a    *)
(* packet does to a menu is which option's hitbox the cursor lands in.     *)
(*                                                                         *)
(* current_menu is a pointer: NULL, pointing to a live menu, or dangling   *)
(* after free_menu, which does not reset it.  No other variable holds a    *)
(* menu, so a live menu that current_menu stops pointing to is lost.       *)
(***************************************************************************)
EXTENDS Integers, Sequences

CONSTANTS
  Codes    \* the last byte of the scancodes the keyboard completes

ARROW_UP_BREAK_CODE == 200    \* 0xc8
ARROW_DOWN_BREAK_CODE == 208  \* 0xd0
SPACEBAR_BREAK_CODE == 185    \* 0xb9

ASSUME CodesAssumption == Codes \subseteq 0 .. 255

\* enum State of dispatcher/state.h
States == {"INITIAL", "INITIAL_MENU", "LOADING_MAIN_MENU", "MAIN_MENU",
           "LOADING_HELP", "HELP_MENU", "LOADING_HIGHSCORES", "HIGHSCORES_MENU",
           "WAITING", "LOADING_GAME", "INGAME", "LOADING_PAUSE", "PAUSE_MENU",
           "GAME_END", "GAME_OVER", "NEW_HIGHSCORE", "KILL"}

\* The states whose handlers show and drive current_menu, and its menu.
MenuOf == [INITIAL_MENU |-> "initial", MAIN_MENU |-> "main",
           HELP_MENU |-> "help", HIGHSCORES_MENU |-> "highscores",
           PAUSE_MENU |-> "pause", GAME_OVER |-> "game_over"]
MenuStates == DOMAIN MenuOf
Kinds == {MenuOf[s] : s \in MenuStates}

\* options_state of each menu the load_*_menu functions build.
Options == [initial |-> <<"LOADING_MAIN_MENU">>,
            main |-> <<"LOADING_GAME", "LOADING_HELP", "LOADING_HIGHSCORES", "KILL">>,
            help |-> <<"LOADING_MAIN_MENU">>,
            highscores |-> <<"LOADING_MAIN_MENU">>,
            pause |-> <<"INGAME", "LOADING_MAIN_MENU", "KILL">>,
            game_over |-> <<"GAME_OVER", "LOADING_GAME", "LOADING_MAIN_MENU", "KILL">>]

Pointers == [kind : Kinds, st : {"null", "live", "dangling"}, sel : -1 .. 3]
NULL == [kind |-> "initial", st |-> "null", sel |-> 0]

\* What a completed mouse packet brings: the left button, and the option
\* whose hitbox the cursor is in after move_cursor (-1: none).
Packets == [lb : BOOLEAN, hit : -1 .. 3]
NoPacket == [lb |-> FALSE, hit |-> -2]
NoKey == -1
IRQs == {"mouse", "timer", "kbd"}

VARIABLES
  state,          \* game_state.state
  current_menu,   \* the pointer current_menu, with its menu's selected_option
  timer_counter,  \* timer_counter % 2: the loop reads only its parity
  leaked,         \* ghost: a live menu was made unreachable
  drawn,          \* ghost: the last notification ran game_state_handler
  irqs            \* ghost: the interrupts of the last notification

vars == <<state, current_menu, timer_counter, leaked, drawn, irqs>>

\* init_game_state, after the globals' initial values.
Init ==
  /\ state = "INITIAL"
  /\ current_menu = NULL
  /\ timer_counter = 0
  /\ leaked = FALSE
  /\ drawn = FALSE
  /\ irqs = {}

-----------------------------------------------------------------------------
(* The handlers as functions of g, a record of the four variables they     *)
(* change, so that the three branches of a notification compose.           *)

NumOptions(m) == Len(Options[m.kind])

\* create_menu (through get_*_menu) assigned to current_menu: a new live
\* menu with option 0 selected; the menu it pointed to is lost if live.
Load(g, kind) ==
  [g EXCEPT !.menu = [kind |-> kind, st |-> "live", sel |-> 0],
            !.leaked = g.leaked \/ g.menu.st = "live"]

\* free_menu(current_menu): a no-op on NULL; the pointer is left dangling.
free_menu(g) ==
  [g EXCEPT !.menu.st = IF g.menu.st = "null" THEN "null" ELSE "dangling"]

SetState(g, s) == [g EXCEPT !.state = s]

\* Mutant of game_state_handler: GAME_END goes to GAME_OVER without
\* loading the game-over menu.
game_state_handlerNoGameOverMenu(g, dies) ==
  CASE g.state = "INITIAL" -> SetState(Load(g, "initial"), "INITIAL_MENU")
    [] g.state = "LOADING_MAIN_MENU" -> SetState(Load(free_menu(g), "main"), "MAIN_MENU")
    [] g.state = "LOADING_HELP" -> SetState(Load(free_menu(g), "help"), "HELP_MENU")
    [] g.state = "LOADING_HIGHSCORES" ->
         SetState(Load(free_menu(g), "highscores"), "HIGHSCORES_MENU")
    [] g.state = "LOADING_PAUSE" -> SetState(Load(g, "pause"), "PAUSE_MENU")
    [] g.state = "LOADING_GAME" -> SetState(free_menu(g), "INGAME")
    [] g.state = "INGAME" -> IF dies THEN SetState(g, "GAME_END") ELSE g
    [] g.state = "GAME_END" -> SetState(g, "GAME_OVER")
    [] g.state = "KILL" -> free_menu(g)
    [] OTHER -> g

\* game_state_handler, dies: draw_game's update_enemies took the tank's
\* last hit point (set_state(GAME_END)).
game_state_handler(g, dies) ==
  CASE g.state = "INITIAL" -> SetState(Load(g, "initial"), "INITIAL_MENU")
    [] g.state = "LOADING_MAIN_MENU" -> SetState(Load(free_menu(g), "main"), "MAIN_MENU")
    [] g.state = "LOADING_HELP" -> SetState(Load(free_menu(g), "help"), "HELP_MENU")
    [] g.state = "LOADING_HIGHSCORES" ->
         SetState(Load(free_menu(g), "highscores"), "HIGHSCORES_MENU")
    [] g.state = "LOADING_PAUSE" -> SetState(Load(g, "pause"), "PAUSE_MENU")
    [] g.state = "LOADING_GAME" -> SetState(free_menu(g), "INGAME")
    [] g.state = "INGAME" -> IF dies THEN SetState(g, "GAME_END") ELSE g
    [] g.state = "GAME_END" -> SetState(Load(g, "game_over"), "GAME_OVER")
    [] g.state = "KILL" -> free_menu(g)
    [] OTHER -> g

\* Mutant of handle_menu_keyboard: arrow-down wraps only past n.
handle_menu_keyboardLateWrap(g, code) ==
  LET m == g.menu
      n == NumOptions(m)
  IN  CASE code = ARROW_UP_BREAK_CODE ->
             [g EXCEPT !.menu.sel = IF m.sel - 1 < 0 THEN n - 1 ELSE m.sel - 1]
        [] code = ARROW_DOWN_BREAK_CODE ->
             [g EXCEPT !.menu.sel = IF m.sel + 1 > n THEN 0 ELSE m.sel + 1]
        [] code = SPACEBAR_BREAK_CODE /\ m.sel \in 0 .. n - 1 ->
             SetState(g, Options[m.kind][m.sel + 1])
        [] OTHER -> g

\* handle_menu_keyboard: the arrows move the selection round the options,
\* the spacebar takes the selected option if one is selected.
handle_menu_keyboard(g, code) ==
  LET m == g.menu
      n == NumOptions(m)
  IN  CASE code = ARROW_UP_BREAK_CODE ->
             [g EXCEPT !.menu.sel = IF m.sel - 1 < 0 THEN n - 1 ELSE m.sel - 1]
        [] code = ARROW_DOWN_BREAK_CODE ->
             [g EXCEPT !.menu.sel = IF m.sel + 1 >= n THEN 0 ELSE m.sel + 1]
        [] code = SPACEBAR_BREAK_CODE /\ m.sel \in 0 .. n - 1 ->
             SetState(g, Options[m.kind][m.sel + 1])
        [] OTHER -> g

\* handle_game_keyboard: the spacebar pauses; the W/A/S/D moves are data.
handle_game_keyboard(g, code) ==
  IF code = SPACEBAR_BREAK_CODE THEN SetState(g, "LOADING_PAUSE") ELSE g

kbd_state_handler(g, code) ==
  CASE g.state \in MenuStates -> handle_menu_keyboard(g, code)
    [] g.state = "INGAME" -> handle_game_keyboard(g, code)
    [] OTHER -> g

\* handle_menu_hover: the option whose hitbox holds the cursor is selected;
\* one that no longer holds it is deselected (-1).
handle_menu_hover(g, hit) == [g EXCEPT !.menu.sel = hit]

\* handle_menu_click: the state of the option under the cursor is taken.
handle_menu_click(g, hit) ==
  IF hit >= 0 THEN SetState(g, Options[g.menu.kind][hit + 1]) ELSE g

\* mouse_state_handler: in a menu, move the cursor, hover, and click on a
\* left press; in the game the cursor move and the shot are data.
mouse_state_handler(g, p) ==
  LET hit == IF p.hit < NumOptions(g.menu) THEN p.hit ELSE -1
      h == handle_menu_hover(g, hit)
  IN  IF g.state \in MenuStates
      THEN IF p.lb THEN handle_menu_click(h, hit) ELSE h
      ELSE g

-----------------------------------------------------------------------------
\* proj.c 81-93: a completed packet goes to mouse_state_handler.
MouseBranch(g, p) == IF p # NoPacket THEN mouse_state_handler(g, p) ELSE g

\* Mutant of TimerBranch: timer_counter reset after the increment.
TimerBranchReset(g, dies) ==
  LET t == (g.tc + 1) % 2
  IN  IF t = 0 THEN game_state_handler([g EXCEPT !.tc = 0], dies)
               ELSE [g EXCEPT !.tc = 0]

\* Mutant of TimerBranch: the frame runs on the count as it was, without
\* the increment stored.
TimerBranchNoStore(g, dies) ==
  LET t == (g.tc + 1) % 2
  IN  IF t = 0 THEN game_state_handler(g, dies)
               ELSE [g EXCEPT !.tc = t]

\* proj.c 94-102: timer_int_handler, then a frame on an even count.
TimerBranch(g, dies) ==
  LET t == (g.tc + 1) % 2
  IN  IF t = 0 THEN game_state_handler([g EXCEPT !.tc = t], dies)
               ELSE [g EXCEPT !.tc = t]

\* proj.c 103-115: a completed scancode goes to kbd_state_handler, and
\* timer_counter is reset whether or not one was completed.
KbdBranch(g, code) ==
  [(IF code # NoKey THEN kbd_state_handler(g, code) ELSE g) EXCEPT !.tc = 0]

(* One notification with interrupts S: the mouse branch (a packet p        *)
(* completed, or NoPacket), the timer branch, then the keyboard branch (a  *)
(* scancode completed, or NoKey).  The loop runs while the state read      *)
(* after the last notification is not KILL.                                *)
Notify(S, p, code, dies) ==
  LET g0 == [state |-> state, menu |-> current_menu, tc |-> timer_counter,
             leaked |-> leaked]
      g1 == IF "mouse" \in S THEN MouseBranch(g0, p) ELSE g0
      g2 == IF "timer" \in S THEN TimerBranch(g1, dies) ELSE g1
      g3 == IF "kbd" \in S THEN KbdBranch(g2, code) ELSE g2
  IN  /\ state # "KILL"
      /\ state' = g3.state
      /\ current_menu' = g3.menu
      /\ timer_counter' = g3.tc
      /\ leaked' = g3.leaked
      /\ drawn' = ("timer" \in S /\ g1.tc = 1)
      /\ irqs' = S

Next ==
  \E S \in SUBSET IRQs \ {{}}, p \in Packets \cup {NoPacket},
     code \in Codes \cup {NoKey}, dies \in BOOLEAN :
    Notify(S, p, code, dies)

\* Timer 0 interrupts 60 times a second and is subscribed for the whole
\* loop: a notification carrying it cannot be withheld for ever.
TimerFires ==
  \E S \in {T \in SUBSET IRQs : "timer" \in T}, p \in Packets \cup {NoPacket},
     code \in Codes \cup {NoKey}, dies \in BOOLEAN :
    Notify(S, p, code, dies)

Spec == Init /\ [][Next]_vars

FairSpec == Spec /\ WF_vars(TimerFires)

-----------------------------------------------------------------------------
TypeOK ==
  /\ state \in States
  /\ current_menu \in Pointers
  /\ timer_counter \in 0 .. 1
  /\ leaked \in BOOLEAN /\ drawn \in BOOLEAN
  /\ irqs \in SUBSET IRQs

(***************************************************************************)
(* current_menu is safe to use wherever the dispatcher uses it: in every   *)
(* menu state (where game_state_handler displays it and the input handlers *)
(* change and read it) it points to the live menu of that state, and in    *)
(* the loading states that call free_menu on it, it is not dangling.  The  *)
(* pointer is freed without being reset at LOADING_GAME, so this rests on  *)
(* every way out of INGAME loading a new menu before the next use.         *)
(***************************************************************************)
MenuOwnership ==
  /\ state \in MenuStates =>
       current_menu.st = "live" /\ current_menu.kind = MenuOf[state]
  /\ state \in {"LOADING_MAIN_MENU", "LOADING_HELP", "LOADING_HIGHSCORES",
                "LOADING_GAME"} => current_menu.st # "dangling"

(***************************************************************************)
(* Every menu create_menu allocates is freed before current_menu is        *)
(* pointed at another one: no menu becomes unreachable.                    *)
(***************************************************************************)
MenusReachable == ~leaked

(***************************************************************************)
(* proj.c 97-98: timer 0 interrupts 60 times a second and a frame runs on  *)
(* every second tick, 30 fps.  No two notifications in a row both run      *)
(* game_state_handler: a frame leaves timer_counter even, as does the      *)
(* keyboard branch's reset, and the next tick makes it odd.                *)
(***************************************************************************)
FramesAtHalfRate == [][drawn => ~drawn']_vars

(***************************************************************************)
(* Frames come back once the typing stops: if from some point on no        *)
(* notification carries the keyboard interrupt, game_state_handler runs    *)
(* again and again (until the loop ends at KILL).  The keyboard branch's   *)
(* timer_counter = 0 is what can hold the frames back while keys arrive.   *)
(***************************************************************************)
FramesResume ==
  (<>[]("kbd" \notin irqs)) => []<>(drawn \/ state = "KILL")

=============================================================================
