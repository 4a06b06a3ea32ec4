--------------------------- MODULE DispatcherProofs ---------------------------
(***************************************************************************)
(* Proofs about the dispatcher of Dispatcher.tla, for every set of key     *)
(* codes.  The handlers are functions of a record g of the state, the      *)
(* pointer, the counter and the leak flag; each one is shown to keep the   *)
(* ownership of current_menu, so their composition in a notification does. *)
(***************************************************************************)
EXTENDS Dispatcher, TLAPS

\* The states in which game_state_handler calls free_menu on current_menu.
FreeingStates ==
  {"LOADING_MAIN_MENU", "LOADING_HELP", "LOADING_HIGHSCORES", "LOADING_GAME"}

\* g and its menu are records with the fields the handlers use.
Shaped(g) ==
  /\ DOMAIN g = {"state", "menu", "tc", "leaked"}
  /\ DOMAIN g.menu = {"kind", "st", "sel"}

\* MenuOwnership, stated of a record g.
Owns(g) ==
  /\ g.state \in MenuStates =>
       g.menu.st = "live" /\ g.menu.kind = MenuOf[g.state]
  /\ g.state \in FreeingStates => g.menu.st # "dangling"

GInv(g) == Shaped(g) /\ Owns(g)

\* The kinds of menu.
LEMMA KindsDef ==
  Kinds = {"initial", "main", "help", "highscores", "pause", "game_over"}
BY DEF Kinds, MenuStates, MenuOf

(***************************************************************************)
(* The primitives the handlers are built from: what each one changes of a  *)
(* shaped record, and that the result is shaped.                           *)
(***************************************************************************)
LEMMA LoadG ==
  ASSUME NEW g, Shaped(g), NEW k
  PROVE  /\ Shaped(Load(g, k))
         /\ Load(g, k).state = g.state
         /\ Load(g, k).menu.st = "live" /\ Load(g, k).menu.kind = k
BY DEF Load, Shaped

LEMMA FreeG ==
  ASSUME NEW g, Shaped(g)
  PROVE  /\ Shaped(free_menu(g))
         /\ free_menu(g).state = g.state
         /\ g.menu.st = "null" => free_menu(g).menu.st = "null"
BY DEF free_menu, Shaped

LEMMA SetG ==
  ASSUME NEW g, Shaped(g), NEW s
  PROVE  /\ Shaped(SetState(g, s))
         /\ SetState(g, s).state = s
         /\ SetState(g, s).menu = g.menu
BY DEF SetState, Shaped

\* A change of the selection or of the counter keeps the rest.
LEMMA SelG ==
  ASSUME NEW g, Shaped(g), NEW x
  PROVE  /\ Shaped([g EXCEPT !.menu.sel = x])
         /\ [g EXCEPT !.menu.sel = x].state = g.state
         /\ [g EXCEPT !.menu.sel = x].menu.st = g.menu.st
         /\ [g EXCEPT !.menu.sel = x].menu.kind = g.menu.kind
BY DEF Shaped

LEMMA TcG ==
  ASSUME NEW g, Shaped(g), NEW x
  PROVE  /\ Shaped([g EXCEPT !.tc = x])
         /\ [g EXCEPT !.tc = x].state = g.state
         /\ [g EXCEPT !.tc = x].menu = g.menu
BY DEF Shaped

(***************************************************************************)
(* The only option that leads to a menu state is the game-over menu's      *)
(* first one, which leads back to GAME_OVER; every other option leads to a *)
(* LOADING state, INGAME or KILL.                                          *)
(***************************************************************************)
LEMMA OptionTargets ==
  ASSUME NEW k \in Kinds, NEW i \in 1 .. Len(Options[k]),
         Options[k][i] \in MenuStates
  PROVE  k = "game_over" /\ Options[k][i] = "GAME_OVER"
<1>1. k \in {"initial", "main", "help", "highscores", "pause", "game_over"}
  BY KindsDef
<1>2. CASE k = "game_over"
  BY <1>2 DEF Options, MenuStates, MenuOf
<1>3. CASE k = "initial" \/ k = "help" \/ k = "highscores"
  BY <1>3 DEF Options, MenuStates, MenuOf
<1>4. CASE k = "main"
  BY <1>4 DEF Options, MenuStates, MenuOf
<1>5. CASE k = "pause"
  BY <1>5 DEF Options, MenuStates, MenuOf
<1>6. QED
  BY <1>1, <1>2, <1>3, <1>4, <1>5

\* Taking option i of the menu shown in a menu state keeps the ownership.
LEMMA TakeOwns ==
  ASSUME NEW g, GInv(g), g.state \in MenuStates,
         NEW i \in 1 .. NumOptions(g.menu)
  PROVE  GInv(SetState(g, Options[g.menu.kind][i]))
<1> DEFINE s == Options[g.menu.kind][i]
<1>1. g.menu.st = "live" /\ g.menu.kind = MenuOf[g.state]
  BY DEF GInv, Owns
<1>2. g.menu.kind \in Kinds
  BY <1>1 DEF Kinds
<1>3. s \in MenuStates => g.menu.kind = "game_over" /\ s = "GAME_OVER"
  BY <1>2, OptionTargets DEF NumOptions
<1>4. QED
  BY <1>1, <1>3, SetG DEF GInv, Owns, MenuOf, MenuStates
(***************************************************************************)
(* A frame of game_state_handler keeps the ownership of current_menu: each *)
(* LOADING state frees only what it may free and loads the menu of the     *)
(* state it sets, LOADING_GAME leaves the pointer dangling in INGAME, from *)
(* where only LOADING_PAUSE and GAME_END lead on, and both load a menu.    *)
(***************************************************************************)
LEMMA HandlerOwns ==
  ASSUME NEW g, GInv(g), NEW dies
  PROVE  GInv(game_state_handler(g, dies))
<1> DEFINE h == game_state_handler(g, dies)
<1>0. Shaped(g)
  BY DEF GInv
<1>1. CASE g.state = "INITIAL"
  <2>1. h = SetState(Load(g, "initial"), "INITIAL_MENU")
    BY <1>1 DEF game_state_handler
  <2>2. QED
    BY <2>1, <1>0, <1>1, LoadG, SetG
    DEF GInv, Owns, MenuStates, MenuOf, FreeingStates
<1>2. CASE g.state = "LOADING_MAIN_MENU"
  <2>1. h = SetState(Load(free_menu(g), "main"), "MAIN_MENU")
    BY <1>2 DEF game_state_handler
  <2>2. QED
    BY <2>1, <1>0, <1>2, LoadG, FreeG, SetG
    DEF GInv, Owns, MenuStates, MenuOf, FreeingStates
<1>3. CASE g.state = "LOADING_HELP"
  <2>1. h = SetState(Load(free_menu(g), "help"), "HELP_MENU")
    BY <1>3 DEF game_state_handler
  <2>2. QED
    BY <2>1, <1>0, <1>3, LoadG, FreeG, SetG
    DEF GInv, Owns, MenuStates, MenuOf, FreeingStates
<1>4. CASE g.state = "LOADING_HIGHSCORES"
  <2>1. h = SetState(Load(free_menu(g), "highscores"), "HIGHSCORES_MENU")
    BY <1>4 DEF game_state_handler
  <2>2. QED
    BY <2>1, <1>0, <1>4, LoadG, FreeG, SetG
    DEF GInv, Owns, MenuStates, MenuOf, FreeingStates
<1>5. CASE g.state = "LOADING_PAUSE"
  <2>1. h = SetState(Load(g, "pause"), "PAUSE_MENU")
    BY <1>5 DEF game_state_handler
  <2>2. QED
    BY <2>1, <1>0, <1>5, LoadG, SetG
    DEF GInv, Owns, MenuStates, MenuOf, FreeingStates
<1>6. CASE g.state = "LOADING_GAME"
  <2>1. h = SetState(free_menu(g), "INGAME")
    BY <1>6 DEF game_state_handler
  <2>2. QED
    BY <2>1, <1>0, <1>6, FreeG, SetG
    DEF GInv, Owns, MenuStates, MenuOf, FreeingStates
<1>7. CASE g.state = "INGAME"
  <2>1. h = IF dies THEN SetState(g, "GAME_END") ELSE g
    BY <1>7 DEF game_state_handler
  <2>2. QED
    BY <2>1, <1>0, <1>7, SetG
    DEF GInv, Owns, MenuStates, MenuOf, FreeingStates
<1>8. CASE g.state = "GAME_END"
  <2>1. h = SetState(Load(g, "game_over"), "GAME_OVER")
    BY <1>8 DEF game_state_handler
  <2>2. QED
    BY <2>1, <1>0, <1>8, LoadG, SetG
    DEF GInv, Owns, MenuStates, MenuOf, FreeingStates
<1>9. CASE g.state = "KILL"
  <2>1. h = free_menu(g)
    BY <1>9 DEF game_state_handler
  <2>2. QED
    BY <2>1, <1>0, <1>9, FreeG
    DEF GInv, Owns, MenuStates, MenuOf, FreeingStates
<1>10. CASE g.state \notin {"INITIAL", "LOADING_MAIN_MENU", "LOADING_HELP",
                            "LOADING_HIGHSCORES", "LOADING_PAUSE", "LOADING_GAME",
                            "INGAME", "GAME_END", "KILL"}
  <2>1. h = g
    BY <1>10 DEF game_state_handler
  <2>2. QED
    BY <2>1
<1>11. QED
  BY <1>1, <1>2, <1>3, <1>4, <1>5, <1>6, <1>7, <1>8, <1>9, <1>10
\* Every menu has one to four options.
LEMMA NumOptionsRange ==
  ASSUME NEW m, m.kind \in Kinds
  PROVE  NumOptions(m) \in 1 .. 4
<1>1. m.kind \in {"initial", "main", "help", "highscores", "pause", "game_over"}
  BY KindsDef
<1>2. QED
  BY <1>1 DEF NumOptions, Options

\* In a menu state the menu shown is of a kind the model knows.
LEMMA MenuKind ==
  ASSUME NEW g, GInv(g), g.state \in MenuStates
  PROVE  g.menu.kind \in Kinds
BY DEF GInv, Owns, Kinds

(***************************************************************************)
(* handle_menu_keyboard keeps the ownership: the arrows change only the    *)
(* selection, and the spacebar takes a selected option of the menu shown.  *)
(***************************************************************************)
LEMMA MenuKbdOwns ==
  ASSUME NEW g, GInv(g), g.state \in MenuStates, NEW code
  PROVE  GInv(handle_menu_keyboard(g, code))
<1> DEFINE n == NumOptions(g.menu)
<1>1. n \in 1 .. 4
  BY MenuKind, NumOptionsRange
<1>2. ASSUME NEW x PROVE GInv([g EXCEPT !.menu.sel = x])
  BY SelG DEF GInv, Owns
<1>3. CASE code = ARROW_UP_BREAK_CODE
  <2> DEFINE v == IF g.menu.sel - 1 < 0 THEN n - 1 ELSE g.menu.sel - 1
  <2>1. handle_menu_keyboard(g, code) = [g EXCEPT !.menu.sel = v]
    BY <1>3 DEF handle_menu_keyboard, ARROW_UP_BREAK_CODE, ARROW_DOWN_BREAK_CODE,
               SPACEBAR_BREAK_CODE
  <2>2. QED
    BY <2>1, <1>2
<1>4. CASE code = ARROW_DOWN_BREAK_CODE
  <2> DEFINE v == IF g.menu.sel + 1 >= n THEN 0 ELSE g.menu.sel + 1
  <2>1. handle_menu_keyboard(g, code) = [g EXCEPT !.menu.sel = v]
    BY <1>4 DEF handle_menu_keyboard, ARROW_UP_BREAK_CODE, ARROW_DOWN_BREAK_CODE,
               SPACEBAR_BREAK_CODE
  <2>2. QED
    BY <2>1, <1>2
<1>5. CASE code = SPACEBAR_BREAK_CODE /\ g.menu.sel \in 0 .. n - 1
  <2>1. handle_menu_keyboard(g, code) = SetState(g, Options[g.menu.kind][g.menu.sel + 1])
    BY <1>5 DEF handle_menu_keyboard, ARROW_UP_BREAK_CODE, ARROW_DOWN_BREAK_CODE,
               SPACEBAR_BREAK_CODE
  <2>2. g.menu.sel + 1 \in 1 .. n
    BY <1>1, <1>5
  <2>3. QED
    BY <2>1, <2>2, TakeOwns
<1>6. CASE ~(code = ARROW_UP_BREAK_CODE) /\ ~(code = ARROW_DOWN_BREAK_CODE)
           /\ ~(code = SPACEBAR_BREAK_CODE /\ g.menu.sel \in 0 .. n - 1)
  BY <1>6 DEF handle_menu_keyboard
<1>7. QED
  BY <1>3, <1>4, <1>5, <1>6

\* kbd_state_handler keeps the ownership: in the game the spacebar only
\* sets LOADING_PAUSE, which frees nothing.
LEMMA KbdOwns ==
  ASSUME NEW g, GInv(g), NEW code
  PROVE  GInv(kbd_state_handler(g, code))
<1>1. CASE g.state \in MenuStates
  <2>1. kbd_state_handler(g, code) = handle_menu_keyboard(g, code)
    BY <1>1 DEF kbd_state_handler, MenuStates, MenuOf
  <2>2. QED
    BY <2>1, <1>1, MenuKbdOwns
<1>2. CASE g.state = "INGAME"
  <2>1. ~(g.state \in MenuStates)
    BY <1>2 DEF MenuStates, MenuOf
  <2>2. kbd_state_handler(g, code) = handle_game_keyboard(g, code)
    BY <1>2, <2>1 DEF kbd_state_handler
  <2>3. QED
    BY <2>2, SetG DEF handle_game_keyboard, GInv, Owns, MenuStates, MenuOf,
       FreeingStates
<1>3. CASE ~(g.state \in MenuStates) /\ g.state # "INGAME"
  BY <1>3 DEF kbd_state_handler
<1>4. QED
  BY <1>1, <1>2, <1>3
(***************************************************************************)
(* mouse_state_handler keeps the ownership: hovering changes only the      *)
(* selection, and a click takes an option of the menu shown, since the    *)
(* option hit is below the number of options.                             *)
(***************************************************************************)
LEMMA MouseOwns ==
  ASSUME NEW g, GInv(g), NEW p \in Packets
  PROVE  GInv(mouse_state_handler(g, p))
<1> DEFINE hit == IF p.hit < NumOptions(g.menu) THEN p.hit ELSE -1
           h == handle_menu_hover(g, hit)
<1>1. CASE g.state \in MenuStates
  <2>1. NumOptions(g.menu) \in 1 .. 4
    BY <1>1, MenuKind, NumOptionsRange
  <2>2. hit \in -1 .. NumOptions(g.menu) - 1
    BY <2>1 DEF Packets
  <2>3. GInv(h) /\ h.state = g.state /\ h.menu.kind = g.menu.kind
    BY SelG DEF handle_menu_hover, GInv, Owns
  <2>4. hit >= 0 => GInv(handle_menu_click(h, hit))
    <3> SUFFICES ASSUME hit >= 0 PROVE GInv(handle_menu_click(h, hit))
      OBVIOUS
    <3>1. hit + 1 \in 1 .. NumOptions(h.menu)
      BY <2>2, <2>3 DEF NumOptions
    <3>2. handle_menu_click(h, hit) = SetState(h, Options[h.menu.kind][hit + 1])
      BY DEF handle_menu_click
    <3>3. QED
      BY <1>1, <2>3, <3>1, <3>2, TakeOwns
  <2>5. hit < 0 => handle_menu_click(h, hit) = h
    BY <2>2 DEF handle_menu_click
  <2>6. QED
    BY <1>1, <2>2, <2>3, <2>4, <2>5 DEF mouse_state_handler
<1>2. CASE g.state \notin MenuStates
  BY <1>2 DEF mouse_state_handler
<1>3. QED
  BY <1>1, <1>2

\* Each branch of a notification keeps the ownership.
LEMMA BranchesOwn ==
  ASSUME NEW g, GInv(g)
  PROVE  /\ \A p \in Packets \cup {NoPacket} : GInv(MouseBranch(g, p))
         /\ \A dies : GInv(TimerBranch(g, dies))
         /\ \A code : GInv(KbdBranch(g, code))
<1>1. ASSUME NEW p \in Packets \cup {NoPacket} PROVE GInv(MouseBranch(g, p))
  <2>1. CASE p = NoPacket
    BY <2>1 DEF MouseBranch
  <2>2. CASE p # NoPacket
    BY <2>2, MouseOwns DEF MouseBranch
  <2>3. QED
    BY <2>1, <2>2
<1>2. ASSUME NEW dies PROVE GInv(TimerBranch(g, dies))
  <2> DEFINE t == (g.tc + 1) % 2
  <2>1. GInv([g EXCEPT !.tc = t])
    BY TcG DEF GInv, Owns
  <2>2. QED
    BY <2>1, HandlerOwns DEF TimerBranch
<1>3. ASSUME NEW code PROVE GInv(KbdBranch(g, code))
  <2> DEFINE k == IF code # NoKey THEN kbd_state_handler(g, code) ELSE g
  <2>1. GInv(k)
    BY KbdOwns
  <2>2. QED
    BY <2>1, TcG DEF KbdBranch, GInv, Owns
<1>4. QED
  BY <1>1, <1>2, <1>3
-----------------------------------------------------------------------------
(***************************************************************************)
(* The inductive invariant: MenuOwnership, with current_menu a record of   *)
(* its three fields.                                                       *)
(***************************************************************************)
OwnInv ==
  /\ DOMAIN current_menu = {"kind", "st", "sel"}
  /\ MenuOwnership

\* The record of the variables that Notify starts from.
G0 == [state |-> state, menu |-> current_menu, tc |-> timer_counter,
       leaked |-> leaked]

LEMMA G0Inv == OwnInv => GInv(G0)
BY DEF OwnInv, MenuOwnership, G0, GInv, Shaped, Owns, FreeingStates

(***************************************************************************)
(* One notification keeps the ownership, whichever interrupts it carries:  *)
(* the branches run one after the other, each on what the one before left. *)
(***************************************************************************)
LEMMA NotifyOwns ==
  ASSUME OwnInv, NEW S, NEW p \in Packets \cup {NoPacket}, NEW code, NEW dies,
         Notify(S, p, code, dies)
  PROVE  OwnInv'
<1> DEFINE g1 == IF "mouse" \in S THEN MouseBranch(G0, p) ELSE G0
           g2 == IF "timer" \in S THEN TimerBranch(g1, dies) ELSE g1
           g3 == IF "kbd" \in S THEN KbdBranch(g2, code) ELSE g2
<1>1. GInv(G0)
  BY G0Inv
<1>2. GInv(g1)
  BY <1>1, BranchesOwn
<1>3. GInv(g2)
  BY <1>2, BranchesOwn
<1>4. GInv(g3)
  BY <1>3, BranchesOwn
<1>5. state' = g3.state /\ current_menu' = g3.menu
  BY DEF Notify, G0
<1>6. QED
  BY <1>4, <1>5 DEF GInv, Shaped, Owns, OwnInv, MenuOwnership, FreeingStates

LEMMA StepOwns == OwnInv /\ [Next]_vars => OwnInv'
<1> SUFFICES ASSUME OwnInv, [Next]_vars PROVE OwnInv'
  OBVIOUS
<1>1. CASE Next
  BY <1>1, NotifyOwns DEF Next
<1>2. CASE UNCHANGED vars
  BY <1>2 DEF vars, OwnInv, MenuOwnership
<1>3. QED
  BY <1>1, <1>2

(***************************************************************************)
(* For every set of key codes and every order in which the mouse, timer    *)
(* and keyboard interrupts arrive, current_menu is a live menu of the      *)
(* state's own kind in every menu state, and is never dangling when a      *)
(* LOADING state frees it: free_menu at LOADING_GAME leaves it dangling,   *)
(* but every way out of INGAME loads a new menu before it is used.         *)
(***************************************************************************)
THEOREM MenuOwned == Spec => []MenuOwnership
<1>1. Init => OwnInv
  BY DEF Init, NULL, OwnInv, MenuOwnership, MenuStates, MenuOf
<1>2. OwnInv => MenuOwnership
  BY DEF OwnInv
<1>3. QED
  BY <1>1, <1>2, StepOwns, PTL DEF Spec
-----------------------------------------------------------------------------
(***************************************************************************)
(* The frame rate.  A notification that ran a frame left timer_counter     *)
(* even: the frame ran on the tick that made it even, and the keyboard     *)
(* branch after it only resets it.                                         *)
(***************************************************************************)
FrameLeftEven == drawn => timer_counter = 0

RateInv == OwnInv /\ FrameLeftEven

\* The primitives keep the counter.
LEMMA PrimTc ==
  ASSUME NEW g, Shaped(g), NEW k, NEW s, NEW x
  PROVE  /\ Load(g, k).tc = g.tc
         /\ free_menu(g).tc = g.tc
         /\ SetState(g, s).tc = g.tc
         /\ [g EXCEPT !.menu.sel = x].tc = g.tc
BY DEF Load, free_menu, SetState, Shaped

\* game_state_handler changes the state and the menu, never the counter.
LEMMA HandlerTc ==
  ASSUME NEW g, Shaped(g), NEW dies
  PROVE  game_state_handler(g, dies).tc = g.tc
<1>1. /\ Shaped(Load(g, "initial")) /\ Shaped(free_menu(g))
      /\ Shaped(Load(free_menu(g), "main")) /\ Shaped(Load(free_menu(g), "help"))
      /\ Shaped(Load(free_menu(g), "highscores")) /\ Shaped(Load(g, "pause"))
      /\ Shaped(Load(g, "game_over"))
  BY LoadG, FreeG
<1>2. QED
  BY <1>1, PrimTc DEF game_state_handler

\* mouse_state_handler never changes the counter.
LEMMA MouseTc ==
  ASSUME NEW g, Shaped(g), NEW p
  PROVE  MouseBranch(g, p).tc = g.tc
<1> DEFINE hit == IF p.hit < NumOptions(g.menu) THEN p.hit ELSE -1
           h == handle_menu_hover(g, hit)
<1>1. Shaped(h) /\ h.tc = g.tc
  BY SelG, PrimTc DEF handle_menu_hover
<1>2. handle_menu_click(h, hit).tc = g.tc
  BY <1>1, PrimTc DEF handle_menu_click
<1>3. QED
  BY <1>1, <1>2 DEF MouseBranch, mouse_state_handler

\* The timer branch of a tick that runs a frame leaves the counter even.
LEMMA FrameTc ==
  ASSUME NEW g, Shaped(g), g.tc = 1, NEW dies
  PROVE  TimerBranch(g, dies).tc = 0
<1>1. (g.tc + 1) % 2 = 0
  BY SMT
<1>2. Shaped([g EXCEPT !.tc = 0]) /\ [g EXCEPT !.tc = 0].tc = 0
  BY TcG DEF Shaped
<1>3. QED
  BY <1>1, <1>2, HandlerTc DEF TimerBranch

\* The keyboard branch always resets the counter.
LEMMA KbdTc ==
  ASSUME NEW g, GInv(g), NEW code
  PROVE  KbdBranch(g, code).tc = 0
<1>1. GInv(IF code # NoKey THEN kbd_state_handler(g, code) ELSE g)
  BY KbdOwns
<1>2. QED
  BY <1>1 DEF KbdBranch, GInv, Shaped

(***************************************************************************)
(* One notification keeps FrameLeftEven and does not run a frame if the    *)
(* one before did: the counter it starts from is what the mouse branch     *)
(* hands to the timer branch.                                              *)
(***************************************************************************)
LEMMA NotifyRate ==
  ASSUME RateInv, NEW S, NEW p \in Packets \cup {NoPacket}, NEW code, NEW dies,
         Notify(S, p, code, dies)
  PROVE  FrameLeftEven' /\ (drawn => ~drawn')
<1> DEFINE g1 == IF "mouse" \in S THEN MouseBranch(G0, p) ELSE G0
           g2 == IF "timer" \in S THEN TimerBranch(g1, dies) ELSE g1
           g3 == IF "kbd" \in S THEN KbdBranch(g2, code) ELSE g2
<1>1. GInv(G0) /\ GInv(g1) /\ GInv(g2)
  BY G0Inv, BranchesOwn DEF RateInv
<1>2. g1.tc = timer_counter
  BY <1>1, MouseTc DEF G0, GInv
<1>3. timer_counter' = g3.tc /\ drawn' = ("timer" \in S /\ g1.tc = 1)
  BY DEF Notify, G0
<1>4. drawn' => timer_counter' = 0
  <2> SUFFICES ASSUME drawn' PROVE g3.tc = 0
    BY <1>3
  <2>1. "timer" \in S /\ g1.tc = 1
    BY <1>3
  <2>2. g2.tc = 0
    BY <1>1, <2>1, FrameTc DEF GInv
  <2>3. QED
    BY <1>1, <2>2, KbdTc
<1>5. drawn => ~drawn'
  <2> SUFFICES ASSUME drawn PROVE ~drawn'
    OBVIOUS
  <2>1. g1.tc = 0
    BY <1>2 DEF RateInv, FrameLeftEven
  <2>2. g1.tc # 1
    BY <2>1
  <2>3. QED
    BY <1>3, <2>2, Zenon
<1>6. QED
  BY <1>4, <1>5 DEF FrameLeftEven

LEMMA StepRate ==
  RateInv /\ [Next]_vars => RateInv' /\ [drawn => ~drawn']_vars
<1> SUFFICES ASSUME RateInv, [Next]_vars PROVE RateInv' /\ [drawn => ~drawn']_vars
  OBVIOUS
<1>1. OwnInv'
  BY StepOwns DEF RateInv
<1>2. CASE Next
  BY <1>1, <1>2, NotifyRate DEF Next, RateInv
<1>3. CASE UNCHANGED vars
  BY <1>1, <1>3 DEF vars, RateInv, FrameLeftEven
<1>4. QED
  BY <1>2, <1>3

(***************************************************************************)
(* For every set of key codes and every mix of interrupts, no two           *)
(* notifications in a row both run game_state_handler: the loop draws on   *)
(* every second timer tick at most, the 30 fps of proj.c 97-98.            *)
(***************************************************************************)
THEOREM HalfRate == Spec => FramesAtHalfRate
<1>1. Init => RateInv
  BY DEF Init, NULL, RateInv, OwnInv, MenuOwnership, MenuStates, MenuOf, FrameLeftEven
<1>2. QED
  BY <1>1, StepRate, PTL DEF Spec, FramesAtHalfRate
-----------------------------------------------------------------------------
(* Type correctness.                                                       *)

\* The record g has the types TypeOK asks of the variables it stands for.
Typed(g) ==
  /\ Shaped(g)
  /\ g.state \in States /\ g.menu \in Pointers
  /\ g.tc \in 0 .. 1 /\ g.leaked \in BOOLEAN

\* The primitives keep the types.
LEMMA LoadTyped ==
  ASSUME NEW g, Typed(g), NEW k \in Kinds PROVE Typed(Load(g, k))
BY DEF Typed, Shaped, Load, Pointers

LEMMA FreeTyped == ASSUME NEW g, Typed(g) PROVE Typed(free_menu(g))
BY DEF Typed, Shaped, free_menu, Pointers

LEMMA SetTyped ==
  ASSUME NEW g, Typed(g), NEW s \in States PROVE Typed(SetState(g, s))
BY DEF Typed, Shaped, SetState

LEMMA SelTyped ==
  ASSUME NEW g, Typed(g), NEW x \in -1 .. 3, NEW h, h = [g EXCEPT !.menu.sel = x]
  PROVE  Typed(h)
BY DEF Typed, Shaped, Pointers

LEMMA TcTyped ==
  ASSUME NEW g, Typed(g), NEW t \in 0 .. 1, NEW h, h = [g EXCEPT !.tc = t]
  PROVE  Typed(h)
BY DEF Typed, Shaped

\* Every option of every menu leads to a state of the game.
LEMMA OptionStates ==
  ASSUME NEW k \in Kinds, NEW i \in 1 .. Len(Options[k])
  PROVE  Options[k][i] \in States
<1>1. k \in {"initial", "main", "help", "highscores", "pause", "game_over"}
  BY KindsDef
<1>2. CASE k = "initial" \/ k = "help" \/ k = "highscores"
  BY <1>2 DEF Options, States
<1>3. CASE k = "main"
  BY <1>3 DEF Options, States
<1>4. CASE k = "pause"
  BY <1>4 DEF Options, States
<1>5. CASE k = "game_over"
  BY <1>5 DEF Options, States
<1>6. QED
  BY <1>1, <1>2, <1>3, <1>4, <1>5

\* A frame of game_state_handler keeps the types.
LEMMA HandlerTyped ==
  ASSUME NEW g, Typed(g), NEW dies
  PROVE  Typed(game_state_handler(g, dies))
<1>1. /\ "initial" \in Kinds /\ "main" \in Kinds /\ "help" \in Kinds
      /\ "highscores" \in Kinds /\ "pause" \in Kinds /\ "game_over" \in Kinds
  BY KindsDef
<1>2. /\ "INITIAL_MENU" \in States /\ "MAIN_MENU" \in States /\ "HELP_MENU" \in States
      /\ "HIGHSCORES_MENU" \in States /\ "PAUSE_MENU" \in States
      /\ "INGAME" \in States /\ "GAME_END" \in States /\ "GAME_OVER" \in States
  BY DEF States
<1>3. /\ Typed(Load(g, "initial")) /\ Typed(free_menu(g))
      /\ Typed(Load(g, "pause")) /\ Typed(Load(g, "game_over"))
  BY <1>1, LoadTyped, FreeTyped
<1>4. /\ Typed(Load(free_menu(g), "main")) /\ Typed(Load(free_menu(g), "help"))
      /\ Typed(Load(free_menu(g), "highscores"))
  BY <1>1, <1>3, LoadTyped
<1>5. /\ Typed(SetState(Load(g, "initial"), "INITIAL_MENU"))
      /\ Typed(SetState(Load(free_menu(g), "main"), "MAIN_MENU"))
      /\ Typed(SetState(Load(free_menu(g), "help"), "HELP_MENU"))
      /\ Typed(SetState(Load(free_menu(g), "highscores"), "HIGHSCORES_MENU"))
      /\ Typed(SetState(Load(g, "pause"), "PAUSE_MENU"))
      /\ Typed(SetState(free_menu(g), "INGAME"))
      /\ Typed(SetState(g, "GAME_END"))
      /\ Typed(SetState(Load(g, "game_over"), "GAME_OVER"))
      /\ Typed(free_menu(g))
  BY <1>2, <1>3, <1>4, SetTyped
<1>6. QED
  BY <1>5 DEF game_state_handler

\* The fields of a typed menu.
LEMMA MenuFields ==
  ASSUME NEW g, Typed(g)
  PROVE  g.menu.kind \in Kinds /\ g.menu.sel \in -1 .. 3
         /\ NumOptions(g.menu) \in 1 .. 4
<1>1. g.menu.kind \in Kinds /\ g.menu.sel \in -1 .. 3
  BY DEF Typed, Pointers
<1>2. QED
  BY <1>1, NumOptionsRange

(***************************************************************************)
(* handle_menu_keyboard keeps the selection in -1 .. 3: the arrows wrap    *)
(* round the one to four options, and the spacebar takes an option.        *)
(***************************************************************************)
LEMMA MenuKbdTyped ==
  ASSUME NEW g, Typed(g), NEW code
  PROVE  Typed(handle_menu_keyboard(g, code))
<1> DEFINE n == NumOptions(g.menu)
<1>1. g.menu.kind \in Kinds /\ g.menu.sel \in -1 .. 3 /\ n \in 1 .. 4
  BY MenuFields
<1>2. CASE code = ARROW_UP_BREAK_CODE
  <2> DEFINE v == IF g.menu.sel - 1 < 0 THEN n - 1 ELSE g.menu.sel - 1
  <2>1. handle_menu_keyboard(g, code) = [g EXCEPT !.menu.sel = v]
    BY <1>2 DEF handle_menu_keyboard, ARROW_UP_BREAK_CODE, ARROW_DOWN_BREAK_CODE,
               SPACEBAR_BREAK_CODE
  <2>2. v \in -1 .. 3
    BY <1>1
  <2>3. QED
    BY <2>1, <2>2, SelTyped
<1>3. CASE code = ARROW_DOWN_BREAK_CODE
  <2> DEFINE v == IF g.menu.sel + 1 >= n THEN 0 ELSE g.menu.sel + 1
  <2>1. handle_menu_keyboard(g, code) = [g EXCEPT !.menu.sel = v]
    BY <1>3 DEF handle_menu_keyboard, ARROW_UP_BREAK_CODE, ARROW_DOWN_BREAK_CODE,
               SPACEBAR_BREAK_CODE
  <2>2. v \in -1 .. 3
    BY <1>1
  <2>3. QED
    BY <2>1, <2>2, SelTyped
<1>4. CASE code = SPACEBAR_BREAK_CODE /\ g.menu.sel \in 0 .. n - 1
  <2>1. handle_menu_keyboard(g, code) = SetState(g, Options[g.menu.kind][g.menu.sel + 1])
    BY <1>4 DEF handle_menu_keyboard, ARROW_UP_BREAK_CODE, ARROW_DOWN_BREAK_CODE,
               SPACEBAR_BREAK_CODE
  <2>2. Options[g.menu.kind][g.menu.sel + 1] \in States
    BY <1>1, <1>4, OptionStates DEF NumOptions
  <2>3. QED
    BY <2>1, <2>2, SetTyped
<1>5. CASE ~(code = ARROW_UP_BREAK_CODE) /\ ~(code = ARROW_DOWN_BREAK_CODE)
           /\ ~(code = SPACEBAR_BREAK_CODE /\ g.menu.sel \in 0 .. n - 1)
  BY <1>5 DEF handle_menu_keyboard
<1>6. QED
  BY <1>2, <1>3, <1>4, <1>5

\* kbd_state_handler keeps the types.
LEMMA KbdTyped ==
  ASSUME NEW g, Typed(g), NEW code
  PROVE  Typed(kbd_state_handler(g, code))
<1>1. Typed(handle_game_keyboard(g, code))
  <2>1. "LOADING_PAUSE" \in States
    BY DEF States
  <2>2. QED
    BY <2>1, SetTyped DEF handle_game_keyboard
<1>2. QED
  BY <1>1, MenuKbdTyped DEF kbd_state_handler

\* mouse_state_handler keeps the types: the option hit is one of the menu's.
LEMMA MouseTyped ==
  ASSUME NEW g, Typed(g), NEW p \in Packets
  PROVE  Typed(mouse_state_handler(g, p))
<1> DEFINE hit == IF p.hit < NumOptions(g.menu) THEN p.hit ELSE -1
           h == handle_menu_hover(g, hit)
<1>1. g.menu.kind \in Kinds /\ NumOptions(g.menu) \in 1 .. 4
  BY MenuFields
<1>2. hit \in -1 .. NumOptions(g.menu) - 1
  BY <1>1 DEF Packets
<1>3. Typed(h) /\ h.menu.kind = g.menu.kind
  <2>1. Typed(h)
    BY <1>1, <1>2, SelTyped DEF handle_menu_hover
  <2>2. h.menu.kind = g.menu.kind
    BY DEF handle_menu_hover, Typed, Shaped
  <2>3. QED
    BY <2>1, <2>2
<1>4. Typed(handle_menu_click(h, hit))
  <2>1. CASE hit >= 0
    <3>1. Options[h.menu.kind][hit + 1] \in States
      BY <1>1, <1>2, <1>3, <2>1, OptionStates DEF NumOptions
    <3>2. QED
      BY <2>1, <1>3, <3>1, SetTyped DEF handle_menu_click
  <2>2. CASE ~(hit >= 0)
    BY <2>2, <1>3 DEF handle_menu_click
  <2>3. QED
    BY <2>1, <2>2
<1>5. QED
  BY <1>3, <1>4 DEF mouse_state_handler

\* Each branch of a notification keeps the types.
LEMMA BranchesTyped ==
  ASSUME NEW g, Typed(g)
  PROVE  /\ \A p \in Packets \cup {NoPacket} : Typed(MouseBranch(g, p))
         /\ \A dies : Typed(TimerBranch(g, dies))
         /\ \A code : Typed(KbdBranch(g, code))
<1>1. ASSUME NEW p \in Packets \cup {NoPacket} PROVE Typed(MouseBranch(g, p))
  BY MouseTyped DEF MouseBranch
<1>2. ASSUME NEW dies PROVE Typed(TimerBranch(g, dies))
  <2> DEFINE t == (g.tc + 1) % 2
  <2>1. t \in 0 .. 1
    BY DEF Typed
  <2>2. Typed([g EXCEPT !.tc = t])
    BY <2>1, TcTyped
  <2>3. QED
    BY <2>2, HandlerTyped DEF TimerBranch
<1>3. ASSUME NEW code PROVE Typed(KbdBranch(g, code))
  <2>1. Typed(IF code # NoKey THEN kbd_state_handler(g, code) ELSE g)
    BY KbdTyped
  <2>2. QED
    BY <2>1, TcTyped DEF KbdBranch
<1>4. QED
  BY <1>1, <1>2, <1>3

\* The record Notify starts from is typed.
LEMMA G0Typed == TypeOK => Typed(G0)
BY DEF TypeOK, Typed, Shaped, G0, Pointers

\* One notification keeps the types, whichever interrupts it carries.
LEMMA NotifyTyped ==
  ASSUME TypeOK, NEW S \in SUBSET IRQs, NEW p \in Packets \cup {NoPacket},
         NEW code, NEW dies, Notify(S, p, code, dies)
  PROVE  TypeOK'
<1> DEFINE g1 == IF "mouse" \in S THEN MouseBranch(G0, p) ELSE G0
           g2 == IF "timer" \in S THEN TimerBranch(g1, dies) ELSE g1
           g3 == IF "kbd" \in S THEN KbdBranch(g2, code) ELSE g2
<1>1. Typed(G0)
  BY G0Typed
<1>2. Typed(g1)
  BY <1>1, BranchesTyped
<1>3. Typed(g2)
  BY <1>2, BranchesTyped
<1>4. Typed(g3)
  BY <1>3, BranchesTyped
<1>5. /\ state' = g3.state /\ current_menu' = g3.menu
      /\ timer_counter' = g3.tc /\ leaked' = g3.leaked
      /\ drawn' \in BOOLEAN /\ irqs' = S
  BY DEF Notify, G0
<1>6. QED
  BY <1>4, <1>5 DEF Typed, TypeOK

LEMMA StepTyped == TypeOK /\ [Next]_vars => TypeOK'
<1> SUFFICES ASSUME TypeOK, [Next]_vars PROVE TypeOK'
  OBVIOUS
<1>1. CASE Next
  BY <1>1, NotifyTyped DEF Next
<1>2. CASE UNCHANGED vars
  BY <1>2 DEF vars, TypeOK
<1>3. QED
  BY <1>1, <1>2

(***************************************************************************)
(* For every set of key codes and every mix of interrupts, the dispatcher  *)
(* keeps its type: the state is one of enum State, current_menu points to  *)
(* a menu of a known kind whose selected_option stays in -1 .. 3 however   *)
(* the arrows wrap and the cursor hovers, and timer_counter keeps a parity. *)
(***************************************************************************)
THEOREM DispatcherTypeCorrect == Spec => []TypeOK
<1>1. Init => TypeOK
  <2> SUFFICES ASSUME Init PROVE TypeOK
    OBVIOUS
  <2>1. "initial" \in Kinds
    BY KindsDef
  <2>2. current_menu \in Pointers
    BY <2>1 DEF Init, NULL, Pointers
  <2>3. state \in States
    BY DEF Init, States
  <2>4. timer_counter \in 0 .. 1
    BY SMT DEF Init
  <2>7. leaked \in BOOLEAN /\ drawn \in BOOLEAN
    BY Zenon DEF Init
  <2>5. irqs \in SUBSET IRQs
    BY DEF Init
  <2>6. QED
    BY <2>2, <2>3, <2>4, <2>5, <2>7 DEF TypeOK
<1>2. QED
  BY <1>1, StepTyped, PTL DEF Spec
=============================================================================
