# TLA+ models of the BattleBytes i8042 driver core

This directory holds TLA+ models of the keyboard, mouse and timer drivers under
`src/proj/src/device/`, together with the parts of the event loop in
`src/proj/src/proj.c` that drive them, and a model of the application's
state machine (dispatcher, game state and menus) fed by the loop. It also holds TLC configurations that
model-check the models on small instances, and TLAPS proofs, for every
instance, of the main invariants of the mouse channel, the gesture machine, the
command protocol and the dispatcher. `PROJECT.json` lists the components,
runs, mutants, the map from definitions to source lines, findings, hazards and
theorems.

## The system

The program runs as one MINIX process, and `proj_main_loop` (proj.c 55-134) is
its only thread.

1. **Start-up.** The loop first sends `ENABLE_DATA_REPORT` to the mouse with
   `kbc_issue_mouse_cmd` (proj.c 65). It then subscribes the mouse, keyboard and
   timer interrupts (66-68).
2. **Main loop.** It waits in `driver_receive`. For each hardware notification
   it runs, in this order:
   - the mouse branch (81-93): `mouse_ih`, then `mouse_packet_handler`, then
     `mouse_state_handler` once `mouse_count` reaches 3, and then it resets the
     count;
   - the timer branch (94-102);
   - the keyboard branch (103-115): `kbc_ih`, then `process_scancode`, then
     `kbd_state_handler` unless `skip_print` is set. It then resets `size` and
     `timer_counter`.
3. **Shut-down.** It unsubscribes the interrupts and sends
   `DISABLE_DATA_REPORT` (126-131).

Both devices share the i8042 controller. There is one status register (0x64)
and one output buffer (0x60): the AUX bit tells a mouse byte from a keyboard
byte, and PAR_ERR or TO_ERR flag a bad byte. Every read polls the status
register at most 10 times, 20 ms apart.

The driver core (spec.md §2) has these parts, each modelled as shown:

| Part | Code | Module |
|---|---|---|
| Register I/O | utils.c | `Timer` (LSB/MSB); the register reads of the other modules |
| Controller command protocol | keyboard.c 50-76 | `CommandProtocol` |
| Keyboard channel | keyboard.c 85-175, proj.c 103-115 | `KeyboardChannel` |
| Mouse channel | mouse.c 51-165, proj.c 81-93 | `MouseChannel`, `MouseChannelProofs` |
| Mouse command protocol | mouse.c 73-96, 174-182 | `CommandProtocol` |
| Gesture state machine | mouse.c 193-265 | `Gesture` |
| Timer programming | timer.c 24-42, 85-91 | `Timer` |
| Event loop dispatch, timer branch | proj.c 72-125, timer.c 73-75 | `Dispatcher` |
| Dispatcher, game state, menus | dispatcher.c, state.c, menu.c, game_logic.c 135-164 | `Dispatcher`, `DispatcherProofs` |

Each module `M` has an `MC_M` module. The MC module gives the constants small
values, and its `.cfg` files each ask one question.

## How the modules correspond to the code

**MouseChannel.** The variables are the globals `mouse_count`, `mouse_data` and
`mouse_packet`. One step, `MouseInterrupt`, is one mouse interrupt as the loop
handles it:
- `ReadInvalid`: the status is rejected by `is_valid_m_st`, the byte is read and
  discarded, and the count stays as it was.
- `SyncFail`: at slot 0, bit 3 is clear.
- `AcceptByte0`, `AcceptByte1`, `AcceptByte2`: the three cases of
  `mouse_packet_handler`. `AcceptByte2` includes the loop's hand-off and its
  reset of the count (proj.c 86-90). This is why `default:` (mouse.c 159-161) is
  unreachable.

The slot updates are record constructors (`StoreByte0/1/2`). Sign extension is
`SignExtend`, which is `0xFF00 | b` read as an `int16_t`.

The mouse is the environment. It sends packets whose byte 0 comes from
`Byte0Vals` (bit 3 always set) and whose movement bytes come from `DataVals`.
The controller flags at most `MaxErrors` bytes with an error status.

The ghost variables `devPkt`, `devPos`, `ppSrc`, `handed`, `errors` and
`misaligned` record where each byte came from and what was handed on. The
properties are stated over them.

**KeyboardChannel.** The variables are `keyboard_data`, `skip_print`, and the
loop's locals `size`, `bytes` and `is_make`. `bytes` and `is_make` are
uninitialised, so `Init` lets them take any value.
- `Prefix`, `SecondByte` and `SingleByte` are the three branches of
  `process_scancode`.
- `KbdLoop(sz)` is the loop's `if (!skip_print)` hand-off with its `size = 1`.
- `ReadInvalid` is a byte that `is_valid_kb_st` rejects.

The keyboard sends 1-byte keystrokes, or 0xE0 followed by a code. Ghost
variables record which keystroke each byte belongs to.

**Gesture.** The variables are `currentState`, `x_sum` and `y_sum`. One step,
`mouse_state_machine(p)`, is one call with a packet `p`. There is one disjunct
per branch of the switch, and `state_change` zeroes the sums.

The code switches on its parameter `*currentState`, but `state_change` writes
the global. The model assumes the caller passes `&currentState`; no caller
exists in the program.

`SumBound` bounds the sums, so a call that would exceed it is not explored.

**CommandProtocol.** The variables are `pc` (the place in the call),
`attempts`, `mouse_data` and `ret`. The controller's side is IBF, the input
buffer and its port, OBF, the output buffer with its AUX bit, the bytes
`pending` on their way to the output buffer, and whether 0xD4 routed the next
data byte to the mouse.

Each poll of the status register is one step:
- `kbc_issue_cmd(port, byte, next)` writes when IBF is clear, retries
  otherwise, and times out after `MaxAttempts` = 10 polls.
- `m_read_obf_byte` reads when OBF is set, retries otherwise, and times out.
- `IssueD4`, `IssueArg` and `MouseCmdReturn` form `kbc_issue_mouse_cmd`.
- `IssueReadCmd` and `ReadCmdByte` form `kbc_read_cmd`.

`ControllerTake` and `ControllerDeliver` are the hardware. They may act between
any two polls. With `Timely` set, the hardware answers before the last attempt.

`InFlight[call]` is what is already on its way when the call starts. It is a
function of the call, because the two calls of proj.c happen at different
times:
- ENABLE_DATA_REPORT (0xF4), at start-up: nothing, or the release (0x9C) of
  the key that launched the program. Data reporting is still off, so no
  packet byte can be in flight.
- DISABLE_DATA_REPORT (0xF5), at shut-down: nothing, or a byte of a packet
  the mouse was still sending.

`StaleVals[call]` is what `mouse_data` holds when the call starts: 0 at
start-up, and at shut-down the last packet byte (cmd_slow also lets it be
0xFA, an ordinary movement byte).

**Timer.** One step, `timer_set_frequency(timer, freq)`, is the whole call:
- the range check and its early return;
- `counterValue = TIMER_FREQ / freq` taken modulo 2^16 (it is a `uint16_t`);
- the read-back command and the control word, then LSB and MSB to the timer.

`divisor` is what the i8254 then counts; a loaded 0 counts 65536.

**Dispatcher.** The variables are `state` (the global `game_state.state`),
`current_menu`, `timer_counter` (only its parity: the loop reads only
`timer_counter % 2`), and three ghosts: `leaked` (a live menu was overwritten),
`drawn` (the last notification ran a frame) and `irqs` (the interrupts it
carried). `current_menu` is a record of the menu's kind, its selection and
whether the pointer is `null`, `live` or `dangling`: `free_menu` does not reset
the pointer, so after it the pointer dangles.

One step, `Notify(S, p, code, dies)`, is one notification of `driver_receive`
carrying the interrupts `S`. The three branches are applied in proj.c's order,
each to the state the one before left:
- `MouseBranch`: when a packet completed (`p # NoPacket`),
  `mouse_state_handler`. In a menu it hovers (`handle_menu_hover`) and, on a
  left press, clicks (`handle_menu_click`). The packet is abstracted to the
  left button and the option whose hitbox the cursor lands in.
- `TimerBranch`: `timer_int_handler`, then, when the counter is even,
  `game_state_handler`, one frame. `game_state_handler` has a case for every
  state of dispatcher.c 19-104: the LOADING states free or load a menu,
  `LOADING_PAUSE` and `GAME_END` assign without freeing, and `INGAME` may end
  the game (`dies`, standing for `update_enemies` finding the tank hit).
- `KbdBranch`: when a complete code arrived, `kbd_state_handler`
  (`handle_menu_keyboard` in a menu, `handle_game_keyboard` in the game), then
  `timer_counter = 0`.

The step is enabled while `state # "KILL"`: the loop tests `get_state()` after
each notification and leaves.

## Runs

| Run | Checks | Result | What it shows |
|---|---|---|---|
| mouse_lossy | TypeOK, InOrderDelivery, HandedPacketsDecode, MisalignedBoundedByErrors | pass (291 071 states) | with up to two bytes lost, every packet handed on is decoded from its own bytes (buttons and 9-bit deltas; the overflow bits are stored but not compared); with movement bytes whose bit 3 is clear there are no more misaligned packets than lost bytes; while nothing is lost, each packet is handed on once, in order |
| mouse_misaligned | PacketAligned | violation | one lost byte builds a packet from two packets (finding) |
| keyboard_lossy | TypeOK, KeystrokesInOrder, EventsWellFormed, MisreadBoundedByErrors | pass (25 416) | with up to two bytes lost, events stay well formed, skip_print is set exactly while a prefix is pending, and each loss misreports at most one keystroke; while nothing is lost, each keystroke is one event, in order |
| gesture_scoped | SumsScoped | pass (15 007) | the sums are zero outside the strokes and one-signed inside them |
| gesture_middle | MiddleButtonResets | violation | a middle-button packet in DRAWING1 matches neither branch and does not reset (finding) |
| gesture_release | StrokeEndsOnRelease | violation | DRAWING2 completes with the left button pressed (finding) |
| cmd_timely | AckIsMouseAnswer | pass (728) | with quiet, timely hardware, 0 is returned exactly on the mouse's ACK, and nothing is left behind |
| cmd_slow | TypeOK, WritesNotLost | pass (4 336) | with slow hardware, no byte is written over one the controller has not taken |
| cmd_traffic | AckIsMouseAnswer | violation | a byte in flight is read in place of the ACK, and the ACK is left behind (finding) |
| timer_low_rate | RateAsAsked | violation | 18 Hz is accepted and programmed as about 1588 Hz (finding) |
| dispatcher_menus | TypeOK, MenuOwnership, FramesResume, FramesAtHalfRate | pass (905) | whatever interrupts come together, every menu state owns a live menu of its own kind and no LOADING state meets a freed one; under timer fairness, once keystrokes stop, frames are drawn again until exit; no two notifications in a row run a frame |
| dispatcher_leak | MenusReachable | violation | RESUME then a pause, or RESUME then game over, overwrites a live pause menu (finding) |

Every property of a passing run has a mutant in `PROJECT.json`: a plausible bug
in the definition that models the code. TLC finds each one violated.

### Bounds, and why they are enough

- **Mouse: three packets.** This is enough for a loss in one packet to
  misalign the next and for the sync check to realign the one after.
- **Mouse: up to two errors.** This allows two independent losses.
- **Mouse byte values.**
  - Byte 0 takes 8, 9, 10 and 60. These cover no button, left, right, and both
    sign bits with the overflow bits clear.
  - The movement bytes take 0, 5 and 240 in mouse_lossy (bit 3 clear, so
    that the sync check can realign; 240 has the high bits that sign
    extension must keep), and 0, 5 and 251 (bit 3 set) in mouse_misaligned.
- **Keyboard: four keystrokes, two errors.** The codes 30, 158 and 72 are a
  make, a break, and the code that 0xE0 72 shares. The extended codes are 72
  and 200. A lost prefix therefore yields a code that is also a 1-byte key.
- **Gesture.**
  - x_len = 2 and tolerance = 1, with deltas −2, −1, 0, 1 and 3. These give
    aborts, noise within the tolerance, and strokes that are steep and strokes
    that are not.
  - Sums are bounded by 6: three or more packets per stroke.
- **Commands.** The real retry budget of 10 attempts is used. The mouse
  answers ACK, NACK or ERROR.
- **Dispatcher.** Every state, menu and option of the code is in the
  model; the inputs are all subsets of the three interrupts, every hitbox
  (and none) with and without a left press, and the codes up, down, space and
  one other. The whole reachable state space (905 states) is explored, so
  every interleaving of the three branches in one notification is covered.
- **Timer.** The frequencies 1, 19, 60, 1000, 1193182 and 2000000 lie on each
  side of both range bounds, at the lowest frequency whose divisor fits, and
  at common rates.

### Fairness

`FramesResume` is the one liveness property:
`(<>[]("kbd" \notin irqs)) => []<>(drawn \/ state = "KILL")`. It assumes weak
fairness of `TimerFires`, a notification that carries the timer interrupt:
timer 0 is subscribed for the whole loop and interrupts at 60 Hz, so a timer
notification is always coming. Nothing else is assumed fair: the user need not
press a key or move the mouse.

The premise is needed. A keyboard interrupt in every interval between two
timer ticks resets `timer_counter` from 1 to 0 before each increment, so the
counter is 1 after every tick and no frame is ever drawn: TLC finds that
starvation at once without the premise. It takes a keyboard interrupt in every
1/60 s, sustained. Typing alone does not produce that: the fastest typematic
repeat is about 30 keys per second, and the two bytes of an extended key such
as an arrow arrive back to back, within one interval. Each keyboard interrupt
that lands while the counter is 1 does delay the next frame by one tick. It is
a hazard of proj.c:114, listed in `PROJECT.json`.

The other properties are safety properties. Several runs disable the deadlock check: their environment (a device
with a bounded number of packets or keystrokes, or a call that has returned)
stops, and the real loop then idles in `driver_receive`.

## What is proved

`MouseChannelProofs` proves three theorems for all values of the constants. They
rest on the assumptions in `MouseChannel`:
- the byte values are bytes;
- every byte 0 has bit 3 set;
- the bounds are natural numbers.

- `TypeCorrect`: `Spec => []TypeOK`. Its inductive step is the lemma
  `TypeStep`, with one case per action. The slot updates stay in `Packet`
  (lemma `StorePacket`), and sign extension stays in −256..255 (lemma
  `SignExtension`).
- `HandedDecode`: `Spec => []HandedPacketsDecode`.
  - `HandedPacketsDecode` alone is not inductive. The packet being assembled
    must already agree with its stored bytes: byte 0 has the sync bit and gives
    the button flags, and at slot 2, delta_x is byte 1 sign-extended with
    byte 0's bit 4. That strengthening is `PartialDecode`.
  - The inductive invariant is `DecodeInv == TypeOK /\ PartialDecode /\
    HandedPacketsDecode`. TLC checked it as an invariant before it was proved.
  - The step for `AcceptByte2` splits the handed sequence into the old packets
    and the new one. The new one decodes because `StoreByte2` keeps byte 0,
    byte 1 and delta_x (lemma `StoreKeepsByte0`).
  - The proof says nothing about alignment, which is what makes it hold even
    when bytes are lost.
- `DeliveredInOrder`: `Spec => []InOrderDelivery`. The inductive invariant is
  `OrderInv == TypeOK /\ (errors = 0 => InStep) /\ InOrderDelivery`.
  `InStep` says that `mouse_count` equals the mouse's position in its packet,
  and that the slots filled so far hold that packet's bytes.
  - While nothing is lost, a first byte always has bit 3, so `SyncFail` cannot
    happen in step.
  - Slot 2 then completes exactly `PacketSrc(devPkt)` (lemma `PacketSrcFill`),
    the next packet in order.
  - The theorem needs no assumption on the movement bytes.
- `MisalignedBoundedByErrors` has no theorem. It holds only when no movement
  byte has bit 3 set, the condition of the mouse_lossy run (data bytes 0, 5
  and 240). A movement byte with bit 3 set, as in every small leftward or
  downward move (0xF8 to 0xFF), passes for a first byte, and after one loss
  the stream can stay misaligned for as long as such bytes keep landing in
  slot 0. For real traffic the number of misaligned packets is not bounded by
  the lost bytes at all, so a theorem under that condition would say little
  about the program.

`GestureProofs` proves `SumsAlwaysScoped`: `Spec => []SumsScoped`, for every
x_len, tolerance, set of deltas (integers in −256..255) and sum bound. Alone,
`SumsScoped` does not give the provers the sums' type, so the inductive
invariant is `GestureInv == TypeOK /\ SumsScoped`. Its step lemma `StepInv` has
one case per branch of `mouse_state_machine`:
- every `state_change` zeroes both sums;
- DRAWING1 clamps both sums at 0 from below;
- DRAWING2 clamps x_sum from below and y_sum from above;
- the remaining branches change neither the state nor the sums.

`GestureTypeCorrect` follows from the same invariant.

`CommandProtocolProofs` proves `NoWriteLost`: `Spec => []WritesNotLost`, for
every retry budget, set of calls and bytes in flight, and with no timing
assumption on the controller. `WritesNotLost` is inductive as it stands:
- `kbc_issue_cmd` writes only when IBF is clear, and then sets it (lemma
  `IssueKeepsWrites`, cited by all three issuing actions);
- `ControllerTake` clears IBF and appends the byte it took to `taken`;
- no other step touches the input buffer, `written` or `taken`.

It also proves `CmdTypeCorrect` (`Spec => []TypeOK`) for every value of the
constants, and `AckAnswered`: `Spec => []AckIsMouseAnswer`, under two
hypotheses, the ones the cmd_timely run has. They are that `Timely` holds and
that `InFlight[c] = {<<>>}` for every call `c`: nothing is on its way to the
output buffer when the call starts. Neither can be dropped. A stale byte in flight is what
`m_read_obf_byte` reads instead of the answer. A controller too slow for the
retry budget makes a loop give up, and the call then returns on whatever
`mouse_data` held. The inductive invariant is
`AckInv == TypeOK /\ (call[1] = "mouse_cmd" => MousePhase)`. TLC checked it
first, with read calls too, for 1, 3 and 10 attempts. `MousePhase` says, for
each `pc` of the call, what the controller holds there:
- `"d4"`: nothing.
- `"arg"`: 0xD4 waiting in the input buffer, or taken (`ctrlAux`).
- `"ack"`: the argument waiting (`CmdInBuffer`), or the mouse's one answer on
  its way or in the output buffer (`Answered`).
- `"ret"`: the answer in `mouse_data`.
- `"done"`: the return computed from the answer, with nothing left behind.

It also says that `attempts` stays in 1..MaxAttempts. Under `Timely`, no loop
runs out of attempts. The step lemma `MouseStep` has one case per action, and
splits the controller's take on the phase it happens in.

`DispatcherProofs` proves `MenuOwned`: `Spec => []MenuOwnership`, for every
set of key codes. A notification runs up to three handlers in a row, so the
proof is about the handlers as functions of a record `g` (state, pointer,
counter, leak flag).
- `GInv(g)` says `g` and its menu have their fields (`Shaped`) and that
  ownership holds of `g` (`Owns`, `MenuOwnership` stated of a record). No
  typing of the fields is needed: ownership depends only on the state and the
  pointer's status and kind.
- Lemmas `LoadG`, `FreeG`, `SetG`, `SelG` and `TcG` say what each primitive
  changes. `OptionTargets` says the only option leading to a menu state is the
  game-over menu's own GAME_OVER, so taking an option keeps ownership
  (`TakeOwns`).
- `HandlerOwns` has one case per state of `game_state_handler`. `MenuKbdOwns`,
  `KbdOwns` and `MouseOwns` cover the input handlers, and `BranchesOwn` the
  three branches of proj.c.
- `NotifyOwns` composes the branches. The inductive invariant is
  `OwnInv == DOMAIN current_menu = {"kind", "st", "sel"} /\ MenuOwnership`.

`DispatcherProofs` also proves the action property `FramesAtHalfRate` as
`HalfRate`: `Spec => [][drawn => ~drawn']_vars`. No two notifications in a row
both run `game_state_handler`. That is the "30 fps" of proj.c 97-98: timer 0
ticks at 60 Hz and a frame runs when `timer_counter` turns even.
- The inductive invariant is `RateInv == OwnInv /\ FrameLeftEven`, where
  `FrameLeftEven == drawn => timer_counter = 0`. TLC checked it on the
  dispatcher_menus instance.
- A frame runs on the tick that made the counter even. The keyboard branch
  after it resets the counter to 0 (`FrameTc`, `KbdTc`).
- The mouse branch and `game_state_handler` never touch the counter
  (`MouseTc`, `HandlerTc`, `PrimTc`). So the next notification's timer branch
  starts from 0 and only makes it odd.
- `NotifyRate` puts the three branches together. Ownership (`OwnInv`) is part
  of the invariant because the keyboard branch is known to keep the record's
  shape only through `KbdOwns`.

`DispatcherTypeCorrect` proves `TypeOK` of the dispatcher for every set of
key codes. Each handler is a function of a record `g` of the five fields it
may change, and `Typed(g)` says the record has the types `TypeOK` asks for.
- There is one lemma per primitive of menu.c and state.c: `load_*` and
  `free_menu` (`LoadTyped`, `FreeTyped`), `set_state` (`SetTyped`), the
  selection (`SelTyped`) and the counter (`TcTyped`).
- A selection stays in `-1 .. 3` because the arrows wrap within the menu's
  one to four options and hover only picks an option of the menu shown (`MenuFields`,
  `MenuKbdTyped`). `OptionStates` says every option leads to one of the 17
  states.
- `HandlerTyped`, `KbdTyped`, `MouseTyped` and `BranchesTyped` cover the
  handlers and the three branches; `NotifyTyped` and `StepTyped` compose them.
  `TypeOK` is inductive as it stands.

`KeyboardChannelProofs` proves all four invariants of the keyboard_lossy run,
for every set of scancodes, bound on keystrokes and bound on lost bytes:
`KeyboardTypeCorrect` (`TypeOK`), `EventsAlwaysWellFormed`
(`EventsWellFormed`), `KeystrokesDelivered` (`KeystrokesInOrder`) and
`MisreadBounded` (`MisreadBoundedByErrors`). None of the last three is
inductive alone. The inductive invariant is
`KbdInv == TypeOK /\ EventsWellFormed /\ PrefixHeld /\ MisreadDebt /\ KeystrokesInOrder`,
checked by TLC on the keyboard_lossy instance before it was proved:
- `PrefixHeld`: while `size = 2`, byte 0 of the buffer is the prefix. Without
  it, completing a 2-byte event could hand on one that does not start with
  0xE0.
- `InSync`: the buffer holds exactly what the keyboard has sent of its current
  keystroke (nothing, or its prefix). `MisreadDebt` says
  `misread + (IF InSync THEN 0 ELSE 1) <= errors`: a stream out of step owes
  one misread event, and the lost byte that put it out of step has paid for it
  in advance. So `misread <= errors` holds at every step, not only once the
  stream is back in step.
- The step is proved per outcome of `kbd_ih` and `KbdLoop`. There is one lemma
  each for an invalid read, a prefix, the second byte of a 2-byte code and a
  1-byte code (`ReadInvalidStep`, `PrefixStep`, `SecondByteStep`,
  `SingleByteStep`). `SentNext` and `SentType` say which byte the keyboard
  sends next and from which keystroke.
- From in step, every step that hands on an event hands on the keystroke sent,
  and it ends in step. Out of step, the next event handed on is the misread one.

Every invariant and action property of the passing runs but one has a
theorem. What stays with TLC:
- `MisalignedBoundedByErrors`, which holds only for movement bytes without
  bit 3 (see above).
- `FramesResume`, the one liveness property: liveness under fairness, and the
  ENABLED it brings in, are beyond TLAPS.
- The violation runs, which show counterexamples rather than theorems.

## Not modelled, and why

- The IRQ subscriptions (`*_subscribe_int`, `*_unsubscribe_int`).
- The shared output buffer between the two channels.

These interact only through the controller. Two hazards need that
composition: the ACK left in the buffer before subscription (the loop then
waits for ever), and cross-talk between the channels.

In `Dispatcher`, the game statistics (score, timer, game time, difficulty), the
cursor and sprite geometry, and the enemies are abstracted away: the game's
end is a free choice of each frame, and a click is the option it lands in.
The drawing of menus (including the `score_str` allocated on every game-over
frame, menu.c 307) and the fonts are framebuffer I/O. `WAITING` and
`NEW_HIGHSCORE` are never entered by the code; they are states of the model
that no step reaches.

Graphics, sprites and the view write to the framebuffer and are left out.

`timer_display_conf` only formats output. The failure of `sys_inb` is not
modelled.

## Plan

1. Done: `MouseChannel` with its proofs, `KeyboardChannel`, `Gesture`,
   `CommandProtocol` and `Timer`.
2. Done: proofs for `Gesture` (SumsScoped), `CommandProtocol`
   (WritesNotLost, TypeOK, AckIsMouseAnswer), `KeyboardChannel` (all four
   invariants) and `MouseChannel` (`TypeOK`, `HandedPacketsDecode`,
   `InOrderDelivery`).
3. `KBC`: the controller shared by both channels and the three IRQ lines.
   - Start-up: the mouse command before the subscriptions.
   - Liveness under weak fairness of the hardware: every byte delivered is
     eventually read.
4. Refinement: the lossless mouse channel implements an abstract stream of
   packets (INSTANCE ... WITH a mapping from the slots to the packet being
   sent).
5. Done: `Dispatcher`, the dispatch order of one notification with the
   application's state machine and menus. Its type, ownership and frame-rate
   properties are proved (`DispatcherProofs`); `FramesResume` is model-checked.
