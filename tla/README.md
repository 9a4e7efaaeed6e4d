# TLA+ models of epuck-fsm

Formal models of the e-puck controller library and programs of this repository,
checked with TLC on small instances, and theorems about them proved with TLAPS
for every value of the constants.

The Linux extension board of an e-puck runs a controller program; the robot's own
microcontroller (the dsPIC) drives the motors and reads the sensors. The two
exchange one fixed-size frame per SPI transfer. The code's difficulty is not in
its algorithms but in its sharing: a struct, a frame and a ring buffer are used by
threads, signal handlers and a timer without any lock.

## 1. Inventory

| Part | Source | State | Operations | What must be right |
|---|---|---|---|---|
| SPI frames | spicomm.c/.h | `msgTX`, `msgRX` (globals), the device's descriptor | `init_spi`, `setSpeed`, `update`/`do_msg`, `reset_robot`, `setLED`, `get_ir_data` | a stop that is sent stops the wheels; a reset never comes with a speed; a failed transfer is not mistaken for a good one |
| Robot struct, update thread | robot.c/.h | the `robot` struct; the thread's `prestate` | `initRobot`, `updateRobotState`, `closeRobot` | the thread runs from init to close; a speed stored in the struct reaches the dsPIC; after close the wheels are at rest |
| Sensor readings | robot.c | `ir_*`, `*_acl`, `*_steps` | `getRobotIR/Acc/Steps`, `waitWhileCrowded`, `waitForRandDecay` | readings are in range and means of what was read |
| rwalk | diffuse.c | `lapsed_time`, `keep_running`, `epuck` | `main`, `waitFor`, `handlerSigAlarm`, `handlerSigTerm` | it ends; it ends with the wheels at rest, however it ends |
| Motion shell | main.c | ring buffer `motionList`/`header`/`tail`, flags `userQuit`, `newCommand`, `robotStoped`, the clock | `main`'s two loops, `timerHandler`, `signalHandler`, `cmdShell`, `parseCMD`, `setSpeed2` | motions run in order, each once; the list is indexed in bounds; ctrl+c stops the robot; the robot stops after the last motion |
| Board devices | support.c/.h | LEDs, switch, button files | `set_board_led`, `blink_board_led`, `get_switch`, `wait_btn_trigger` | both halves of a blink are set or neither; descriptors are closed; a read error ends the wait |
| GPS client | gps_client.c/.h | a UDP socket, the position buffer | `getGPS` | ends whatever comes first; closes its socket |
| State list | fsm.c/.h | a doubly linked list | append, insert, remove, destroy | links and count agree |
| C++ wrapper | Robot.cpp, Diffuse.cpp | an object that owns a `robot` | constructor, destructor | the struct goes away only after the thread that uses it |
| Perl binding | robot_wrap.c, Robot.pm | SWIG's type records, cast lists and ring of modules | `SWIG_InitializeModule`, the conversions, one wrapper per function | load order does not matter; a call is made exactly for the arguments declared; a number arrives as it was written, or as C's conversions are known to change it |

How they interact. `rwalk` = diffuse.c + robot.c + spicomm.c + support.c. `main` stores
wheel speeds in the struct; the update thread notices the change, fills `msgTX` and
transfers it; SIGALRM moves `lapsed_time`; SIGINT/SIGTERM runs `closeRobot` on whichever
thread the kernel delivers it to, while the other goes on. main.c is a second program
over spicomm.c: a command thread appends to the ring, a timer handler moves `header`,
the main thread polls the flags. Hard behaviours: two threads and a handler between any
two accesses of shared words; a signal in the middle of a call of the same functions;
transfers that fail silently; a wait that depends on a signal; a ring buffer whose
indices are out of range between two of their updates; words of bit fields that two
threads load and store; one descriptor table for all threads, with error paths that
forget a descriptor; Perl modules that are loaded in any order and share their types.

### Hazards

`PROJECT.json` lists every one with its line and the properties that would catch it. The
main ones: `alive` set after the thread that tests it exists (robot.c:21); a store lost
between the read of the arguments and the copy to `prestate` (robot.c:69) or before the
first copy (robot.c:56); command bits that are never cleared (spicomm.c:116); failed
transfers ignored (spicomm.c:79); `closeRobot` in a handler against the update thread
(diffuse.c:176); steps added again when no frame came (robot.c:120); `tail` and `header`
out of range for a moment (main.c:184, 296); flags overwritten between main and the timer
handler (main.c:136, 148, 177); a slot blanked that holds a motion (main.c:138); stale stores
of the command word (spicomm.c:97); received words that arrive under their reader
(spicomm.c:108); descriptors left open (gps_client.c:40, support.c:15, 126), in one table that
all threads reuse; a blink set by half (support.c:84); datagrams
received straight into the caller's position (gps_client.c:55); the cast lists of shared
types, searched and reordered while modules are added (robot_wrap.c:2149).

## 2. Modules

```
Spicomm      frames, transfers, the dsPIC
 |-- Robot         the struct, updateRobotState, closeRobot
 |    |-- Rwalk         diffuse.c       refines RobotService     MCRwalk        RwalkProofs
 |    `-- RobotClient   any controller                           MCRobotClient  RobotClientProofs
 `-- MotionShell   main.c              refines MotionQueue       MCMotionShell  MotionShellProofs, MotionQueueProofs
SpiFrame     the words of the frame under many threads           MCSpiFrame     SpiFrameProofs
Sensors      getRobotIR/Acc/Steps, waitWhileCrowded              MCSensors      SensorsProofs
Descriptors  the process's descriptor table
 |-- Support       support.c
 |-- GpsClient     gps_client.c
 `-- Devices       Support and GpsClient together                MCDevices      DevicesProofs
SwigTypes    robot_wrap.c                                        MCSwigTypes    SwigTypesProofs
```

**Spicomm.** `msgTX` keeps the two command bits the code uses (`set_motor`, `reset`) and the
two motor words; `spi` says whether the device is open; `dsPIC` is what the robot was last
told (external: inferred from how the code uses it; it obeys speeds only in a frame with
`set_motor`). `setSpeed(w, v)` is one of the two motor stores: the callers interleave them.
`update` delivers the frame or fails: always before `init_spi`, by choice if `SpiMayFail`.
Reading and writing the word that holds the command bits is one step here; SpiFrame splits it.
The two are not related by a refinement: Spicomm is what the programs need of the frame, SpiFrame
shows what may be said of it when that step is split and the number of threads is not two.

**SpiFrame.** Any set of threads, each at a place `pc` in a call: `Drive` is the setSpeed and
update of a round, `todo` the words it has yet to store (in any order: nothing in C orders them
for another thread). `LoadCmd`/`StoreCmd` and `LoadLed`/`StoreLed` are the two halves of a read-modify-write,
with `temp` the loaded word. `Clear` is do_msg up to the ioctl; `Transfer` is the exchange, for which the
driver takes one caller at a time, `Refill` the arrival of one received word in msgRX, in any order, and `Return` what
the thread does once all of them have arrived; `Fail` is an ioctl that does not happen, with its second memset. `stage` takes a thread
through closeRobot's two updates. `ir` keeps, for each received word, the number of the frame it came from (0 after a
memset), which is all that tells one copy of get_ir_data from another. The words of msgTX are read by the driver in one
step. setLED and get_ir_data have no caller in the repository; they are the module's interface (spicomm.h), so threads
call them at will: setLED writes a word of its own, and no property is about it.
Nothing sets the bit `set_led`, so whether the dsPIC acts on the LED word is not modelled.

**Robot.** `pc[t]` is where thread t is; `pending[t]` the wheels it has still to access at the
present step, so a comparison, a pair of loads, `setSpeed` and a struct copy are each two
steps, in either order except where C fixes it (`||` in the comparison). `Boot` is the
first `prestate = *bot`; `TestAlive`, `Compare`, `LoadArg`, `SetSpeed`, `Save`, `Send`, `Sense`
follow robot.c:64-78 line by line. `CloseRobot(t, done)` is `closeRobot` on any thread.
The sensor fields influence none of this state and are modelled in Sensors.

**Rwalk.** `Walk` is main's code in program order, from `initRobot` (`OpenSpi`, `Abort`,
`CreateThread`, `CreateFails`, `SetAlive`) to `Join`; `Steer` stores a motion one wheel at a
time; `BeginWait`/`EndWait` are `waitFor`, with its strict comparison; `Alarm` is
`handlerSigAlarm`. `Terminate(t)` sends thread t into `closeRobot` and then `exit`, from
wherever it was, before `init_spi` too; a second signal is not modelled, nor one that
meets the LED's or stdio's library calls. `lapsed_time` is kept up to `Deadline`, and
the wake-up time as the time left, because the code only compares them. `usleep(2000000)`
has no effect on order: the first SIGALRM ends it.

**RobotService** is the promise about the wheels: driven at will, stopped once and for
good, left only at rest. **RobotClient** replaces main by any controller that stores speeds
at any step of the update thread, and that ends as the C++ wrapper does. `raced` is history: the wheels stored between the
thread's load of an argument (or its first copy) and its copy to `prestate`, for which the thread takes as sent a speed it
has not sent; a wheel leaves `raced` when a new relay loads it. The wrapper:
`Destroy` and `JoinUpdate` are Robot.cpp's destructor, `FreeBot` its `free` of a member,
`DeleteStack` the `delete` in Diffuse.cpp, `DestroyAgain` the destructor at the end of main; each of
the three last is undefined and either goes on or aborts.

**Sensors.** One round of the thread is `Round` (with a transfer, a failed one, or none,
as another speed was stored or not), then every loop iteration of `getRobotIR` as a step,
its division and means, the accelerometer and the steps. A failed transfer clears
`CopyWords` words: `memset(rxbuf, 0, sizeof rxbuf)` clears the size of a pointer, 2 words
on the board's 32 bits. `ir_range[8]` is the word after the array, `ir_amb[0]`, always 0.
The controller is in `waitWhileCrowded` or not. Sums wrap at 16 bits. The three
accelerometer axes are one word; of the two step counters one is kept, as an integer: the
code's unsigned long is equal to it modulo its width.

**MotionShell.** One action per access to shared data, in the order of the source: `main`
(`mpc`), `timerHandler` (`tpc`) and `cmdShell` (`spc`). A handler runs on the main thread,
so main does not move while `tpc` is inside it; the shell thread does. `SetWheel`,
`SendFrame` and `WheelSpeeds` are `setSpeed2`, with C's truncation to int and to int16_t;
0.052 * 1000 / (360 * 0.04) is the rational 65/18, from which the double differs by one
unit for a few turn rates (18 of -2000..2000, among them 306, 594, 1170), none of them used here.
`Interrupt` and `Handler` are `signalHandler`. `InitSpi`, `LightLed` and `CreateThread` are main before its timer starts. `TypeMotion` stands for move, turn and mm, which do
the same to the ring; `TypeReset` and `TypeExit` for reset, exit and the end of input; help
and motion print only. `elapsed` is the difference of the two clock variables. One round of
the polling conditions (`Poll`) is a step. `Paced` confines ticks to the times main sleeps
and cmdShell waits for its operator, and resets to the times main sleeps; main and cmdShell interleave freely at every other
step. `MaxBacklog` is how many motions the operator leaves waiting.

**MotionQueue** is what the operator is offered: motions wait in the order they were accepted, each becomes the current one
when the one before it was sent and has lasted its ticks (`Advance`), is sent once (`Run`), and lasts its own (`Pass`)
before the next or the stop. It says whole motions, with one exception that is the code's: the motion in the last place of
a full queue may lose fields (`Lose`), because main blanks the slot before `header` after it has sent the motion at
`header` (main.c:138). Ctrl+c is `Abandon`, reset `Clear`; after a reset the slot at index 0 counts as the current motion
whatever it holds (main.c:273), so `Clear` leaves the current motion open and `Linger` lets it last when nothing waits.
MotionShell maps `waiting` to the filled slots after `header`, `current` to the slot at `header`, `sent` to the flag
`newCommand` and main's place, `left` to the ticks `elapsed` has still to go, `wheels` to the dsPIC.

**Descriptors, Support, GpsClient, Devices.** `table` is the process's descriptor table, `fd[t]` the
local variable fd or sd of thread t, `leaked` the descriptors whose variable went out of scope while
they were open. Every function opens one file at a time: `OpenOr` is that open with its error return.
Support has one action per open and per read or write, with the close and the return that follow.
`leds` are the attributes in /sys/class/leds; `found` in a blink's locals is history. An event of the
keyboard driver reaches every open event0. `FailedRead` and `ScanBeyond` are wait_btn_trigger after a
read that fails: -1 in a size_t is not less than the size of an event, and what the loop then finds in
memory is undefined (a return of 1, or a fault that ends the process). GpsClient keeps of a
gps_position_t its id; a datagram holds all of an id, its first bytes, or nothing of it, and a part of an id over the
-1 that getGPS starts from makes no robot's id (ids are below 256, in an int whose other bytes stay -1's). A recvfrom that fails is a stuttering step. Devices runs
any number of threads through both, over one table. The kernel, the files and the tracker are external.

**SwigTypes.** robot_wrap.c with other modules of its kind. A type's record is a pair of the module
whose static it is and the type's name; `casts` holds the linked list of each record, `types` the table
a module fills while it loads, `next` the ring. One action per step of `SWIG_InitializeModule`'s loops.
`MangledTypeQuery` is the search over the ring, whose binary search is membership, the tables being
sorted by name. `TypeCheck` includes the move of the entry that was found to the front.
`AsValLong`, `CanCastAsInteger` and `AsValInt` work on quarters, which tell every rounding apart, and on
small bounds in place of LONG_MAX and INT_MAX, which may be equal; `DoubleMax` is LONG_MAX as a double, exact or one more. Perl's
integers may be unsigned (`SvIV` wraps those above LONG_MAX), and text may be decimal, with a leading 0 or 0x (`strtol` in base
0; `Octal` is what it reads of a decimal number's digits). Perl's IV is as wide as long. `Wrap` checks the number of arguments, converts, and only
then counts as a call. Read off the code and visible in the model: every negative fraction passes as an
integer (robot_wrap.c:1536, the tolerance divides by a negative sum); undef is 0 and NULL; text "010" is 8 and ULONG_MAX is -1; when type and
cast are both another module's, and the cast is not in the list, the entry that is added names
the module's own record of the cast's type and not the registered one. As lists are compared by name, no call can tell.

Operators named after a definition and commented "Faulty" stand before it: each is a
plausible bug in the code it models, and substituting it makes the property that
`PROJECT.json` pairs it with fail.

## 3. Runs

| Run | Question | Result |
|---|---|---|
| rwalk | transfers succeed, signal (if any) on the update thread: types, wheels at rest at exit, no reset with a speed, RobotService | holds, 50,094 states |
| rwalk_faults | transfers fail, signal on any thread: an orderly end still leaves a closed robot; the process still ends, with fair threads and timer; the inductive invariant `Shutdown` of the proofs | holds, 389,353 states |
| relay | any controller, storing at any step of the update thread: a speed that was not raced reaches the dsPIC and stays, and `prestate` is what it was told; a retired robot stops; the wrapper's free comes after the thread's last access | holds, 70,768 states |
| shell | a ring of four, filled up and over, resets and ctrl+c; ticks while main and shell wait: the queue of MotionQueue, and rest at the end | holds, 269,693 states |
| shell_interrupt | ticks, commands and ctrl+c at any step: stop and LED; indices in bounds | holds, 1,854,147 states |
| sensors | frames arriving, failing or not asked for, and a concurrent reader: range of the crowding, and means | holds, 125,592 states |
| frame | two threads on the same words, received words arriving one by one: speeds of every frame obeyed, closing together, a copy of the ranges falls back by one frame at most | holds, 5,890,400 states (up to the symmetry of the threads) |
| devices | two threads in support.c and gps_client.c: descriptors, blinks in halves, the end of getGPS | holds, 264,338 states |
| binding | three modules loaded in any order, calls before, between and after: ring, records, casts, calls made, numbers | holds, 17,704 states |
| rwalk_sigterm_main | is the robot at rest if main takes the signal? (robot.h:80) | no |
| rwalk_init_race | does the update thread run after `initRobot`? (diffuse.c:85) | no |
| shell_race | does the robot rest after its motions, ticks falling anywhere? (main.c:280) | no |

Each "no" has an entry under `findings` with the lines. Where a property stops is where the code stops keeping what it says:
- `Relayed` and `RelayCoherent` except the raced wheels: a store between the read of the arguments and the copy to
  `prestate` (robot.c:68-69), or before the first copy (robot.c:56), is not sent until the next relay of either wheel. They say that no
  other store is missed.
- `ImplementsQueue` is checked with `Paced`. Without it the flags are lost as shell_race shows, and a tick or a reset
  in the middle of main's steps makes it send or blank another slot than the one it chose (main.c:131-140, 273).
- `IrForward` allows a copy to fall back by one frame: get_ir_data may overtake the words of an update that are still
  arriving, and so find an older word after a newer one (spicomm.c:79, 108). The stricter "never falls back" is violated.
- `IntAsWritten` has three exceptions, each by what C does with the number: a negative fraction
  (robot_wrap.c:1536), digits after a leading 0 (1560), an integer above LONG_MAX (1551).

Bounds and why they are enough.
- *rwalk*: `Deadline` 30 and `Tick` 10 give one to two rounds of the walk, turns and legs that
  outlast the deadline and ones that do not, with a leg length that is a multiple of the
  tick (where `>=` and `>` differ) and one that is not. The speeds are the walk's own three. One
  signal at any step; the walk's state repeats after a round, so more rounds add no new
  joint places of the threads.
- *relay*: three speeds and four stores: both wheels twice, enough for one store to be in
  flight while another has been sent and for a speed to go away and come back, in the window or out of it.
- *shell*: four slots and four commands, up to three motions waiting at once, and a further one refused: the ring wraps,
  is empty and is full, keeps the order of three, loses the fields of the last, and is reset or interrupted at each of these. A
  straight motion of one tick and a turn of two tell order, fields and lengths apart.
- *shell_interrupt*: the smallest ring, full included, with every interleaving.
- *sensors*: ranges at both ends of 12 bits, mixed frames, three rounds with any of
  them failing.
- *frame*: two threads, as the programs have, with three calls between them before each closes: a stale store
  of the command word over any step of the other thread, including its closeRobot, and a copy of the ranges under two transfers. Two of three
  received words are cleared by a memset and one is not. The threads make the same calls, so they are symmetric: only invariants are checked. The proofs are for any number of threads and calls.
- *devices*: two threads and a table of two descriptors, so that opens fail, a leak is felt and a closed descriptor
  is another thread's at once; one LED that exists and one that does not; two delays, two robots; a full socket
  after one datagram. The calls have no bound.
- *binding*: two further modules that share the type of robot with Robotc, one also another type; one
  type in two modules with different casts; a cast only one of them declares. With three modules, a new one is
  added to rings of one and of two, and every order of loading and every shuffle of the cast list between two loads is reached.
  `IntMax` 15, `LongMax` 19 and `DoubleMax` 20 leave numbers on both sides of every bound, digits that are octal and that are not, and
  octal numbers that fit where the decimal does not.

Fairness. Threads are scheduled by Linux, the interval timer repeats: weak fairness of each
thread and of the alarm. Nobody has to press ctrl+c, store a speed or type: no fairness
there. In the shell, main's steps are disabled while a handler runs on its thread, which
happens again and again, but a handler ends long before the next tick: strong fairness of
main. In Devices, a thread in getGPS is scheduled, a receive that fails does not fail for ever while a
datagram waits, and the tracker keeps sending positions with an id of every robot, some of which find room in the
socket (strong fairness: the socket is full again and again); without the last, getGPS rightly waits for ever.
Nothing is assumed of wait_btn_trigger, as nobody has to press a button.

Deadlock is checked in every run. A process that has ended stutters explicitly (`Ended`, or
`Crashed` after a fault).

## 4. Proofs

| Theorem | Assumptions | Says |
|---|---|---|
| RwalkProofs!TypeCorrect | none | the types of the program's state |
| RwalkProofs!ShutdownCorrect | none | the state at each place of closeRobot |
| RwalkProofs!OrderlyEndCorrect | none | main returns with everything closed |
| RwalkProofs!ResetAtRestCorrect | handler not on main | a reset comes with no speed |
| RwalkProofs!SafeExitCorrect | transfers succeed, handler not on main | wheels at rest at the end |
| RwalkProofs!ImplementsServiceCorrect | the same | refinement of RobotService |
| RobotClientProofs!TypeCorrect | none | the types of the relay |
| RobotClientProofs!RelayCoherentCorrect | transfers succeed | `prestate` is what the dsPIC has, on every wheel no store has raced |
| MotionShellProofs!IndicesInBoundsCorrect | none | list indices, any ring size |
| MotionShellProofs!TypeCorrect | none | the types of the shell's state, any ring, any motions |
| MotionShellProofs!SafeInterruptCorrect | transfers succeed | ctrl+c stops the robot |
| RobotClientProofs!FreedAfterLoopCorrect | none | the struct outlives the update thread |
| SensorsProofs!TypeCorrect | none | the types of the readings: every word stays in 16 bits |
| SensorsProofs!CrowdingInRangeCorrect | frames of 12-bit ranges | the crowding never overflows |
| SensorsProofs!CrowdingIsMeanCorrect | the same | after a reading it is the mean of the eight ranges |
| SensorsProofs!MeansOfSidesCorrect | the same | each mean is among the ranges of its side |
| SpiFrameProofs!FramesObeyedCorrect | none | no frame is sent without set_motor, any number of threads |
| SpiFrameProofs!ClosedTogetherCorrect | none | threads closing at once leave a stop and a reset |
| SpiFrameProofs!IrForwardCorrect | none | a copy of the readings falls back by one frame at most, received words arriving in any order |
| DevicesProofs!OwnDescriptorCorrect | none | a call only uses its own descriptor, any table size |
| DevicesProofs!DescriptorsAccountedCorrect | none | only the three known returns leak |
| DevicesProofs!BlinkInHalvesCorrect | none | a blink nobody overlaps sets both delays or leaves the second as it was |
| DevicesProofs!TypeCorrect | none | the types of the calls in progress, each local by the place the call has reached |
| SpiFrameProofs!TypeCorrect | none | the types of the frame's words and of every loaded copy |
| MotionQueueProofs!ImplementsQueueCorrect | `Paced` | the shell is a queue of motions: refinement of MotionQueue, any ring size, full rings, any commands, ctrl+c, failing transfers |
| SwigTypesProofs!RingClosedCorrect | none | the loaded modules are one ring, whatever the order of loading |
| SwigTypesProofs!OneRecordPerTypeCorrect | none | modules that know a type share one record of it |
| SwigTypesProofs!CastsDeclaredCorrect | none | the cast lists hold what the loaded modules declare, each cast once |
| SwigTypesProofs!CalledAsDeclaredCorrect | none | a function that wants a robot is called for what is declared to cast into one, and for undef |
| SwigTypesProofs!IntAsWrittenCorrect | none | a number reaches C as Perl has it, with the three exceptions; any widths of int and long, equal ones too |
| SwigTypesProofs!TypeCorrect | none | the types of the ring, the tables and the cast lists |

"None" means none but the assumptions on the constants, which TLC evaluates in the runs. Three of them say something of the
code: `SwigAssumption`, that an int is no wider than a long and a double holds LONG_MAX exactly or as one more; `SupportAssumption`, that the delays of a blink are among those a LED's files may hold, and `TableAssumption`, that
the tables SWIG generates into a module are sorted: a type is there once, and so is each cast into it.

*Rwalk.* None of `SafeExit`, `ResetAtRest` or `OrderlyEnd` is inductive: that the frame says stop
at the transfer is because both stores came before, and nobody stored in between. `Shutdown`
(in Rwalk, and checked by rwalk_faults) says, for each place of the update thread in
closeRobot, which stores have been made, that only closeRobot sets the reset bit, and that
main never touches the frame unless it runs the handler. Its proof has one step per
action; the theorems follow from it. `SafeExit` further needs that the stop that was sent has
arrived (`StopArrived`), which holds if transfers succeed. The refinement maps the process to
phases up, stopped and gone, and its one hard step is that a stopped robot stays so.

*RobotClient.* `RelayInv` says how far a changed speed has got: the arguments loaded, the words
stored, the copy and the frame, each equal to the struct, for
every wheel not in `raced`: a store in the window puts its wheel there, and the next load takes it out with what is then in the struct. `FreedAfterLoop`
rests on `ClosingInv`, what the frame holds at each place of the thread's own closeRobot, and needs no
assumption about stores: once the thread has left its loop, nothing else touches the frame.

*MotionShell.* `IndicesInBounds` holds because a handler that has `header` past the end excludes
main, and the shell past the end has yet to wrap `tail`. Main's lookups need the place of
`tpc` as part of the invariant, and the handler of ctrl+c that cuts it short. `SafeInterrupt` needs that
the handler's two stores are made after any of main's, and that nothing else sends. `TypeOK` is inductive with
`IndexInv`; its arithmetic is that `Int16` takes any integer into the 16 bits of a speed.

*MotionQueue.* The refinement is proved under `Paced` alone. `PaceInv` says what that makes of the flags and places: while the
handler of the timer runs, main sleeps and no motion is half stored. `RoomInv` says that the slot being filled is never the one at `header`, and
that the slot main blanks is the one before it, the last place of the queue. `PutInv` and `BlankInv` say how much of a motion that is stored or blanked
field by field is done; in the last place main may have blanked what cmdShell has just stored, which is why an accepted motion may lack
fields there and nowhere else. `SendInv` says that what main has read and stored in the frame is the motion at `header`. A step of the ring is
a step of the queue by arithmetic modulo its size (`Around`, `Apart`): moving `header` takes the head off (`AdvanceQueue`), the last store of
`parseCMD` appends (`PutQueue`), main's blanking is `Lose` when the queue is full and nothing otherwise (`BlankQueue`).

*Sensors.* The sum is at most 4095 times the ranges added so far, whatever the last frame left; so `Int16` is the
identity on it and the mean is at most 4095. That ranges have 12 bits is the width of the
dsPIC's A/D converter; spicomm.h only says int16_t, and with one more bit the sum would wrap.

`Partial` says what has been added at each step of the sum, which makes the mean exact, and
the range of a frame that failed half way is still one of 12 bits.

*SpiFrame.* Neither property is inductive, since a stale store can take a bit out of the word that
another thread has just put there. `MotorBitKept` says that once any thread has stored set_motor, the bit is in the
word and in every loaded copy that is going to be stored without adding it (those of reset_robot), so it can no
longer be lost. `LastStores` argues from the end: a word that every thread has stored for the last time holds what
closeRobot stores, because whoever stored it last was in closeRobot too. `LastTransfer` adds that the
last transfer came after all stores. For `TypeOK`, what a
thread has in `temp` is typed by its place: a copy of one word is never stored into the other. `RxInv` says that a word of msgRX is cleared, of the newest frame, or of
the one before it while it has still to arrive: the driver lets the next frame in only when the last has arrived whole, so a copy that falls back
does so by one.

*Devices.* `OwnDescriptor` is inductive together with `Kept` (a leaked descriptor stays open and nobody's), `PortUsed`
and `Accounted`. Each action of Support and GpsClient opens, closes, leaks or leaves the table alone, so there is one
lemma for each of the four, and the steps are instances of them.

`BlinkInv` gives a blink that nobody has overlapped the LED to itself: what it found is still there until its second write.

*SwigTypes.* No induction over the ring is to be had, so `RingInv` says "one cycle" without walking: `next` maps loaded modules to
loaded modules, and no smaller nonempty set of them is closed under it. A new module is put between the first and its successor, and a set closed
under the new `next` is closed under the old one without the new module. That a walk meets every module is then an argument about the
least number of steps (`LeastNat`) after which it is back: the modules met before that are closed. `LoadInv` types the tables up to the place the loading
has come to and says that a module uses its own record only for a type no other module in the ring has; `QueryNone` and `QuerySome` are the search
it rests on. `CastInv` says of each cast list in use, the one being extended included, that it names what the loaded
modules declare and what the module in loading has added so far, each once; `FrontKeeps` and `PushKeeps` are what the shuffle of a search and
the push of a new cast do to a list. Lists are read as the set of their names and "each once" as injectivity, so no recursion enters.
`CalledAsDeclared` follows: a search of the robot's list finds exactly the classes declared.

Model-checked only: liveness (`Terminates`, `UpdateThreadRuns` and `Rests` with their counterexamples, `Relayed`, `ComesToRest`,
`GpsReturns`), which TLAPS does not prove under fairness. Every invariant, step property and refinement that a passing
run checks is also a theorem.

## 5. Not modelled

- *State list* (fsm.c/.h). It does not compile (undeclared names, an ill-formed typedef), its insert and remove
  have empty bodies, and no target builds it: there is no behaviour to be faithful to.
- *Perl binding, in part.* What a wrapped function then does to the robot is not composed with SwigTypes: the file
  wraps an older robot.c (`initRobot()` and `closeRobot()` without arguments, globals that are gone). Several
  interpreters, clientdata, packed data and proxy classes are left out: Robotc uses none of them.
- *Formatting and output* (robotToString, robotDebug, printMotionList, help, the printf of the handlers), and
  what the C library does when a handler interrupts printf or exit runs beside another thread.
- *Code that never runs*: timerThread in diffuse.c, stopRobot in main.c; and the wrapper's
  getLED, getIR, getAccX and getSteps, which have no body.

- *Simplifications*: `header++` in the timer handler (main.c:184) is one step, so a reset between its load and its store is left
  out; the destructor's and rwalk's `pthread_join` does not fail (Robot.cpp:14, diffuse.c:138), nor does the wrapper's `initRobot`; the
  driver reads the words of msgTX at once; the position of a datagram beside its id; setLED's effect on the dsPIC.

Disagreements that are plain from the lines, modelled but claimed by no property:
- robot.h:30 calls `r_wheel_steps` the "Total number of steps in the right wheel"; robot.c:120 adds the steps of the last frame
  again in every round in which no speed changed, and so no frame was asked for (robot.c:64-73).
- robot.h:75 says waitWhileCrowded sleeps "whilst a robot is crowded"; its second decay is 0 (robot.c:145), so it gives up on a robot that still is.
- A reader of `ir_crowding` may find 0 or a partial sum (robot.c:92-98); `CrowdingInRange` only bounds what it finds.

Read off the code, without a run: exit from the shell leaves motors and LED as they are
(main.c:243, 248); durations count ticks of 100 ms though they are printed as ms (main.c:173, 308);
`ir_front_left`
reads one range too many (robot.c:102); a speed whose transfer failed is not sent again (robot.c:69), and a
failed stop is reported as a clean end (spicomm.c:79); a button that is released triggers
wait_btn_trigger like one that is pressed (support.c:132).

The order in which the models were written, and would be extended: frames, struct and rwalk first, as the program
that is built; the shell; then frame words, devices, wrapper and binding around them. What would come next: the relay as a
refinement of RobotService, and the shell's queue under a pace that lets ticks fall on cmdShell's stores.
