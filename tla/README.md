# Verification of the Orchard badge firmware

The firmware under `src/` drives a conference badge: a Kinetis microcontroller
with its own sub-GHz radio, a display, addressable LEDs and a few kilobytes of
flash for data, on the ChibiOS real-time kernel. Badges announce themselves over the
radio, list the friends they hear, and exchange "genes" that generate light
patterns. This directory holds TLA+ models of its core, the TLC configurations
that check them, and proofs about them for the TLA+ proof system.

Paths below are relative to `src/` (the firmware is `src/src/`); "fw" is short for
`src/src/`.

## 1. The system

### Threads

| thread | priority | what it does |
|---|---|---|
| event thread (fw `main.c:163`) | NORMALPRIO-1 | boots everything, then dispatches system events: received packets, pings, the charge check every second, restarting apps |
| app thread (fw `orchard-app.c:964`) | LOWPRIO+2 | the app on the screen: keys, timers, redraws |
| effects thread (fw `led.c:638`) | NORMALPRIO-6 | computes and sends LED frames |
| shell (fw `main.c:368`) | NORMALPRIO+1 | serial console commands |
| interrupts, virtual timers | | radio, touch, DMA; they broadcast events |

Events are flags: several broadcasts before a dispatch are one event. A thread
keeps the processor until it sleeps, blocks, or a higher one becomes ready; SPI
transfers, flash operations (`go_72mhz_mode` sleeps a millisecond) and mutexes are
the points where threads interleave. The build defines `SLIM_MODE` (some apps and
commands are not compiled), leaves assertions on and mutexes non-recursive.

### Components

| component | state | operations | what makes it correct |
|---|---|---|---|
| **ORFS**, the flash file system (`storage.c`) | 8 sectors of 2 KB, headers with signature, block, journal revision | `storageGetData`, `storagePatchData` | a patch that is not cut is exactly what was asked for, one that is cut damages no block but its own, and no block disappears or goes back |
| flash driver (`flash.c`) | the clock mode | `flashErase`, `flashProgram` | never programs what is not erased, never at the wrong clock |
| **radio** (`radio.c`) | mode, sleeping sender, mutex, chip registers | `radioSend`, `radio_unload_packet`, the interrupt, `radioAcquire`/`Release` | calls return, the receiver never stays blocked, a transmission runs to its end |
| **friend list** (`orchard-app.c`, `app-default.c`) | table of names with credits, the cursor | ping received, clean-up, sort, count, cursor keys | no doubles, cursor in the list, Select asks whom the user saw, near friends stay, gone ones fade |
| app lifecycle (`orchard-app.c`) | running app, next app, timers, UI in front | launch, exit, terminate, timer, key and radio events | one app at a time, whoever is asked to end ends, the app asked for comes next, no timer or dialog outlives its app |
| gene exchange (`orchard-app.c`, `app-default.c`, `genes.c`) | request outstanding, time-out, consent, family | request, consent, gamete, storing, time-out | a child's father has consented, SUCCESS means a child, nobody waits forever |
| user configuration (`userconfig.c`) | RAM copy, dirty flag | setters, `configFlush`, `configLazyFlush` | every change reaches flash |
| apps (`app-*.c`), UI (`ui-*.c`) | menus, text entry, dialogs | key events | a dialog's list lives until it is completed |
| LED effects (`led.c`) | frame buffers, pattern, brightness shifts | next, previous, dim, beat, page, low battery | the genome shown belongs to the pattern, a low battery is shown and limits the light |
| power (`charger.c`, `orchard-app.c`) | charger registers, `shutdown_initiated` | keep-alive, check, ship mode from two threads | an empty badge goes off, and nothing undoes that |
| microphone (`mic.c`, `AudioProcessor.c`) | DMA blocks | start, block full, read | the block read is not the one being filled |
| touch sensor (`touch.c`, `orchard-app.c`) | one interrupt line, a status register | key events, reading Home, clearing | Home and the keys are noticed whoever clears the interrupt |
| paging (`paging.c`) | the pending page | receive, show, restore | delays the rest of the event thread, stops none of it |
| accelerometer, self tests and audit log, entropy and fixed-point maths, shell | | | |

Interactions: the event thread calls the packet handlers, which change friends
and genes and answer over the radio; genes, configuration and audit log live in
ORFS blocks; `configLazyFlush` writes flash from the charge check; the app thread
reads friends under `friend_mutex`, reads genes straight out of flash through the
pointer `storageGetData` returned, and sends packets under `radio_mutex`.

### What is hard

* **Power loss** at any flash operation. There are no checksums; validity rests
  on the order in which header and data are written.
* **Interleaving without locks**: `storage.c` takes none, yet every operation
  sleeps. Pointers into flash are held while the flash changes.
* **Interrupts against threads** in the radio: one interrupt line with two
  meanings, told apart by a variable that changes while packets arrive.
* **Stale state** in the user interface: a cursor into a list that pings,
  clean-ups and sorting change from another thread.
* **Time-outs against late answers** in the gene exchange, over a channel everybody
  hears and a receiver that holds one packet.
* **One thread for everything urgent**: the event thread shows pages and prompts for
  seconds, and also watches the Home pad, the battery and the watchdog.
* **Two threads on one I2C bus**: both clear the touch interrupt, both set up the
  charger, and each may have to wait between its test and its write.

`PROJECT.json` lists the hazards one by one at the lines where they bite.

## 2. The modules

| module | models | extends |
|---|---|---|
| `OrfsFormat` | the flash image, what an erase and a program operation do to it, the two scans of `storage.c` (newest copy, empty sector) | |
| `BlockStore` | what ORFS promises: a store of blocks with atomic patches | |
| `Orfs` | `storage.c` used by one thread, with power losses; refines `BlockStore` | `OrfsFormat` |
| `OrfsThreads`, `MCOrfsThreads` | `storage.c` used by several threads that also keep pointers | `OrfsFormat` |
| `Radio` | sending, unloading, the interrupt and the chip | |
| `Friends` | the friend list and the cursor of the default app | |
| `AppLifecycle` | the app thread from its start to its end, its events, timer and dialog, the Home pad and the event thread that starts the next app | |
| `GeneExchange`, `MCGeneExchange` | request, consent, gamete, child and time-outs between badges | |
| `Effects` | the light pattern, the genome shown, brightness and beat, changed by two threads | |
| `Touch` | the touch sensor, read and cleared by two threads | |
| `Power` | keep-alive, the check of the battery, ship mode, and the flush of the configuration | |
| `OrfsProofs`, `OrfsThreadsProofs`, `RadioProofs`, `AppLifecycleProofs`, `GeneExchangeProofs`, `TouchProofs`, `PowerProofs` | theorems (section 4) | the module they are about |
| `DefaultAppProofs` | theorems about what the default app shows | `Friends`, `Effects` |

Definitions carry the names of the functions they model; `PROJECT.json` maps each to
its lines. A definition named `<original>_<defect>` is a *mutant*: the original with a
plausible bug. Nothing uses it; replacing the original by it must violate the
property `PROJECT.json` pairs it with, which shows that the property can fail.

A step of a model is what a thread does between two points where another one can come in.
The event thread has a higher priority than the app thread, so what it does without sleeping is one
step, and what the app thread does is one step per access to shared variables. Where such a variable is not `volatile`,
the race is undefined behaviour that the compiler resolves; the steps are then those of the code GCC makes at the
`-O2` of the `Makefile`.

### ORFS

`sector` is the flash: for each sector whether the signature is there, the block and
revision words (one value of each type stands for the erased word) and the data words.
The version word, never read, is left out; byte offsets become functions on a
contiguous range of words; a word's content is an abstract value, one of which is
"erased". A call is a sequence of the flash operations it makes: `pc` says which is next.
`Erase` and `WriteHeader` are `init_sector`; then either the patch is programmed in
place or prefix, patch and tail are copied. An operation is one step because
`flash.c` locks the system around it; the parts of a call between two operations
only read and are part of the step before them. `PowerLoss` cuts the operation that
is under way: an erase has happened or not, a programming has got through a first part
of its words, header words in their order in memory. RAM is lost; `Restart`
follows. Not modelled: flash cells left in between by an interrupted erase, wear,
failed operations, arguments out of range (no caller passes any).

`find_empty_sector` has undefined behaviour on one image, see *Findings*; there the model
enters the state "undefined" and stops, which is why these runs do not check for
deadlock. Everything proved about `Orfs` holds up to such a state.

`OrfsThreads` gives each thread a call in progress and a held pointer. Each
pointer remembers what the block held for good when it was got (`Committed`: while
a copy is being made, what its source holds).

### Radio

One step per access to the chip, since each SPI transfer sleeps. The chip is
external and modelled by what `radio.c` asks of it: operating mode, what DIO0 signals,
the FIFO, PayloadReady (no further packet is received while it is set) and
whether the amplifier's registers are set for sending. `radio_handle_interrupt`
is part of the two chip actions that raise DIO0. Whether the chip forgets a received
packet when it leaves receive mode is left open. `radio_unload_packet` takes no mutex and what it reads from
the FIFO is gone (`ReadFifo`, in `UnloadFifo` and `Drain`), also when it is a packet that the other thread has just loaded: that one is then
sent short (`fifo = "cut"`). Assumed of the chip: having begun to send, it signals the end
of what it finds. Sending starts as soon as
the FIFO is loaded (`FifoThresh`), so `PacketSent` can come before the sender sleeps;
`Prompt` is the set of senders for which it does not.

### Friends

Names are numbers in alphabetical order. `radio_ping_received` and `friend_cleanup`
are single steps: both run in the event thread, which the app thread cannot
preempt, and neither blocks except on `friend_mutex`, which the app thread holds only
within a single step (`RedrawSort`, `RedrawCount`, `RedrawDraw`, `confirm_sex`). A redraw is sort, count and
draw, and the event thread comes in between; `RedrawOther` is the redraw while a gene exchange is on the
screen, which returns before it sorts. `qsort` may return any
sorted order (`friendsSort` chooses a permutation). A failed allocation leaves the table
as it was. `partner` is the friend under the cursor, whom `RedrawDraw` shows and Select (`confirm_sex`) asks; while its
dialog is open nothing is redrawn (`DialogEnds`). Two variables are history: `heard`, the names heard since the
last clean-up, and `shown`, whom the user last saw under the cursor, if not forgotten since. How the list is drawn is left out.

### AppLifecycle

`pc` is where the app thread is. From its start to the event loop it does little that others see;
its end (`orchard_app_thread` after the loop) is modelled one
statement at a time, because the event thread and two interrupts come in between:
`StopTimer`, `ChooseNext`, `ClearNext`, `ResetLauncherTimer`, `Disengage`, `Unhook`, `AppEnd`.
`pending` is the set of events the thread has been sent; `Dispatched` takes the one that was hooked
first, and the event thread does the same with its own (`TakesEvent`): a touch comes before the "urgent" ones (charge check,
page, ping, packet, keep-alive), and the end of an app's thread after all of them. What an app does with an event is one of three things: nothing that matters here, to ask for
another app (`orchardAppRun`, which only the launcher calls, and a test command of the shell), or to open a dialog (`confirm_sex`, only
led). `items` is the list a dialog's app allocates and frees. `run_launcher` is the interrupt that
asks for the launcher when Home was held; `engaged` and `armed` are the two variables that go with it.
`PokeRead` and `poke_run_launcher_timer` are one function, split at the I2C read that sleeps.
`OverrideBegin` stands for a page or a prompt, `UrgentHandler` for the other urgent events. `orchardAppRestart` is two steps: while
`instance.thr` is NULL between them (`ReleaseThread`), `run_launcher` writes through it (`RunLauncherFault`), and
the badge stands still until the watchdog resets it (`Watchdog`).

The interrupts at `Touch`, `OtherEvent` and `UrgentEvent` may come at any moment. Left out: which key
was touched, unless it is Home; the contents of dialogs; and drawing.

### GeneExchange

Any number of badges, each with an app thread (`sex_running`, `sex_done`, `waited`, `screen`), an
event thread (`ev`, `prompt`, `packet`) and a radio that holds one packet (`fifo`). `Broadcast`
gives a packet to any of the radios that are free; the others lose it, so packets are lost and late, and
badges hear what is not for them. `GiveUp` with the FAILURE screen and `Succeed` are the end of
`led_event`, which looks at the time first and at `sex_done` last. Whether
the badge asked has a pattern with genes when it answers is a choice (`Answer`): keys and the battery check
change it at any time. `fathers` and `consented` are history. Left out: meiosis and mutation (random
numbers and colours), and two badges with the same name, which the protocol cannot tell apart.

### Effects

`fx_index` and `shift_` are read and written by the app thread in separate steps (`val` is what it has read or
computed), and the event thread writes them for pages and for a low battery in between. `fx_index` is not `volatile`:
a statement that tests and then changes it loads it once (`Move`), as GCC compiles it at `-O2`, so the test for 0 and the
decrement see one value and the index cannot underflow; whether the test for the strobe and the second
move (`SkipStrobe`, `MoveAgain`) go on with the value stored before or load it again is left open. `diploid` is
the family member whose genome is shown, or -1. `check_lightgene_hack` looks the name of the
effect up twice, and replaces the genome last; what it takes for a family member when the second name is not a
lightgene's is one value here. `raced` is history: a page began or ended while a
change was under way, or a low battery set its pattern while the strobe was being skipped. `PatternIsWhole` exempts these, so of
the races with a page it only covers those outside a change. The effects thread is not modelled: it only reads these.

### Touch

`status` and `int` are the sensor's register and interrupt line. `captouchRead`, in the event thread,
at the start of an app and in the prompt, clears the line before it reads; `touchHandler`, in the app
thread, reads first and clears afterwards. The edge of the line is broadcast to both threads, to
the app thread only while it listens. Two variables are history. `stale`: the app thread's last reading held a key that had already
been let go. `missed`: since that reading a change came whose edge made no event for it, or `keyHandler` kept back what was read.

### Power

`evt` and `app` say where the two threads are; `EvtHasBus` and `AppHasBus` say when a thread gets the I2C bus, which
goes to the waiting thread with the highest priority. `CheckBattery`, `EvtShipMode` and `AppShipMode` are
`handle_chargecheck_timeout` and `chargerShipMode`, cut where they wait for the bus; the gauge's transfer, the sleeps and the
read-backs before the spinning are one state ("settle"). `chgKeepaliveHandler` and
`Keepalive` are the test of `shutdown_initiated` and the ping after it. `charging` is what `isCharging` says, which may
be no while the charger is plugged in. A thread that is in
`chargerShipMode` spins until the power is gone (`PowerOff`). If a charger keeps feeding the badge it is not gone: an
event thread that spins is then reset by the watchdog (`Watchdog`), but when it is the app thread, the event thread runs on, feeds the
watchdog every second, and the badge spins until the charger is pulled.

The configuration is a count of changes: `cache` is the RAM
copy, `flash` the block, or `Torn` while it is patched; because `storagePatchData` programs word by
word, a change that comes meanwhile may or may not be in what is stored (`StartPatch`, `EndPatch`). Nothing keeps
`configLazyFlush` and the flush of the ship mode app (`shipmode_start`) apart: when they overlap, `image` is `Torn`, an
assertion may stop the badge at any moment (`Assertion`, then the watchdog), and what is stored may be any state so far. A damaged
block is replaced by the default at the next start (`Boot`). `due` is history: what was to be stored when the check began.

## 3. The runs

| run | bounds | shows |
|---|---|---|
| `orfs` | 3 sectors (2 blocks), 2 words, 2 values, 4 revisions | all safety properties of `Orfs` and the refinement of `BlockStore` |
| `torn_header` | the same | violated: the search leaves its table |
| `readers` | 3 sectors, 2 words, 3 revisions, a writer and a reader | assertions hold, pointers survive one patch |
| `two_writers` | the same, both write | violated: an assertion fails |
| `radio` | event and app thread, both send | transmissions run to their end, the receiver is never stuck, calls return |
| `lost_wakeup` | the app thread may be delayed | violated: a call never returns |
| `friends` | 3 slots, 4 names, credit 1..3 | consistency, whom Select asks, and fading |
| `app_lifecycle` | 3 apps: the launcher, led, another | timers and dialogs belong to their app, requests are run, releases cancel, who is asked to end ends and has a successor once the event thread's other events pause |
| `genes` | 3 badges, two of which ask the third, time-out 0, prompt 1 tick | children have consenting fathers, SUCCESS means a child, the exchange ends |
| `effects` | 4 patterns (2 lightgenes, the two warnings), 3 shifts | the genome fits, a low battery is shown and obeyed, the beat follows |
| `touch` | Home and 2 keys | Home and keys are noticed |
| `power` | 2 changes | ship mode is kept, an empty badge goes off, changes are stored before |

Bounds. Two blocks are the fewest for which "another block" exists, three sectors the fewest for two
blocks; with them all sectors are in use and the two copies of a block are erased in
turns. Two words give patches with a prefix, with a tail, and without either. Four revisions let
each block be copied three times, so every sector is reused, and let the journal run out. In
`OrfsThreads` three revisions allow four patches, and a pointer meets its end after
two. `Radio` has no bounds but its two threads, of which one plays both roles of
the event thread. In `Friends` one name more than slots makes the table full, and a highest credit
of 3 with an initial credit of 1 and a hysteresis of 1 has friends below, at and within the
hysteresis zone (the code: 4, 12, 4, 100 slots). `AppLifecycle` needs the two apps the code treats
specially and one it does not. In `genes` the prompt lasts longer than the time-out, as in the code (10 s and
8 s), so that an answer can be late; two badges that ask a third are the fewest for which an answer can be overheard and a
request can wait behind another. A badge that asks is itself never asked within these bounds, so no initiator is held up by a prompt of its own. `Effects` has one pattern per role and two with genes, and limits at the middle
and at the end of the range. `Touch`: a key that is touched while another is let go needs two besides
Home. `Power`: the second change is the one that comes while the first is flushed. The theorems of section 4
do not depend on these bounds.

Deadlock is checked except where the system may stop: `orfs` and `torn_header` ("undefined"
is final) and `lost_wakeup` (the stop is what it shows, as a violation of `CallsReturn`).

### Properties

* `EraseIsSafe`, `RevisionsDistinct`, `NoAssertionFails`, `NeverRollsBack`:
  between its choice and its erasure a sector is nobody's newest copy; no two copies
  of a block have the same revision; no assertion fails; a block never disappears nor goes back.
* `ImplementsBlockStore`: refinement of `BlockStore`. Without a power loss every patch is
  exactly the patch asked for; with one, the block being patched has words that are old, new or
  erased, and no other block changes. The mapping takes the source sector as the content of a
  block while it is being copied.
* `PointerSurvivesOnePatch`: a pointer got while its block was not being patched shows the same
  data until the second patch from then begins.
* `TransmissionComplete`, `NoRxDamage`: nothing takes the chip out of its set-up
  between loading and the end of the packet; unloading, which takes no mutex, may cut a packet of the app thread short, but none of the event thread's own; the receiver is never on with the sender's settings.
  `ReceiverNeverStuck`, `CallsReturn`: liveness.
* `NoDuplicates`, `CursorInList`, `NearbyFriendsStay`, `SilentFriendsFade`. `LinesKeepFriends`: while sorting is locked out no
  friend changes its line, and a line changes hands only after its friend was forgotten. `SelectAsksWhoIsShown`: Select asks whom
  the list showed under the cursor, unless that one was forgotten since.
* `TimerIsOwn`, `CompletionHasList`: no timer outlives its app, and a dialog that completes has a list
  to free. `RequestsAreRun`: the app asked for last is the one that runs next, except that Home, between the
  two statements that take and clear the request, is forgotten. `ReleaseCancels`: a running launcher
  timer can be stopped by letting go of Home, except when Home was touched between the two statements that reset it.
  `AskedToEndEnds`: who is asked to end ends, and is followed by a start if touches, pages and packets ever pause. `HomeIsAnswered`: liveness.
* `ChildrenAreConsensual`, `SuccessHasChild`, `ExchangeEnds`.
* `PatternIsWhole`: when no change is under way the pattern is not the strobe and the genome belongs to the pattern,
  but for the races of `raced`. `LowBatteryIsShown`, `BrightnessIsLimited`, `BeatFollowsCeiling`: the check, the limit
  and the beat get through, however many pages and keys come.
* `HomeIsSeen`, `HeldHomeIsSeen`. `KeysAreTold`: an app that has handled its events knows every key under a finger, and no other unless
  its reading was stale; exempt are changes that made no event for it, and what `keyHandler` keeps back (`missed`).
* `ShipModeIsKept`: once a thread has set up the charger to switch off, the other one's ping does not bring it back.
  `EmptyPowersOff`: liveness, but for a charger that comes or a badge stopped by an assertion. `ChangesAreStored`: whenever the check gets to
  the battery what was changed before it is in flash (`CheckStores`), and every change gets there, but for flushes that overlap.

### Fairness

Weak fairness of a thread's next step stands for the scheduler, which runs what can run; all
threads sleep often, so lower ones get their turn. Beyond that:

* `Radio`: strong fairness of acquiring the mutex (ChibiOS hands an unlocked mutex to a waiter) and of dispatching a
  received packet (`rf_pkt_rdy` is served after touches, the charge check, pages and pings: two come from timers that run for seconds, a page
  only from a packet unloaded before, and a finger does not outrun the thread), weak fairness of the chip sending
  what it was given. There is none for starting to send, for packets arriving, or for the charge check.
* `Friends`: weak fairness of the clean-up, which the ping timer re-arms for ever.
* `AppLifecycle`: pages end, timers run out, and the watchdog bites after a fault: weak fairness only. The event thread serves the first event
  pending, so that `orchard_app_terminated`, the last in its order, may starve; `AskedToEndEnds` supposes for its second half that the
  others pause. None for the user, pages and packets.
* `GeneExchange`: the clock goes on; strong fairness of the app's time-out and success, which prompts
  interrupt again and again. None for asking, consenting, leaving the app or coming back.
* `Effects`: the battery check's timer is re-armed for ever; strong fairness of audio frames, which keys keep the
  app thread from. None for keys and pages.
* `Touch`: pages and prompts end. None for fingers.
* `Power`: strong fairness of the two threads, which wait for a bus that is taken again and again but serves a
  waiting thread in between; the check's timer goes on, and power that can go, goes. None for the watchdog.

### Findings

Three statements of the code's own comments and assertions that the models show not to hold; each is a
run that ends in a counterexample (`PROJECT.json`, "findings", quotes the lines).

1. `torn_header`: power fails after the signature of a header; the next search indexes
   its table with 0xFFFFFFFF.
2. `two_writers`: two threads patch through the same empty sector.
3. `lost_wakeup`: the end of the transmission comes before the sender sleeps.

The models also contain behaviour that a reader may not expect, which no run states as a
violation, since the code promises nothing else or the properties above allow for it:

* during a patch `storageGetData` returns the unfinished copy (`OrfsThreads` counts such pointers as unreliable);
* the FIFO is read without `radio_mutex`: the event thread may read away what the app thread has just loaded (`fifo = "cut"`);
* a new friend is put into the first free slot, which may be under or above the cursor, although a comment (`app-default.c:171`) has it
  at the bottom of the list: once the friend shown there is forgotten, Select asks one that was never on the screen;
* the release of a key that `touchHandler` reads before it is cleared leaves that key stuck until the next change (`stale`);
* a request by Home at the very end of an app is lost, and a launcher timer started there fires although Home is let go;
* the launcher timer can run out while `orchardAppRestart` has no thread (`RunLauncherFault`), and touches, pages and packets that keep coming can keep the badge without an app;
* an app that starts clears `ui_override` of a page that is being shown, which brings keys and drawing back under it;
* a dialog interrupted by a page when it completes, or by the end of its app, leaks its list;
* FAILURE can be shown although a child is being stored, and SUCCESS after it; an answer
  to an earlier request can end a later one;
* the time-out of 8 s, whose comment says 15, is shorter than the 10 s the other user has;
* the ship mode app learns of a charger by its timer only, so Select shortly after plugging in makes the app thread spin; the event thread
  feeds the watchdog meanwhile, and nothing ends it until the charger is pulled;
* `isCharging` is no when the charger is plugged in and idle or in fault: an empty badge is then switched off, fed by its charger, and reset by the watchdog;
* the ship mode app's flush can overlap the event thread's, which may stop the badge with the change unstored.

## 4. The proofs

### ORFS

`OrfsProofs` proves, for every number of sectors (at least two), of words and of
revisions and every set of values, from `FormatAssumption` alone:

| theorem | states |
|---|---|
| `Invariant` | `Spec => []IInv`, the inductive invariant |
| `TypeCorrect`, `ErasesAreSafe`, `RevisionsStayDistinct`, `AssertionsHold` | the invariants of the run `orfs` |
| `NoRollBack` | `Spec => NeverRollsBack` |
| `OrfsImplementsBlockStore` | `Spec => ImplementsBlockStore` |

The argument. `EraseIsSafe` is what matters but not inductive: that the sector found is nobody's
newest copy follows from the scan (`EmptySectorIsExpendable`: it has no
signature, or another copy of its block has a lower revision), and the scan's comparison is
only strict if revisions are distinct. Revisions stay distinct because a new copy gets the revision below
the newest one, which needs that `src` still is the newest when the header is
written: `PhaseInv`. The scan finds a sector because there are more sectors than blocks (`ScanStops`, a
pigeonhole argument on the first `BLOCK_TOTAL + 1` sectors). `IInv` is the conjunction of
these with `TypeOK` and `NoAssertionFails`; one lemma per action shows that it is kept,
from facts about the new image (`EraseFacts`, `HeaderFacts`, `ProgramFacts`, `TornHeaderFacts`). `PhaseInv` also says what
has been copied so far, which the refinement needs: the last programming makes the sector
exactly the patched block (`TailCompletes`), every step before leaves the mapped content alone.

### ORFS with several threads

`storage.c` has no lock, and the run `two_writers` shows what two overlapping calls of `storagePatchData` do to each
other. `OrfsThreadsProofs` shows that, but for reading a copy that is
not finished (section 3), nothing else goes wrong: for any number of threads, whatever
each may patch, and wherever in a call the others read, while `Serial` (no two calls overlap) holds:

| theorem | states |
|---|---|
| `SerialInvariant` | `Spec /\ []Serial => []TInv`, the inductive invariant |
| `SerialCallsAreOrfs` | `Spec /\ []Serial => [][Alone!Next]_(Alone!vars)`: the steps are steps of `Orfs` |
| `SerialPatchesAreAtomic` | so are those of `BlockStore`, without a power loss: patches are atomic |
| `SerialNoRollBack` | no block disappears or goes back to an older copy |
| `SerialAssertionsHold`, `SerialPointersSurvive` | the invariants of the run `readers` |
| `OneWriterIsSerial` | if `MayPatch` lets a single thread patch, `Spec => []Serial` |
| `AssertionsHoldWithOneWriter`, `PointersSurviveOneWriter` | so the invariants hold, without an assumption on behaviours |

`Serial` is what a lock around `storagePatchData` would establish; the firmware has none. It has one writer, the event thread, until the
ship mode app flushes from the app thread (`app-shipmode.c:48`) or the shell runs a self test, so the last two hold of the code up to then, and
the first ones say what it would need from then on. `Serial` is assumed of the behaviour, not built into the steps: `OrfsThreads` allows overlapping calls.

The argument. `Alone` is `OrfsProofs` instantiated with the one call in progress (`Call`) in place of its variables, so
its invariant `IInv` and `NextKeepsIInv` apply as they stand once every step is shown to be one of `Orfs` or to leave its
variables alone (`StepIsOrfsStep`); reading and letting go of a pointer are such steps. `FlashInv` (every block is
allocated, and signed headers carry block numbers, since no power fails here) excludes the image on which
`find_empty_sector` is undefined. `PointerInv` is about the pointers: one that no patch has begun since shows the newest copy;
the sector a patch erases is nobody's newest copy (`EraseIsSafe`), so the first patch after it does not touch what
the pointer shows, even if it is of the same block; only then may the sector be chosen as an empty one.

### Radio

For every set of threads, senders and prompts: `TypeCorrect`, `TransmissionsComplete` (the invariant
`TransmissionComplete`, with a packet that unloading has cut) and `ReceiverIsNotDamaged` (`NoRxDamage`). Neither is inductive: what the chip is set to
follows from where the holder of `radio_mutex` is, so the invariant says which operating mode, interrupt
mapping, amplifier set-up and FIFO content belong to each step of `radioSend`, and that nobody else is
within the section the mutex guards.

### Friends

For every table size, credits and set of names: `TypeCorrect`, `FriendsAreListedOnce`, `CursorStaysInList`, `NearbyStay`,
`LinesAreKept` and `SelectsWhoIsShown` (by `ShownInv`). The invariant adds `CreditInv`: who was heard since the last clean-up has a
credit of at least 2, which is why the next clean-up leaves it. Sorting is a permutation of the slots, which reaches
every slot because the table is finite (`PermutationReaches`).

### Effects

For every set of patterns and lightgenes, and every limit of the brightness: `LightTypeCorrect` (the brightness in range
although it is written from values read long before) and `PatternStaysWhole` (`PatternIsWhole`). The module is
`DefaultAppProofs`, with the proofs about `Friends`. `PatternIsWhole` speaks of the time between changes;
`WholeInv` adds what is known within them: a change that has written its pattern has not left the strobe
(`Written`), one that is about to skip it has read another (`Neighbours`: with at least two patterns the next
one is never the same), the family member looked up is that of the pattern, and a page that began between changes keeps
a pattern other than the strobe. A page within a change, or a low battery within the skipping of the strobe, makes `raced` true, which the next change resets.
The only assumption is `EffectsAssumption`, which also says that the strobe is not pattern 0: the linker
sorts the patterns by name (`SORT` in `ld/MK22FN512.ld`), and `effectsStart` begins with the first.

### AppLifecycle

For every set of apps: `TypeCorrect`, `OneAppAtATime` (the assertion of `orchardAppRestart`, which no run repeats),
`TimersEndWithTheirApp`, `CompletionsHaveLists`, `RequestsRun` and `ReleasesCancel`. The invariant adds where the timer may
run and events may be pending (`TimerInv`), that a dialog belongs to the app that runs and has its
list until it is completed (`DialogInv`), that an app asked to end has a successor until it clears it (`SuccessorInv`), and what has
been chosen by then (`ChoiceInv`); while the event thread is between releasing one thread and creating the next, none is alive (`RestartInv`).

### GeneExchange

For every set of badges, requests and times: `TypeCorrect`, `FathersConsented` and `SuccessIsEarned`. The invariant
follows the gamete: consent for those in the air (`AirInv`), for those being stored (`StoreInv`), and so for the
children; and `sex_done` means that a child has been stored since the request (`DoneInv`).

### Touch

For every set of keys: `TypeCorrect`, `HomeIsAlwaysSeen` and `KeysAreAlwaysTold`. The invariant says what is known while
the line is not asserted (`LineInv`: the status register is the truth, and an asserted line is an event of the event thread) and what the app thread
has read at each of its steps (`AppInv`).

### Power

For every number of changes: `TypeCorrect`, `ShipModeStays` and `ChecksStoreChanges` (`CheckStores`, the safety half of `ChangesAreStored`). Two facts make `ShipModeIsKept` inductive: whoever is in
`chargerShipMode` has set `shutdown_initiated` before (`ShutdownInv`), and when the app thread spins, the event
thread is not in the middle of a ping, since it would have got the bus first (`PingInv`). `CheckStores` follows from what is known of the image while one thread patches (`ConfigInv`, `DueInv`).

### Only model-checked

All liveness properties: `ReceiverNeverStuck`, `CallsReturn`, `SilentFriendsFade`, `AskedToEndEnds`, `HomeIsAnswered`,
`ExchangeEnds`, `LowBatteryIsShown`, `BrightnessIsLimited`, `BeatFollowsCeiling`, `HeldHomeIsSeen`, `EmptyPowersOff`
and the liveness half of `ChangesAreStored`. They rest on fairness, which is beyond the prover. Every other property of a passing run is
also a theorem. The three runs that expect a violation are counterexamples, which need no proof; `two_writers` shows
that `SingleWriter` cannot be dropped from the theorems above.

## 5. Not modelled

* LED pattern arithmetic, colours and mutation, the FFT, fixed-point mathematics, random numbers, drawing: pure numeric or output code whose
  results no other part depends on.
* Register set-up of the radio, charger, gauge and accelerometer, and the drivers' straight-line initialisation: written once; the models
  start from what `main.c` leaves.
* The clock mode of `flash.c`: two threads that program at once are already shown to fail an assertion (`two_writers`).
* The DMA double buffer of the microphone: display data, where a block half overwritten is a moment of noise.
* List selection, text entry and the menus of the apps: sequential code of one thread. The oscilloscope of the default app
  is not compiled (`SCOPE_MODE=0`). How
  apps and dialogs begin, are interrupted and end is `AppLifecycle`.
* The audit log: two patches of an ORFS block, each of which `Orfs` models.
* The shell's debugging commands; apps and commands that the build leaves out.
* Everything outside `src/src/`: register definitions, board files and vendored libraries, by far the largest part of the
  repository by lines, without control of its own. ChibiOS is a submodule whose
  code is not in the repository; events, mutexes, timers and priorities are modelled from how the firmware uses them.

What could follow: the preemption of the effects thread while it draws, a composition of `Power` with `Orfs` in place of the
count of changes, and a composition of `Radio` with `GeneExchange` in place of the one-packet receiver.
