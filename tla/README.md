# A TLA+ model of EnergiBalanse

EnergiBalanse keeps the electric energy a house takes within an hour below an
allowed maximum by changing the charging current of the cars at home, and
charges cars on solar surplus. A second program bridges OCPP 1.6 charge points
to MQTT. This directory holds TLA+ modules of both, the TLC runs that check
them, and proofs checked by TLAPS. Paths below are relative to the repository.

## 1. The system

### The shedder (`shedder/`)

| Component | State | Operations | Interacts with |
|---|---|---|---|
| `TimeBuffer` (`data/timebuffer.py`) | `sorted_list`, `age`, a YAML backup file | `insert_sorted`, `get_index` (binary search), `get_interval`, `auto_crop`/`crop_interval`, `save`, `restore` | inserted into by paho's network thread and, the power buffers, by the main thread; one backup thread per insert, none waiting for another |
| `FloatTimeBuffer` (`data/float_tb.py`) | the same list, `accumulated` | `get_value`, `integrate`, `avg`, `get_max/min`, `get_period_max/min_list` | called by `EnergyCalculator` on the main thread |
| `EnergyCalculator` (`data/energy_calc.py`) | a power and an energy buffer, for import and for export | `insert_power`, `insert_energy`, `period_status`, `monthly_status` | fed by `input`, asked by the main loop |
| `ChargeController` (`charge_controller.py`) | per car: data of the last read, `floor_time`; `last_start_stop` | `get_vehicle_data`, `get_random_vehicle`, `adjust`, `shed`, `sun_charge_start_minimum`, counts | the cars' API (TeslaPy), the dynamic settings |
| main loop (`shedder.py`) | `last_adjust` | status, offline branch, sun branch, normal branch, `input` for MQTT messages | all of the above |
| settings (`shedder.py`) | dynamic settings and the control file | read at start (`get_dynamic_settings`, `merge_dicts`), changed and stored by `input` | paho's thread writes, the main thread reads |
| process (`shedder.py`, `__main__`) | phase of its life, the Tesla login, a check at healthchecks.io | start, login check, periodic healthcheck, exits | the supervisor that starts it again |
| MQTT client (`integration/mqtt.py`) | `connected`; at the broker: subscriptions, retained `$connected`, last will | birth message, subscribe, publish, hand messages to `input` | paho |

Two threads matter: paho's, which runs `input`, and the main thread. Nothing
is locked. The cars and their owners act on their own; every call to a car may
be refused, fail, or be obeyed with its reply lost.

What makes the parts correct:

- the buffer is sorted without duplicates, loses nothing but what it crops, and
  the searches find what they should;
- the sums and extremes equal their definitions wherever the ends lie;
- a silent meter is treated as if the allowed maximum were used;
- too much load ends with the cars cut, spare power with the cars charging at
  their maximum, solar surplus with the sun-mode cars started, the lack of it
  with these cars stopped;
- starts and stops keep the guard time, cuts the floor time, a reduction never
  raises a current, a disabled controller is quiet;
- what the process restores at a start, from the backups and the control file, is
  what was in force when it ended;
- it comes back after any end, hears its meter again, and the monitor shows the
  truth about it.

### The OCPP bridge (`ocpp/`)

| Component | State | Operations | Interacts with |
|---|---|---|---|
| `OcppServer` (`ocpp_server.py`) | `_charge_points` (registry) | `_on_connect` with its `finally`, `dispatch_command`, `_cmd_*`, `stop` | websockets, one handler per connection |
| `ChargePointHandler` (`ocpp_handler.py`) | call lock, transaction counter | OCPP messages up, transactions, calls down | its charge point |
| `OcppMqttClient` (`mqtt_client.py`) | `_connected` | publications (retained status, gateway status), `_on_connect`, `_on_disconnect`, `_on_message`, `stop` | the broker, which also holds a last will |
| `main.py` | shutdown flag | wiring, shutdown | both |

Three threads: the server's event loop, paho's network thread, the main thread.
Correct means: the registry and what the broker retains describe the charge
points that are connected, every accepted command is answered, commands are
obeyed in order, a stop ends the transaction it names, a stopped bridge is
retained as offline; all that from whatever an earlier run of the bridge has left at the
broker.

`ocpp/simple_server.py` and `integration/rest_client.py` are not part of the
running system.

### What is hard to test here

The list is in `PROJECT.json` ("hazards"), each at its line. The main ones: two
unlocked writers of one list; a copy of the list bound while another thread
inserts; boundaries of sums and of periods; decisions on data read earlier;
commands obeyed without a reply; timers shared by all cars; goals that need many
steps against owners, failures and a random choice; a reconnection that
overtakes the cleanup of the connection before it; publications dropped or
overtaken; a shutdown against a callback or during an outage; files that are truncated
before they are written, by threads that do not wait for each other, and may end
anywhere; last wills that come after the
next birth message; settings that no restart mends; commands that are carried out
after they timed out.

## 2. Modules

| Module | Models | Composition |
|---|---|---|
| `SortedList` | the list operations of `TimeBuffer` as operators; `IndexCall` is one call of the recursive `get_index`, `GetIndex` the whole recursion (a recursive function) | used by the buffer modules below |
| `BufferSpec` | what a buffer promises: a set of readings, inserts, crops | abstract |
| `TimeBuffer` | one buffer with its writer threads; a step is what a thread does between two places where the interpreter may switch: one `get_index` call, one mutation, one copy, one rebinding | implements `BufferSpec` with one writer |
| `FloatTimeBuffer` | the queries, on every list `insert_sorted` can build | EXTENDS `SortedList` |
| `SortedListProofs` | what the list operations and the queries do to any list, among them the whole recursion of `get_index`; proofs about `FloatTimeBuffer` | EXTENDS `FloatTimeBuffer` |
| `TimeBufferProofs` | proofs about `TimeBuffer` | EXTENDS `TimeBuffer`, `SortedListProofs` |
| `BufferBackup` | `save_runner` and `restore`: one thread per insert, texts cut anywhere by a full disk or a restart | EXTENDS `SortedList` |
| `BufferBackupProofs` | proofs about `BufferBackup` | EXTENDS `BufferBackup`, `SortedListProofs` |
| `EnergyCalculator` | the power buffer with both writers; `integrate` read by read on the main thread; the offline rule of `period_status` | EXTENDS `TimeBuffer` |
| `EnergyCalculatorProofs` | proofs about `EnergyCalculator` | EXTENDS `EnergyCalculator`, `TimeBufferProofs` |
| `Vehicles` | the cars, their owners, the API, the data last read, and `World`, what the surroundings may do | external parts and `get_vehicle_data` |
| `ChargeController` | `get_random_vehicle`, `adjust`, `shed`, `sun_charge_start_minimum` | EXTENDS `Vehicles` |
| `Shedder` | the main loop, control messages, time, the hour | EXTENDS `ChargeController` |
| `ShedderHistory` | `Shedder` with the times at which cars really obeyed | EXTENDS `Shedder` |
| `ShedderProofs` | proofs about `Shedder` and `ShedderHistory` | EXTENDS `ShedderHistory` |
| `ControlSettings` | the dynamic settings in memory and in the control file | |
| `ShedderMqtt` | the shedder's MQTT client, paho's thread, the broker | |
| `ShedderProcess` | start, exits, healthcheck, supervisor | EXTENDS the two above |
| `ShedderProcessProofs` | proofs about `ShedderProcess` | EXTENDS `ShedderProcess` |
| `OcppServer` | connections, registry, commands, event loop | |
| `Transactions` | `OcppServer` with transactions, what commands say, and what charge points do with them | EXTENDS `OcppServer` |
| `TransactionsProofs` | proofs about `Transactions` | EXTENDS `Transactions` |
| `OcppBridge` | `OcppServer` with the MQTT client, the broker's retained messages, shutdown | EXTENDS `OcppServer` |
| `OcppBridgeProofs` | proofs about `OcppBridge` | EXTENDS `OcppBridge` |

`MC*` modules hold the small sets of the instances; `MCWorlds` holds the worlds of the
shedder runs.

### How state and actions correspond to the code

`TimeBuffer`: `list` is `sorted_list`; `pc[w]` says where thread `w` is in
`insert_sorted`, the other per-writer variables are its locals (`entry` is `vt`,
`found` the results of the three searches, `copied` the slice that
`crop_interval` is about to bind). Indices are the code's, counted from 0.
`AutoCrop` on an empty list goes to "raised": `sorted_list[0]` is an IndexError
that nobody catches. `time.time()` is read once in `auto_crop`, where the code
reads it up to three times. Timestamps are whole ticks. The backup thread only reads the
list; what it writes is in `BufferBackup`.

`BufferBackup`: `runner[r]` is the thread started by the r-th insertion: it opens
(truncates), dumps entry by entry, writes. `yaml.dump` walks over the live list, or over
the object that a crop has replaced (`live`, `left`). A write is of a part of the text
(`WritePart`) and then of the rest, or of all at once (`Write`); a full disk (`Fail`) or
the end of the process (`Restart`) leaves the part. Where a text ends is told apart by
what `yaml.safe_load` makes of it: an entry is `- - ts` and, on a line of its own, the
value, so a text cut in the value ends in an entry with another value or none, one cut in
the timestamp in an entry with an earlier timestamp (`CutTimes`; ending "cut"), one cut
before it in an item that is no entry (ending "stump"), on which every comparison in
`get_index` raises (`Searchable`, `CropRaises`). Two threads write to the file each
from its start, so the tail of a longer text may remain (`Overlaid`), parseable or not.
With one writer a search is exact (`buffer`), so an insertion is two steps here.

`EnergyCalculator`: `phase` is the main thread's place in `period_status`.
`disturbed` and `overlapped` are history variables: a reading was being
inserted during this status; both threads were inside `insert_sorted` at once.
`query` holds the locals of `integrate`; each of its searches, each `get_value`, each
turn of its loop and its ends is a step, between which paho's thread may insert or
crop. A search or a `get_value` is one step, although it reads the list several times
(`float_tb.py:27`): an entry that comes in behind the last between two of these reads may
change its result, but only within the bounds that `EnergyIsRight` states for a list that
grew; once entries have moved (`meanwhile = "moved"`) nothing is claimed but that the
program may raise.
The two averages and the previous period are the same integral between other ends.

`FloatTimeBuffer`: floats are integers in units of `1/Scale`. `sorted` is `Ordered`, the
stable order by value, upwards or downwards; `max` and `min` return the first of equals,
its head. A period starts at each `from + n * duration` before `to` (`Starts`).

`Vehicles`: `car` is the truth, `snap` the Vehicle dict. `get_vehicle_data` may
leave old data, when a call fails or `sleep_time` postpones it (`here.stale`).
`v.timestamp` stays 0 in the code, so `update_period` never saves a call, and a
read is always attempted. "complete" stands for a battery level at its limit.
`sun` stands for a scheduled start at the magic minute (30); SCHEDULED_CHARGING
sets a minute from 0 to 9 and so clears it.

`World` names surroundings: which statuses, hours and settings occur, what owners
do, whether reads may fail, what may become of a command. `world` is the name of
the present ones, fixed in `Init`; `here` is their record. `ShedderAssumption` and
`FaultAssumption` say what a world may contain; the largest one is every status,
every setting, every move and every fault. A liveness property names the worlds
it is about (`Settled`, `TooMuch`, `Night`, ...), so that one run checks several.

`ChargeController`: `at` is the thread's place. A step lies between two calls to
the API. Ages replace clock readings; each is held at the first value beyond
which no comparison changes. `random.random()*120` is any extra from 0 to
`Jitter`. `sun_charge_enabled`, which stops reading at the first car in sun
mode, is taken to attempt all reads (with `here.stale` they may fail anyway); the
cars are visited in any order. `invited` are the `included_cars` that
`sun_charge_start_minimum` takes once, at its start (`charge_controller.py:235`).

`Shedder`: `status` is what `period_status` leads to: offline or not, imported
power or not, export against its two thresholds, average power against what
remains and its deadbands. `last_adjust_sun` is written and never read and is
left out, and so are transient publications. The healthcheck is in `ShedderProcess`.
Of the settings, control messages change `enabled` and `included` here (`Input`); they
may change timers and the sun hours, too (`shedder.py:270`), which are constants and the
hour's free choice (`ChangeHour`).

`ShedderHistory`: `sinceObeyed` and `sinceSet` are measured at the cars: when one
obeyed, whether or not its reply arrived.

`ControlSettings`: a setting is its default, another value, or a value that the loop
cannot calculate with ("useless"). `storing` is where paho's thread is in
`store_dynamic_settings`; the file is empty between truncation and write. YAML parses
an empty file to None, on which `merge_dicts` raises outside the `try`.

`ShedderMqtt`: paho gets no client id, so every connection is a new client to the
broker: `ghosts` counts the connections whose loss it has not noticed and whose last
will is still to come. `outlived` is a history variable: a last will came after the
birth message that followed.

`ShedderProcess`: `phase` is the main thread's place in `__main__`. An iteration of
the loop is one of `HealthCheck`, `LoopRaises` or nothing here: what it does to cars is
`Shedder`. Every exit, `sys.exit`, exception or kill, is `End`; connections then end
without a disconnect. `token` is the Tesla login. The monitor goes down by itself when
pings stop (`PingOverdue`, external).

`OcppServer`: `session` per websocket; a broken one is "broken" until its
`finally` block runs and "gone" after. `toPublish` are the publications that the
running coroutine has still to make; no other coroutine runs before they are
done, but paho's thread may. `order` is the queue of a handler's call lock.
`overlapped` is a history variable: a charge point returned before its loss was
noticed.
Boot, heartbeat, diagnostics and meter values publish transient messages only.

`Transactions`: `lastId` is `_transaction_id`, `ids` what each transaction was called.
`wire` are the calls on their way to the charge point, `carriedOut` the order in which it
obeyed, whether or not the caller had given up. That the coroutines reach the `ocpp`
library's call lock in the order in which they were scheduled (`order`) is an assumption
about that library: a version that awaits something, say a validation in a thread pool,
before it takes the lock does not guarantee it, and `CommandsInOrder` rests on it.
`content` is what the user sent: a stop
of a transaction seen before, or of none (the code then takes 1), a current, or a
current that is not a number. `simple_server.py` is where the mutant `SameId` is from.

`OcppBridge`: `link` is the connection itself, `_connected` (`connected`) what the client
believes, and `lingering` what the broker does: it takes a lost connection for alive
until its keepalive runs out, and publishes the last will then (`NoticeLoss`), or when
the next connection takes over the client's fixed identifier (`mqtt_client.py:54`,
`LinkUp`). A message published while the client does not believe it is connected, or
over a lost connection, is lost. `stop()` may find any of these states. `callback` is
where paho's thread is in `_on_connect`; "off" if the first connection failed and paho's
thread was never started. `BrokerInit` is what an earlier run leaves: any retained
status of a charge point, since `stop()` publishes none (`ocpp_server.py:76`), and a
gateway that is offline unless its will is still to come or its `stop()` was crossed.
`missed`, `raced` and `crossed` are history variables: a status was published in an
outage, the registry changed under a publication, and `_on_connect` published after
`stop()` had, with nothing said of the gateway since. The broker itself does not fail,
keeps what it retains, and publishes the will of a connection before it accepts the one
that takes it over.

## 3. Runs

| Run | Shows |
|---|---|
| `buffer` | one writer: sorted, implements `BufferSpec`, and the proofs' invariant holds |
| `backup` | between insertions, with no save under way, the file is the list, unless saves failed or ran into one another; wherever a save is cut short, the entries of the file are in order but for a last one cut in its timestamp, and a restart restores a list that can be searched, unless from a text cut in or before a timestamp or of saves that ran into one another |
| `power_buffer` | two writers: sound unless they overlap in `insert_sorted`; the energy summed up meanwhile is right, and an IndexError occurs only if entries moved under it; a silent meter is reported as the allowed maximum |
| `queries` | binary search, integral, counter and extremes against their definitions |
| `goals` | too much load is shed at night, spare power is used, sun-mode cars start and stop, one guard time apart, a disabled controller is quiet from wherever it was |
| `histories` | guard time and floor time hold for what the cars obey; a reduction from old data raises no current; typed state under every kind of input and fault |
| `process` | the file restores the settings in force; `$connected` and the subscriptions are right; the process comes back, hears its meter again, and the monitor shows the truth in the end |
| `transactions` | a stop ends the transaction it means; commands are obeyed in the order of their arrival; each one ends, also behind a call on a dead connection or a malformed command |
| `bridge` | from whatever an earlier run has left at the broker, registry, retained status of the charge points seen since and gateway status become current, and a stopped bridge is retained as offline once the broker has noticed every loss; but for four named causes: an overlapping reconnection, a publication dropped in an outage, a charge point that comes or goes during `_on_connect`, a connect callback that crosses `stop()` |

Runs that TLC refutes: a document, comment or test of the repository says
something that the code does not do.

| Run | Statement | What happens |
|---|---|---|
| `power_buffer_race` | `timebuffer.py:119` "keep list sorted" | two threads insert at an index found before the other's insert |
| `picks` | `charge_controller.py:312` "random vehicle from vehicles charging" | one included car never read makes the choice return None |
| `bridge_reconnect` | `ocpp_server.py:26` "registry of connected charge points" | the old connection's cleanup removes the new handler |

The conditions of the properties that hold name further limits of the code:

- `GuardKept` and `CutAfterFloorTime` need every reply to arrive. A start whose reply
  is lost does not start the guard time (`charge_controller.py:268`), a current whose
  reply is lost does not start the floor time (`:442`, `:451`).
- `DownNeverRaises` needs steps of 1 A. In the sun branch a step may be of several;
  after one whose read-back failed, the next target may lie above the car's current.
- `CutAfterFloorTime` is about the time since the last adjustment. The timer is not
  "seconds on lowest curent" (`:34`): it runs on while the car is stopped.
- `LoadIsShedAtNight` is stated outside sun hours: within them one car in sun mode
  protects all others from being cut (`charge_controller.py:156`, `:453`).
- `StatusIsCurrent`: a status dropped in an outage is not published again
  (`mqtt_client.py:175`). Nor does anything correct what is retained for a charge point
  that was connected when the bridge stopped and does not come back: the property speaks
  of charge points seen since the start, and of any other "available" may stand for ever
  (`ocpp_server.py:76`).
- `GatewayIsCurrent`: `_on_connect` may publish a list older than one the event loop
  has published since (`mqtt_client.py:164`).
- `OfflineAfterStopUnlessCrossed`: `stop()` publishes offline before it ends paho's
  thread (`mqtt_client.py:94`), so a connect callback may publish connected after it,
  and the clean disconnect drops the last will. A `stop()` over a lost connection, or
  after the client has noticed the loss, publishes nothing that arrives: the gateway
  stays retained as connected until the broker's keepalive is over (`~lingering`).
- `BackupIsCurrent` and `RestoredIsSorted`: two save threads may write one file, or one
  may dump the list while it is changed (`timebuffer.py:26`, `:49`); the file may then
  be behind, unreadable, or hold a list out of order. The next save that is alone puts
  it right.
- `RestoredIsSorted`: a text cut in its last timestamp restores a list that ends in an
  earlier one and is out of order; cut before it, one that ends in an item that is no
  entry. Then every search that comes to that item raises, so insertions raise before
  they save, and the file is restored so at every later start.
- `StoredIsCurrent`: a store that fails is not reported (`shedder.py:109`).
- `ComesBack`: an empty control file or a useless setting ends every start (`Stuck`).
- `HearsAgain`: a message whose JSON is not an object ends paho's thread
  (`mqtt.py:76`), while the main loop goes on without meter.
- `AliveIsCurrent`: a last will may come after the next birth message (`mqtt.py:22`).
- `StopEndsWhatWasMeant`: each handler counts from 1 (`ocpp_handler.py:38`), so a
  charge point that carries on a transaction of an earlier connection may have two of
  one id.

Two more are visible in the actions and carry no property: `VisitNext` does not judge
the second read of a car before it is started (`charge_controller.py:257`), and
`NormalBranch` chooses among all included cars although the comment says "all NOT in
sun mode" (`shedder.py:508`).

### Bounds

- `buffer`: 5 timestamps, a clock of 4 ticks and age 2: buffers grow to five
  entries, so the search recurses, readings come early, late and twice, and
  crops cut at either end.
- `power_buffer`: at most `MaxReadings` = 2 readings, delayed up to `MaxDelay` = 1,
  a clock of 3 ticks, periods of 2: enough for a silence, an emulated reading, a crop that
  removes it or not, and a late reading. Deadlock is not checked there, because
  the bounds end the run and an IndexError ends the program.
- `queries`: all lists of up to 5 entries over 5 timestamps and 3 values (1024
  states), all pairs of ends, periods of 1 and 2.
- `goals`: two cars, two currents, steps of up to 2 A; floor time 1 plus up to 1,
  guard time 2, adjust period 1, so each timer is both running and over when it is
  looked at. Five worlds, of at most some 100 000 states each: load (silent meter or over
  the limit, owners stop and start), spare, sun, clouds, disabled.
- `histories`: two cars, three currents, steps of up to 2 A, no adjust period. Six worlds:
  weather (surplus and import in turn, hour changes, refused commands), faults (failed
  reads, refused commands, lost replies), drivers, currents, modes (what owners do),
  users (any settings at any time, sun, silence, hour changes). Each owner's move and
  each fault occurs; not all at once, which would be beyond a search of two cars.
- Two cars are enough for one to stand in another's way, which is what the shared
  guard time, the random choice and the sun mode do.
- `backup`: three timestamps, 0, 1 and 3, one that a cut leaves (-1, below all, as the
  first digits of a number are), one value besides the missing one, age 1, a clock of 4
  ticks, three insertions, so that three saves can meet and crops come between, and a
  restart, after which the list is inserted into, cropped and saved again.
- `process`: two settings (one may be useless or missing while the other is not), two
  topics, two control messages, two unnoticed losses, three faults of any kind.
- `transactions`: one charge point, two connections, two commands, two transactions: a
  command can wait behind another, move to a later connection, or meet a
  transaction of an earlier one.
- `bridge`: two connections of one charge point and one of another, one command; any
  number of losses, noticed or not, and everything that `BrokerInit` allows (352 initial
  states).
- Deadlock is not checked where connections, commands, insertions or faults run out.

### Fairness

Shedder: weak fairness of the main loop (it runs for ever: every wait is bounded)
and of time. Strong fairness of the choice of each car: `random.choice` picks an
eligible car infinitely often with probability one; the code promises no more, and
the liveness properties hold with that probability. Nothing is assumed of owners,
users or the hour. The goals are stated for worlds where reads and commands succeed
(`Settled`); with permanent failures nothing can be promised.

Process: weak fairness of the supervisor, of each step of the main thread, of paho's
thread, of the broker's noticing a loss (keepalive) and of the monitor. Faults are
finitely many and otherwise free; the operator need not act (`ComesBack` is about
behaviours in which the login becomes valid).

Transactions: weak fairness of publications (the event loop runs) and strong fairness
of each command's coroutine: asyncio runs ready callbacks in turn, and the library
gives up a call after its timeout, whatever else the loop has to do. Nothing is
assumed of charge points, broker or users.

## 4. Proofs

Every theorem holds for every value of the constants that satisfies the named
assumptions: any timestamps, values, fleet, currents, charge points, connections,
commands, settings, and any number of readings, faults and restarts. Each one names the
property that a run also checks on a small instance, but for `GetIndexDivides`,
`SeparateImplementsBuffer` and the `TypeCorrect` of the shedder. A module's lemmas follow its
operators and actions: what an operator returns, then one lemma per action or group of
actions, then `Init` and `Next`, then the theorem.

### `SortedListProofs`: any list sorted by integer timestamps

`GetIndexDivides`: the recursion of `get_index` ends with the index that divides the list
at the timestamp (with `valid_read_index` the same one, never past the end). This is
induction over the bounds of the search, done without the library's induction
theorems: `RecursionExists` builds the recursive function on bounds of growing distance,
and `GetIndexAnswers` takes a call that would answer wrongly with the smallest distance
(`MinimumExists`) and refutes it with `CallShrinks`. The other lemmas say what one call
(`IndexCallIs`), an insertion (`PutAtIs`) and a slice (`SliceIs`) do.

Four theorems state all properties of `FloatTimeBuffer`. Its one invariant, `FloatInv`,
says that the list is sorted; the rest is what the queries compute from such a list. (The
buffer proofs below extend this module for its lemmas; `sortedList`, the variable of
`FloatTimeBuffer`, has nothing to do with theirs.)

- `FloatIndexes` is `GetIndexDivides` on these lists.
- `FloatIntegrals`: `WholeGaps` and `Flow` are folds over sets, so their recursive
  function is built first (`FoldingExists`) and shown not to depend on the order in which
  elements are taken (`FoldingTakesAny`). A counter `P` that rises by the power in force
  at every tick (`CounterExists`) then makes both sums telescope: each gap is
  `P` at its end less `P` at its start (`GapsAre`), the two end corrections likewise
  (`FlowAtEnd`), wherever the ends lie (`GapsAndEnds`).
- `FloatCounters`: division by a positive gap keeps the order although it rounds
  (`DivisionKeepsOrder`), so an interpolated value rises from tick to tick and stays
  between its two readings (`InterpolatedRises`, `CounterRises`).
- `FloatExtremes`: `get_interval` is the stretch of the list in the window (`WindowIs`);
  a stable sort begins with the best (`HeadIsBest`, from `LeastExists`), so `get_max` and
  `get_min` pick the best of a window (`MaxPicks`, `MinPicks`), and the list over the
  periods is headed by the best of all (`HeadPicks`). `PeriodsOfReadings` says that the
  periods leave no reading out, `PeriodsOfIncreases` which increases they do.

### `TimeBufferProofs`: one writer

`TypeCorrect`; and with `OneWriter`: `SearchesStayExact`, `SortedWithOneWriter`,
`OneWriterImplementsBuffer`. `OneWriter` holds of the energy buffers, which only paho's
thread fills, and is needed: `power_buffer_race` refutes `Sorted` for two writers.

`Sorted` is not inductive: an insert is right only if the index found earlier
still divides the list. `IInv` adds, per writer (`WriterInv`), that a search in
progress has its target between its bounds (`Encloses`), that a finished search
divides the list (`Divides`), and that the slice about to be bound is sorted and
equal to the window of the list that `auto_crop` asked for. The run `buffer` checks it.

### `EnergyCalculatorProofs`: two writers

- `StatusTypeCorrect`.
- `SoundWhileSeparate`: the writers' steps are those of one writer as long as one of them
  is outside `insert_sorted` (`Separate`), so the invariant of one writer carries over.
- `SeparateImplementsBuffer`: until then the two writers implement `BufferSpec` as one
  writer does (`StepRefines` needs `IInv`, not who takes the step). After an overlap they
  need not: a put at a stale index may keep a timestamp twice, and a copy that is bound
  late drops what was inserted since.
- `IndexErrorOnlyIfMoved`: `InRange` says that the indexes `integrate` holds are those of
  entries while the list only grows behind them.
- `EnergyIsExact`, the only theorem with a hypothesis on the readings: `OneDirection`, power
  is never negative and has a greatest value. The meter sends the power of either
  direction as a reading of its own, which `input` hands to a calculator of its own
  (`shedder.py:275`), so it holds of every buffer of the program. `EnergyIInv` has two
  parts. `Exact`: while the list stands still, the indexes, the sum so far and the value
  at each end that `integrate` holds are those that it would read in one go, so that
  `GapsAndEnds` gives the result. `Placed`: while the list grows, the sum so far lies
  between nothing and the greatest power over the stretch passed, and the first and last
  entries taken lie where the bound needs them (`EndsAreBounded`).
- `OfflineIsReported` assumes `KeepsEmulated`: a buffer keeps readings as long as the
  meter may be silent (`energy_calc.py:52`: 7 hours; `max_offline_time`: 10 minutes by
  default). Otherwise the emulated reading is cropped at once. `OfflineIInv` follows it
  from the decision through the insertion and the crop to the report.

### `BufferBackupProofs`

`BackupTypeCorrect`, `BackupFollowsList` and `RestartKeepsOrder`. The first property needs
`RunnersInv`: a save that started alone and met nothing is still alone, dumps a prefix of
the list, and finds nothing in the file but a part of its own text (`LoneInv`). The
second says of the file what it says of the list, so that a restart keeps it; whatever
part of a text is in the file has the timestamps of the dump in their order, but for one
that is cut (`CutFollows`, `FollowsKeepsOrder`), and a list without a stump is searched as
in `SortedListProofs`.

### `ShedderProofs`

- `TypeCorrect` with `Chosen`: whom a command names is a car of the account.
- `DownStaysDown`: the data of a car may miss the controller's own commands; `AtNight`
  bounds by how much (at most 1 A too high, because every step is of 1 A outside the sun
  hours), `Aimed` relates the target of an adjustment under way to that data.
- `HistoryTypeCorrect`, `GuardIsKept`, `FloorTimeIsKept`: a timer of the code never runs
  ahead of what the cars have done, and a command under way has passed its timer.

### `ShedderProcessProofs`

- `ProcessTypeCorrect`; `SettingsAssumption` (there is a setting) is needed for it.
- `FileIsCurrent`: the invariant adds that a process which is not past its start has
  neither paho's thread nor a store, and that the settings in force are complete (so
  that merging the defaults into them changes nothing).
- `ClientListens` is inductive; `RetainedIsAlive` needs types only.

### `OcppBridgeProofs`

- `TypeCorrect`, with `MessagesInv`: a gateway status is read only while it is the message
  to publish, so that taking the head off the queue is right.
- `RegistryStaysCurrent`: the property speaks of open connections; `RegistryIInv` speaks
  of all that are not cleaned up: until an overlap each of them is in the registry, and
  nothing else is. `bridge_reconnect` shows the overlap.
- `GatewayStaysCurrent`: `GatewayIInv` follows the list of registered charge points from
  where it is read, on either thread, to the broker.
- `StatusStaysCurrent`: what is retained for a charge point, or is about to be
  (`Latest`), agrees with the registry, for every charge point seen since the start.
- `StoppedIsOffline`: `StopIInv` adds that a gateway retained as connected has a connected
  client, whose publication will arrive, or a lost connection whose will is to come
  (`OnlyIfArrives`; otherwise a `stop()` during an outage would leave it for ever), that
  the event loop stands still once `stop()` has begun, and that paho's thread is out of
  its callbacks at the end.

### `TransactionsProofs`

- `TransactionsTypeCorrect`, with `CountedInv`: each handler has counted from 1, so the
  bound on transactions is a bound on ids.
- `StopEndsItsTransaction`: numbers on one connection are not given twice.
- `CommandsObeyedInOrder`: `OrderIInv` orders by their arrival what a charge point has
  obeyed, what is on the wire to it, and what waits for the call lock (`QueueInv`); one
  connection of a charge point carries commands, and a lost one loses its wire
  (`ConnectionInv`). The lemmas go along a command's way: `DispatchKeepsOrder`,
  `SendingKeepsOrder`, `ObeyingKeepsOrder`; leaving a queue (`LeavingKeepsOrder`) keeps
  an order because what stays is in it (`Shorter`).

### Assumptions on constants

They say that timestamps and ages are integers, bounds are natural numbers, the two
threads are different (`WritersAssumption`), a car's currents are a range, connections and
commands belong to charge points (`OcppAssumption`). `EmulatedAssumption`: an emulated
reading carries a timestamp like any other. `TransactionsAssumption`: the absence of a
transaction is not one. `FloatAssumption`: timestamps are positive (a window that ends at 0
or before means "to the end", `timebuffer.py:145`) and `Scale` is a multiple of every
gap; any finite set of timestamps has one.

### Only model-checked

- Liveness (`goals`, `ComesBack`, `MonitorIsRight`, `HearsAgain`, `CommandsEnd`): out of
  the prover's reach.

Every invariant and every action property that the runs check is proved. What
`FloatTimeBuffer` checks is stated for integers: floating point itself is not modelled,
and the rounding in it is that of results kept in units of 1/`Scale`.

## 5. Not modelled, and why

- `monthly_status`, and the estimates that `period_status` derives from its sums: they
  change no state; lists and text over the queries of `FloatTimeBuffer`. The main loop's
  decisions take their result as an input (`status`).
- `avg` is `integrate` over a length.
- `get_max_vehicle`, `get_min_vehicle`, `get_car_status`: only fill the published status.
  `sun_charge_stop` is never called. For these `ChargeController` is listed as partly
  modelled.
- `ocpp/simple_server.py`: a stand-alone debugging tool, not part of the bridge.
- `integration/rest_client.py`: nothing uses it.
- `log_handler.py`, `utils.py`: logging and formatting, no state.
- `settings.ini` and the environment: read once, constants here.
- Diagnostics, meter values, boot, heartbeat of `ChargePointHandler`: transient events.
- Hazards without a property have a note in `PROJECT.json`. Some are cases in which the
  code fails and no text of the repository promises otherwise (an empty control file, a
  useless setting, a dead paho thread, a last will that comes late, a connect callback
  that crosses `stop()`, a transaction of an earlier connection): they are actions of the
  modules, and the property that would break names them as its exception. The others are
  a car's second read that is not judged, the two branches of one iteration on one car,
  and the statuses that stay retained when the bridge stops.
- A crash or restart of the MQTT brokers, which may lose what they retain.

## 6. Plan

Done, in this order: the buffer and its proofs, its two writers, its queries, the cars,
the controller, the main loop, the histories, the OCPP server, the bridge;
transactions, backup, control file, process and MQTT client, the integral read by read,
a first broker connection that fails; the proofs about bridge and process.

Proved: every invariant and every action property that the runs check.

Left: an abstract specification of the controller (cars go down, up, off and on under a
guard) that `Shedder` implements.
