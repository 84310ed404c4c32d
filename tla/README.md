# laserTag: specification and verification

TLA+ modules, model-checking configurations and machine-checked proofs for the
laser-tag firmware in `src/`: the *emitter* (the gun, `emitter/src`), the
*vest* (`reciever/src`) and what they share (`common`). Both are Zephyr
applications written in C. The phone application is not in the repository; only
its side of the protocol is described (`IOS_SYNC.md`).

## 1. The system

| Component | Source | State it keeps | Operations |
|---|---|---|---|
| Combat state | `emitter/src/game_state.c` | configuration, health, magazine, reserve, alive, reloading, time of the last shot | start, respawn, fire, take a hit, start and complete a reload, add ammunition, set the configuration |
| Emitter application | `emitter/src/main.c` | `current_state`, friendly list, ring of seen hits, `trigger_ready`, work items, saved configuration | one handler per phone command, `on_vest_hit`, `on_mesh_game_start`, trigger, reload and periodic handlers |
| Vest client | `emitter/src/ble_vest.c` | the connection to the vest and the progress of its discovery | scan match, connect, discover, write, disconnect |
| Mesh, transmitting | `emitter/src/mesh.c:25-271` | transmit queue, `is_broadcasting`, repeat and relay buffers, the scanner | broadcast, repeat, relay, pump, stop |
| Mesh, receiving | `emitter/src/mesh.c:70-86, 240-250, 459-510` | ring of seen frames | drop duplicates, filter by team, start a game, forward, relay |
| Phone link | `emitter/src/ble_phone.c`, `main.c` | connection, advertising | connect, notify |
| Vest application | `reciever/src/main.c` | `current_state`, the binding, the pairing window, the pending hit and its retries, friendly list | infrared hit, infrared pairing frame, one handler per emitter command, retry, time-out, connected, disconnected |
| Vest GATT service | `reciever/src/vest_ble.c` | none | hand over a command, notify a hit |
| Infrared protocol | `common/src/ir_protocol.c` | decoder state | encode, decode, check |

**Interaction.** A phone commands its emitter over BLE. An emitter shoots in
infrared; a vest that sees a shot notifies *its own* emitter over BLE, repeating
until it is acknowledged. The emitter keeps the player's life, and tells the
vest of friends, deaths, respawns and unpairing by writes nobody confirms.
Emitters flood what every player should know through a BLE broadcast mesh. A
vest is paired by an infrared frame that carries the low two bytes of the
emitter's address; the vest then advertises, and the emitter that scans for its
name connects.

**Concurrency.** On the emitter the Bluetooth receive thread, the system work
queue and the infrared work queue are cooperative: a handler runs to its end
unless it waits for something. The waits that matter are in `on_vest_hit`, which
notifies the phone in the middle of a death, in the pump of the mesh and in the
vest client, which wait for the controller. On the vest the infrared callbacks
run on the preemptible main thread, and anything may run between two of their
statements.

**What makes it right**, component by component: ammunition is moved, never made
or lost; a reload ends; the two records of life agree; a pull of a
semi-automatic trigger fires once; a hit counts at most once and in order, and
an acknowledged one was received; a hit never blocks the vest; a binding matches
the state, was the one aimed at and can be found again; a frame queued is sent,
broadcasts do not overlap and the scanner comes back; a flooded frame is acted on
once while it is remembered, never by its maker, positions stay in the team of a
game, and every flood ends; of what infrared delivers nothing is made up, repeated or out of
order, and the receiver recovers from whatever disturbed it.

Everything hard to test is listed with its line under `hazards` in
`PROJECT.json`, with the properties that cover it or the reason none does.

## 2. Modules

```
GameState ──┐
            ├── Emitter ──┐
BleLink ────┤             ├── HitPath ──implements──> HitDelivery
            └── Vest ─────┘
MeshTx ── VestClient
MeshNet
IrFrame
```

* **GameState** is `game_state.c`, one action per function. The counters wrap at
  `WordMod`, so that the unsigned subtraction in `game_state_complete_reload` and
  the addition in `game_state_add_ammo` behave as in C. The uptime is replaced by
  the time since the last shot. `issued` and `shots` are history.
* **BleLink** is the connection: two bounded queues. A write or notification
  that finds no buffer is lost, as both programs ignore the result of the call; a
  link that ends keeps any prefix of what was in flight.
* **Emitter** is `main.c`: `Cmd...` are the cases of `on_phone_rx`, `...Work`
  the work handlers, `VestHit` and `FinishDeath` the two halves of `on_vest_hit`
  around the wait in the middle of a death (`dying`). A scheduled work item is a
  member of `work`, and runs at any time after it was scheduled: delays are not
  modelled, so every order the delays allow, and more, is checked.
  `AnyVest...` is an arbitrary vest at the other end.
* **Vest** is `reciever/src/main.c`. `on_ir_rx` is cut into `IrShot` (the three
  checks), `IrCommit` (packet id and pending hit), `IrNotify` and `IrArm`;
  `on_ir_pairing` into `PairingFrame`, `PairingAdvertise` and `PairingArm`:
  these are the points where a preemption changes the outcome. `AnyEmitter...`
  are arbitrary emitters at the other end.
* **HitPath** composes one emitter and its vest over one link, from the moment
  they are paired. **HitDelivery** is what they promise: registered hits are
  counted at most once, in order, and never made up.
* **MeshTx** is the transmitting half of the mesh. `wq` says inside which wait
  the work queue is; frames go on arriving meanwhile. A frame is its number.
* **VestClient** adds `ble_vest.c`, which stops and starts the same scanner from
  another thread.
* **MeshNet** is the whole of `mesh.c` on several emitters, with the parts of
  `main.c` that decide what a frame does: the identity the phone sets, the team that
  the configuration of each game assigns (`AdoptTeams`), the game a frame starts, and
  `scan_recv`, which looks at no mesh frame while there is no phone. A host may start
  any number of games, also in the middle of one, each with a roster of its own, in
  which a player may change teams or be missing; an emitter that is in a game ignores
  the next one, as `on_mesh_game_start` does. The pump,
  whose threads are in `MeshTx`, is one step (`Transmit`) that any subset of the
  other emitters may hear. A frame is its header, the roster of a `GAME_START` and
  the team in a `PLAYER_STATE`; who made it, after how many power losses and in which
  game is history.
* **IrFrame** is `ir_protocol.c`: `FrameOf` and `BitsOf` are what `tx_raw` sends,
  `Rise` and `Fall` the two halves of the edge interrupt, `Poll` is `ir_rx_loop`.
  A step is one pulse with the space after it, times are in tenths of a
  millisecond. `LatePulse`, `EarlyPulse`, `LostPulse` and `Noise` are what light
  and the demodulator do to it.
* **MC...** give the constants values. **...Proofs** hold theorems; `HitPathProofs`
  also builds on `EmitterProofs` and `VestProofs`.

`PROJECT.json` maps every definition to the lines it translates.

### Choices a reader should know

* A reload is completed by `reload_work_handler` whether or not one is under way
  (`main.c:526`), and nothing cancels it at a death: the model does the same.
* `start_game_local` starts the game however little of the configuration was
  parsed; `GameConfigType` has the three outcomes of `apply_game_config`.
* The vest keeps nothing over a power loss: the code erases what it saved.
  The emitter keeps its configuration.
* Emitters whose phone has not named the player all have id 0 in `MeshNet`: they
  ignore each other, and frames made then say nothing of who made them.
* A burst sent right after another (`Chain`) joins it: `tx_raw` ends and begins
  with the carrier on, and the time between is shorter than the demodulator sees.
  Two shots queued together (`main.c:503`) fill the vest's buffer with something
  that is no frame, and both are lost. A held pairing trigger sends such a burst
  that does not end (run `ir_held`).
* `bt_le_adv_start` may fail when `disconnected()` of the vest calls it, since the
  stack may still hold the one connection object there (`CONFIG_BT_MAX_CONN` is left at
  its default of one; the emitter defers the same call by 100 ms, `main.c:942`):
  `AdvertiseAgain` has both outcomes, and `refused` remembers the last one. The call
  of `on_ir_pairing` fails when there is a connection.
* The unpair button of the vest is not compiled in (no overlay defines it).
* `IrCommit` merges the stores of `on_ir_rx` between the checks and the
  notification. The handlers that can run in between see either no pending hit or
  a complete one; the retry handler returns at once in the first case.
* `CmdUnpairVest` asks for the end of the link: it is `"closing"` until it ends,
  and what was written before may or may not arrive.

### What is assumed

* Commands reach a vest only after the emitter's GATT discovery, which outlasts
  the last lines of `on_ir_pairing` (`PairingHandled`); a reconnection takes
  longer than the rest of an interrupted `on_ir_rx` (`Reconnect`).
* Outside `disconnected()` of the vest, advertising starts when there is no connection,
  and starting the scanner is not refused. The code logs such failures and does
  nothing else.
* The advertising set of the mesh was created at power-on.
* In `MeshNet` a phone names the player before it asks for lobby or game broadcasts,
  and always by the same id, which no other phone uses (`IdOf`): one phone, one player.
  It may name him again, with any team and in the middle of a game, where `May` has
  `REJOIN`; elsewhere once per power-on. A configuration arrives whole; `Emitter` has
  those cut short. `CMD_START`, which begins a training game without teams, and the
  raw frames of `CMD_BROADCAST_CODED_PHY` are left out: both are outside what the mesh
  code promises.
* In `IrFrame` one disturbance is allowed per run (a pulse moved, lost or added, or
  a burst begun before the vest has polled the one before). Two can meet the
  checksum of eight bits: two shots 6 ms apart, the first without its first pulse
  and one pulse of noise, make a valid hit of a player nobody is. So can 32 zero
  bits. These are limits of the code's choice of checksum.
* In the `hit_delivery` runs the vest's random packet ids do not repeat
  (`FreshIds`). Two hits with one id within the last sixteen are taken for a
  repetition, and the second is lost; this is the protocol's own limit.
  `AckMeansDelivered` needs it, TLC finds the counterexample without; the
  refinement is proved for any ids.
* A player number is a byte, and in `IrFrame` a hit begins with it. 254 is also the
  preamble of a pairing frame: a hit of player 254 that the trigger joins to one of
  player 0 fills the buffer with a frame that is reported as a pairing. The run's
  packets and `IrHeardInOrder` leave a player 254 out; `IrNextFrameHeard` does not.

## 3. What is checked

Runs that pass:

| Run | Question | Bounds |
|---|---|---|
| `emitter_combat` | Life, ammunition, trigger and reload under all interleavings, deaths interrupted in the middle included; does any order of calls make or lose ammunition, or load beyond the size in any way but one? | two configurations (full-auto and not, of different magazine size), hits that kill at once and that do not, a ring of one id and two ids, so that ids are evicted; counters modulo 4, five rounds issued, so that they wrap |
| `emitter_session` | Lobbies, pairing, ways into and out of a game, link and power losses | one configuration, one buffer; configurations cut short |
| `vest` | One vest, two emitters: hits, retries, pairing, rejections, refused advertising, unpairing, power losses | two hits, three attempts each, ids that may repeat; one buffer |
| `hit_delivery` | Does the pair implement `HitDelivery`? Is an acknowledgement truthful? Does the vest follow deaths and respawns as long as nothing was lost? | three hits, three buffers, link drops, reboot of the emitter, new games |
| `vest_client` | Queue, pump, relays, repeats, scanner and vest connection together | three frames, up to three sendings each, a queue of two, so that it overflows |
| `mesh_net` | What three emitters make of flooded frames; does every flood end? | two frames of three kinds, a ring and a queue of one, one relay per frame, one power loss; numbers modulo four; two rosters: one player changes sides, one is only in the first |
| `ir_frame` | Hits and pairing frames through the edge decoder, disturbed or joined | three bursts of three different packets, one disturbance at any pulse, silences on both sides of every limit the code compares with |

`mesh_net` begins in two states: at power-on, and with all three in a first game and
the frame of a second in the host's queue (`Underway`). Two games in a row take more
frames than one run from power-on can afford; the second state is reachable, but for
the count of frames, which begins anew.

Why these bounds are enough: each property relates at most two hits, two
configurations, two emitters or two frames, and the bounds let the second meet
the first in every stage of its life; the queues, rings and counters are small
enough to fill, evict and wrap within a run. `WordMod`, `RateCap`, `TxQueueSize`,
`HitDedupSize`, `HitRetryMax`, `LinkCap`, `DedupSize`, `DefaultTtl` and `SeqMod`
are small values of constants of the code; `IssueBound`, `PullBound`, `MaxHits`,
`MaxFrames`, `MaxReboots`, `MaxSent` and `MaxFaults` bound histories and inputs
and exist for TLC only. With a ring of one entry each of two frames evicts the
other, so that the same frame is taken again and again until its time to live is
used up (`FloodsDie`). The lengths, times and checksum of `IrFrame` are the
code's own.

Runs that show a disagreement between the code and what it says of itself:

| Run | What the code does | What it says |
|---|---|---|
| `emitter_trigger` | The end of a game cancels the handler of a release edge; `trigger_ready` stays false and the next game's first pull is dead | `emitter/src/main.c:516` |
| `hit_next_game` | Nobody tells the vest that the game is over, and a friendly list starts only an idle one: a vest that died stays dead in the next game | `reciever/src/main.c:292` |
| `hit_unpair` | The link is dropped without waiting for the command to unpair, which is not sent at all during discovery | `emitter/src/main.c:725` |
| `ir_held` | With the trigger held in pairing, frame follows frame without a pause and none ends for the receiver: the vest hears the emitter only when the trigger is let go | `emitter/src/main.c:399` |
| `mesh_reboot` | After a power loss an emitter numbers its frames from zero again, and the others refuse new ones as seen | `IOS_SYNC.md:171` |

More such disagreements follow from the modelled definitions and have no run of their
own:

* `RelayMessage` has one buffer: the next frame within the random delay overwrites the
  one that waits to be relayed, although `mesh.c:497` says that the relay "still
  propagates the frame to further-hop peers".
* The pump (`PumpBegins`, `Pump`) restarts the scanner whenever its queue is empty,
  also in the middle of a discovery, which `ble_vest.c:206` means to keep free of
  scanning.
* A bound vest can end up without a connection and without advertising
  (`AdvertisingRefused` in `VestDisconnected`), and stays so until it loses power
  (`VestStrandedForGood`), although `reciever/src/main.c:459` says "Once paired, the
  vest advertises connectable+scannable with its name so the emitter can find it".
  `Reconnectable` says that it happens in no other way.
* An emitter in a game ignores the start of the next (`main.c:293`) and goes on to
  judge positions by its old team, so that its phone is shown players who are now on
  the other side. `mesh.c:483` says of the filter "only relay PLAYER_STATE from same
  team" and `main.c:204` that "the authoritative team assignment lives in the host's
  config". `PositionsWithinTeam` with the two games left out (`e.game = e.mine`) is
  violated in `mesh_net`: a rival still in the first game is shown where the host of
  the second is.

Also seen while reading: the comment of `vest_ble.c:36` calls the command
characteristic write-with-response, the emitter writes without
(`ble_vest.c:325`).

**Fairness.** The vest: its main thread and its retry item run (the scheduler is
preemptive and the item is scheduled); shots, commands, connections and power
losses need never come. The radio: the pump and the end of a broadcast run once
they are submitted or due, the host ends every connection attempt and every
discovery procedure (it has time-outs for both), and the ready callback runs.
The mesh: the repeat and relay items run and a queued frame leaves the queue
(`EveryFrameLeaves`, checked in `vest_client`); no phone command, reception or
reboot need come, and floods end because of the time to live alone.
Nothing else is assumed, and the emitter, the link, the pair and the infrared link
have safety properties only.

## 4. What is proved

TLAPS checks these for every value of the constants, under the assumptions the
modules name.

* `GameStateProofs`: `GsTypeCorrect`, `NoAmmoMinted`, `NoAmmoLost`,
  `LoadingBounded`. A completed reload whose `needed` has wrapped, because a
  configuration shrank the magazine in mid-game, does overfill it: with 20 rounds
  loaded, a size of 10 and 50 in reserve the magazine then holds 70. `LoadingBounded`
  says that this is the only way beyond the size. No round is made by it, since the
  reload takes from the reserve what it adds. The ledger `mag + reserve + shots <= issued` is
  inductive together with the types, and becomes an equality while `issued` is
  smaller than the range of the counter.
* `EmitterProofs`: `ReloadEnds`, `LifeAgrees`, `HeartbeatKept`, `LobbyKept` and
  `OneShot`. The inductive invariant `SessionInv` adds two facts to the
  properties: inside the window of a death the player is still in the game with
  no health left (`DyingInGame`), and a handler on its way to a held, ready
  trigger means that the pull has not fired (`ReadyMeansUnfired`). The latter
  survives a power loss with the trigger held, because no handler is scheduled
  then.
  `EmTypeCorrect` is the types of the whole application. Its proof goes through
  `EmitterCalls`: whatever the application does to the combat state is an action of
  `GameState`, so that `EmitterMintsNoAmmo`, `EmitterLosesNoAmmo` and
  `EmitterLoadsToSizeOrAll` carry the ledger of `GameStateProofs` over to the program
  that calls it. `OnlyGameOverJams` states the cause of what the run
  `emitter_trigger` finds: if the phone never ends a game, a released trigger is
  always ready or about to be, on every other way out of a game, a death or a power
  loss in the middle of a pull included.
* `MeshTxProofs`: `TxTypeCorrect`, `TxNoLostWakeup`, `TxOneOnAir`. A frame
  queued during a broadcast submits nothing, and a pump that finds a broadcast
  gives up; both are safe because a broadcast on the air is always about to be
  ended (`OneOnAir`).
* `VestClientProofs`: `ScannerSafe`, `FramesPumped`, `BroadcastsApart`, the same
  with the vest client's threads at work, from `PumpInv /\ ScannerAccounted`.

* `VestProofs`: `VestTypeCorrect`, `VestBindingMatchesState`,
  `VestReconnectable`, `VestStrandedForGood`, `VestSilentWhenUnpaired`,
  `VestRetryArmed` and `VestBoundToTheAimed`. The inductive invariants say which handles the main
  thread holds while it is cut off (`HandlesInv`), that at most one emitter is
  connected and it is the one the state names (`OneCentral`), that commands in
  flight come from it (`BoundCommands`), and that the pairing window and the part
  of `on_ir_pairing` still to run are for the emitter last aimed
  (`WindowForTheAimed`, `PairingInv`). The same invariants are why a refused start of
  advertising is final (`VestStrandedForGood`): with no connection no command is on its
  way, and a bound vest hears no pairing frame. `VestBoundToTheAimed` assumes that the
  low address bytes tell the emitters apart; without that it is false, which is
  the limit of the two bytes the infrared frame carries (`main.c:389`).
* `MeshNetProofs`: `NetTypeCorrect`, `NetOncePerWindow`, `NetNoOwnEcho` and
  `NetPositionsWithinTeam`, for any number of emitters, any ring, queue and time
  to live. `RingInv` says that the ring holds the keys of the last `DedupSize`
  frames taken, oldest first. `NodeInv` and `CarriedInv` say what every frame
  under way, in whichever queue or buffer, owes its maker: made since the last
  power loss and with a name, it bears the name the maker still has; a `GAME_START`
  bears the roster of its game, and a position the team that its maker's game
  assigned. So two players of one game see each other's positions exactly by its
  roster, however late either has heard of it.
  `NetSeenOrReborn` and `OnlyPowerLossCollides` say what the run `mesh_reboot` only
  shows on an example: with fewer frames than numbers, a named player's frame that an
  emitter refuses as seen it has seen, or its maker has lost power since. `NumberInv`
  needs every label still in a queue, a buffer or a history (`Known`): between two
  power losses an emitter gives no number twice and uses no name but its player's.
  Emitters without a name share the id 0 and do collide; the promise is about
  players.
* `HitPathProofs`, for emitter and vest together, whatever the sizes of the link's
  buffers and of the ring:
  * `HitsCountOnce`, that they implement `HitDelivery`. `CountInv` says that the
    notifications under way are in the order of registration, that each is newer
    than the last hit counted or is that one *and still in the ring*, and that the
    hit the vest may still repeat is of the same kind or was never queued
    (`SendsInOrder`). Newer hits alone can evict an id, and when they do, nothing
    older is left to be counted again; a ring emptied by a power loss is safe
    because the link ends with it and the vest drops a hit it has notified. No
    assumption on packet ids is made.
  * `AcksAreTrue`. A command under way that acknowledges an id stands for a hit of
    that id which reached the emitter (`Answers`). Needs ids that do not repeat.
  * `VestInStep`. `LeadsTo` says where the commands still under way will leave the
    vest: the last one that moves it leads to the state of the emitter, and a friendly
    list, which starts only an idle vest, is first of them. `VestShowsLife` follows
    from it and `SessionInv`: the display agrees with `game_state.c`.

  The first two exclude `CMD_DEBUG_HIT`, with which the phone makes up hits: TLC
  shows both to fail with it. All rest on `EmitterProofs` and `VestProofs` for the
  types of the two halves.
* `IrFrameProofs`, for any packets, disturbances and silences: `IrTypeCorrect`,
  `IrNextFrameHeard`, `IrHeldUnheard` and, without disturbances,
  `IrHeardInOrder`. `RoundTrip` computes, for every packet, that what the decoder
  makes of the bits of a frame passes the length, preamble and checksum tests as
  that packet and no other; since the checksum is a table of single steps and not
  a recursion over data, this is within reach. `HearsClean` follows the bits of a
  clean frame through the decoder, and `Listening` says that silence has always
  ended what came before. `InOrderInv` adds what becomes of bursts that join: a hit
  is overrun, a pairing frame has filled the buffer (`Overrun`), and nothing more is
  heard of either than the first. That a player 254 breaks this was found by the
  proof (see above).

Trying to prove them corrected the model in four places. `NoDedupCollision` once
spoke of all emitters and was violated by unnamed ones too; a lost pulse in `IrFrame` could
leave a silence in which no poll fell; a burst that began after a silence longer than
`Polled` was taken for one that began too soon; and `AnyVestNotifies` could overfill a
link of no buffers. The runs' constants reached neither of the last two.

Only model-checked: `HeardInOrder` when a pulse is disturbed, which holds of the run's
packets and one disturbance but not of all, eight bits of checksum being what they
are; and every liveness property (`HitSettled`, `EveryFrameLeaves`, `HearsAgain`,
`FloodsDie`), which is beyond the prover.

## 5. Not modelled

The byte layout of the game configuration (its outcomes are
modelled; a frame too long for the controller is refused, which is `PumpFails` of
`MeshTx`), what is reported to the phone (kills, percentages, log lines: all
are sent without looking at the result), raw frames and training games on the
mesh, LEDs, the debug counter of infrared edges, logging, build files and the board
overlays.

## 6. Plan

1. `Pairing`: emitter, vest and the infrared frame together, from nothing to
   ready, with a second emitter in range and equal address bytes: the held
   trigger, heard only on release, against the connection that ends the shooting
   (`main.c:406`). `HitPath` then starts there instead of at `PairedInit`.
2. The vest's own invariants (`BindingMatchesState`, `Reconnectable`,
   `SilentWhenUnpaired`, `RetryArmed`) beside a real emitter. They hold there under
   TLC; `VestProofs` proves them for arbitrary emitters that keep at most one command
   in flight, which the composition does not.
3. `MeshNet` with configurations cut short, and players who move to another phone.
