# A TLA+ model of the WHM firmware

WHM panels are ESP32 LED displays that work as a fleet: they find each other on
the local network, elect one of themselves as the anchor (time base and key
holder), run console commands together at one instant, copy media between their
SD cards, play music in step, show one walking figure across all of them, update
each other's firmware, and speak to a watch over Bluetooth. This directory
specifies the parts of the firmware whose correctness depends on the order of
events, checks them with TLC on small fleets, and proves the most important
facts with TLAPS for fleets of any size.

Contents: 1 inventory, 2 modules and the code, 3 runs, 4 fairness, 5 proofs,
6 where the code and its comments differ, 7 not modelled, 8 plan.

## 1. Inventory

| Part | State it keeps | Operations | Talks to |
|---|---|---|---|
| Election and fleet key (`main/sync.c`) | `s_smode`, `s_role`, `s_prio`, `s_peer_name`, `s_anchor_name`, `s_promote_at`, peer table, `s_kf`, wall clock; `sync_*` in flash | one loop a second (`announce_task`: `election_tick`, then broadcast), `recv_task`, the `sync` commands, boot | other panels by broadcast, settings, Wi-Fi, time |
| Fleet commands (`main/sync.c`) | send counter, replay table `rt`, duplicate ring, deadline queue `s_fq` | sign and send three times, receive, queue, execute when due | other panels, the console, Bluetooth injection, pins |
| Media service (`main/http_svc.c`) | manifest table `s_ents`, `s_dirty`; on the card: files, `.part` files, hash sidecar | build manifest, serve, pull, install | other panels by HTTP, SD card, player |
| Settings (`main/settings.c`) | request queue, node-name cache, flash | get, set, erase through one broker task | everyone |
| Panel link (`components/whlink/wh_link.h`) | pairing state, session keys and send counter, replay window, reassembly buffer | pair, send, receive, export and import a session | Bluetooth glue |
| Bluetooth glue (`main/whlink_glue.c`) | bond in flash and RAM, advertising window, console queue, boot fuse | connect, disconnect, pair, forget, run console lines | link, console, flash |
| Walker (`main/ui.c`, `main/sync.c`) | who owns the walker, its simulation, the ring of keyframes | hand-off, claims, keyframes, seizure | other panels |
| Music player (`main/mp3_player.c`) | command queue, start time, file, speaker, Mode B client and pump | play, stop, fleet play, stream | other panels, SD card, audio |
| Video player and live lane (`main/whm_media.c`) | three-slot live frame ring | play, stream | UI, HTTP |
| Firmware update (`main/ota.c`, `/fw` in `main/http_svc.c`) | two program slots, boot choice, update handle, phase shown | erase, pull, validate, switch, restart | HTTP, flash, display |
| Time (`main/timesync.c`) | sync count, age, zone and label | start, stop, zone commands | Wi-Fi, election, settings |
| Identity and pins (`main/crypto_id.c`) | own keys, pinned keys, list of names | mint, pin, forget, sign, verify | election, commands, settings |
| Wi-Fi and TSF (`main/wifi_tsf.c`) | mode, network, connection | join, leave, SoftAP | driver |
| SD card (`main/storage_test.c`) | mount | mount, unmount, poll for removal | players, media service |
| Console, SSH console, boot, display, audio, sensors | input lines, one session, hardware handles | | |
| Monitor firmware, host tools, scripts | none the fleet depends on | | |
| Monocypher, minimp3, reference crypto, `monitor/build_pro` | third-party and generated | | |

What each part has to get right, and why that is hard:

- **Election**: one leader in the end, whatever was lost and whoever restarted;
  a follower-only unit never leads; the key ends up the same everywhere and is
  never taken from a unit that has no business handing it out. Announcements
  cross, timers collide, and the operator may change a role between any two steps.
- **Commands**: each command once on every unit it is for, in the order signed,
  and nothing announced as queued gets lost, over a three-fold broadcast, four
  small fixed tables, a clock that belongs to the access point, and several
  tasks that may send.
- **Media**: never a truncated file under its final name; a sync that is
  repeated succeeds, over broken transfers resumed later, power losses, and
  two tasks that build one table.
- **Settings, identity, pins, zone**: what is cached is what is stored; what is
  kept under several keys is whole again after a power loss between them.
- **Panel link and glue**: a send counter is never used twice under one key,
  also after a session is restored from flash; frames that come late or again
  are told apart; a message arrives whole; one bond, in flash, RAM and session;
  a crash loop in the Bluetooth stack ends.
- **Walker**: always some panel that moves him for all, hardly ever two, and the
  others see the moves it has promised.
- **Player**: the task, the receivers and the Mode B tasks share file, speaker
  and start time; a stop is final.
- **Update**: whatever is done to the spare slot, by several updates at once and
  with power failing in between, a unit starts a complete program; the fleet ends
  with the one it was seeded with.

`PROJECT.json` lists every part with its status, and under `hazards` the places
in the code where these promises are at risk, each with the properties that
watch over it or a note why none does.

## 2. The modules and the code

| Module | Stands for | Extends / instances |
|---|---|---|
| `FleetKeyring` | what is promised about the fleet key: minted, handed over, wiped, lost with power | |
| `FleetElection` | election, peer table, keywraps, wall clock, `sync` commands | refines `FleetKeyring` |
| `FleetElection_proofs` | its theorems | `FleetElection`, TLAPS |
| `FleetCommand` | sending, receiving and running fleet commands | |
| `FleetCommand_proofs` | its theorems | `FleetCommand`, TLAPS |
| `MediaSync` | manifest, file server and client for one file | |
| `MediaSync_proofs` | its theorems | `MediaSync`, TLAPS |
| `WhLink` | pairing, sealed frames, replay window, reassembly, saved sessions, at both ends | |
| `WhLink_proofs` | its theorems | `WhLink`, TLAPS |
| `PanelLink` | the panel's Bluetooth glue: fuse, window, bond, connection, console queue | |
| `PanelLink_proofs` | its theorems | `PanelLink`, TLAPS |
| `NodeStore` | the settings broker and what is kept through it | |
| `NodeStore_proofs` | its theorems | `NodeStore`, TLAPS |
| `Player` | music player of one unit, Mode A and Mode B | |
| `Walker` | the walker shared by several panels | |
| `PlayerWalker_proofs` | the theorems of these two, each on its own | `Player`, `Walker`, TLAPS |
| `FirmwareUpdate` | network updates, program slots, bootloader | |
| `FirmwareUpdate_proofs` | its theorems | `FirmwareUpdate`, TLAPS |
| `MC...` | small instances | the module of that name |

Some definitions are marked "Mutant": a plausible bug in the definition that
follows, used to see that a property notices it. They are not part of any
specification. Variables marked "history" are read by properties only.

### FleetElection

A round is one second. In each round every powered unit runs its loop once, in
any order: `ElectionTick` is `election_tick` with one action per outcome
(`StepDown`, `FollowClaim`, `ArmTimer`, `Promote`, `TickIdle`), then one of
`ConductorAnnounce`, `MemberAnnounce`, `SkipAnnounce`. A conductor mints a key if it has none
and, on some announcements, sends keywraps. `Second` ends the round: claims age
and timers run down. The receiver's handler (`note_peer`, keywrap,
`maybe_take_wall_clock`) runs within the sender's step at a set of units chosen
there: with `Drops` any subset of those on the same network, otherwise all.
Console commands, `PowerLoss` and `Boot` happen at any moment; radio losses, and
the moment `calm` from which nothing more goes wrong, only between rounds.

| Variable | Code |
|---|---|
| `mode`, `role`, `prio`, `pin`, `anchor` | `s_smode`, `s_role`, `s_prio`, `s_peer_name`, `s_anchor_name` |
| `timer` | `s_promote_at`, as rounds left plus 1, 0 when unset |
| `claim[n][m]` | the entry of m in n's `s_peers`, with its age |
| `key` | `s_kf`, `s_kf_have` |
| `wall` | whose announcement set the wall clock since `s_wall_applied` was cleared |
| `nvs` | `sync_mode`, `sync_role`, `sync_peer` in flash |

Names are numbers compared as `strncmp` compares names. A fresh random key is
the least identity not in use. Taken as given: identities have been pinned
(`IDENT`), no unit has network time, the peer table has room.

`FleetKeyring` knows only which unit holds which key and where a unit sits in
the fleet. A key enters by being minted by a leader without one, spreads from a
leader, and leaves by resignation or loss of power. `Seat(n)` maps the role,
anchor and power of `FleetElection` to it.

### FleetCommand

A console is a task of a unit (`Home`). Sending is `Stamp` (deadline = clock +
lead), `DeferOwn` (own copy queued), `LoadSeq` and `Seal` (the unlocked `++s_cmd_seq`,
nonce and signature), then `Burst` times `Shot`. Datagrams wait in `inbox`, and
`Receive` is the whole COMMAND handler in the code's order: pin, slot in the
replay table, window, nonce recorded, target filter, duplicate ring,
`whm_sync_defer_line`. `PopDue` takes the first due line in order of arrival;
`Finish` comes any time later, since a console command takes as long as it
takes. Around it: `Tick`, `Ident`/`Forget` (pins), `Inject` (an unsigned command by
Bluetooth), `PowerLoss`/`Boot`, `TsfReset` (the access point restarts). `queued` and `ran` are
history. A nonce is the clock reading with the index of the command, so that
readings differ as microseconds do. The send counter survives `PowerLoss` in place of
the random restart the code makes.

### MediaSync

One file name on several cards. Content is a sequence of blocks, each marked
with its version; the hash of a file is its content. `media`, `part` and `lines` (the
sidecar) are on the card, `table`, `dirty` and `builder` in RAM. `manifest_build` is `BuildStart`,
`BuildScan`, `BuildEnd`, run by the console or by the httpd task, so two of them may
interleave. A sync is `Start` (the request), `Answer`, `OwnManifest`, `Diff`, then up to two
rounds of `Open`, `Close`, `Unlink`, `Rename`. `Close(c, k)` ends the body at block k: the
read loop cannot tell a broken connection from the end. `Browse` is any other
manifest request; `NoManifest` covers the 6 s timeout. `Edit` is the owner changing the
card; it does not happen in the middle of a transfer from that card.

### WhLink

Both ends run the same code. Pairing is `PairStart`, `OnPairReq`, `OnPairResp`, `OnPairNa`,
`OnPairNb`, then each user's `Confirm` or `Reject`; random values are numbers drawn once,
and a key is the transcript of the handshake it comes from with a direction. `Send`
begins a message, `SendOn` seals its next fragment, `OnSealed` is the receiver: key,
window (`ReplayOK`, `Mark`), reassembly (`StartsMessage`, `Buffer`). `StrideSave` exports the session to flash
every `Stride` frames, `Restored` imports it `Margin` further. The panel sends only to a
subscriber (`Notifier`): before, `cb_send` refuses the frame (`whlink_glue.c:226`) when it has been sealed
and before it is counted towards the next save, so the counter goes on and the count does
not (`Refuse`). That concerns the announcements and every answer to a watch that resumes a session
and does not subscribe. `overrun` records that between two saves more frames went uncounted
than the margin leaves over the stride. A frame stays in `net`: it may
arrive never, once or again, in any order, until `Disconnect`. Frames that are
refused change nothing and take no step. Either end may come with a bond of
earlier days (`OldBlob`).

### PanelLink

The Bluetooth host task, timers, console, UI and the command task call into
`whlink_glue.c`. `Boot` counts the fuse, `InitDone` and `HostSync` bring the controller up,
`Healthy` clears the count after 15 s, `Restarted` and `PowerLoss` end power at any moment.
`Connect`, `Subscribe`, `Disconnect` are the GAP events; `PairReq`, `PairNa`, `Match`, `Mismatch` the pairing as
the panel sees it; `Forget` and `Off` the two halves of `whm_whlink_forget`; `SaveBond` writes
flash and RAM. `OnConsole`, `ExecTake`, `ExecDone` are the queue of console lines and the
task that runs them. `hooks` says whether the callbacks of `s_ctx` are set: `Disconnect`
passes the configuration of the context to `wh_ctx_init`, which clears it first
(section 6). Steps named `...Faults` are the same code reached without callbacks.
`WhLink` takes this initialisation with a configuration of its own, so that its
sessions go on after a disconnection, as intended. `wh_send` called by several tasks
without a lock is in neither module.

### NodeStore

A call is one request to the broker: `Send` (or `TimeOut`, when the queue stays full for
2 s), `Serve` or `ServeFails` (flash refuses to read or write), `Return`. A job is the sequence of
calls one operation makes (`Ask` the next call, `After` what its answer changes). Tasks are the
receiver, whose `Ident` pins a peer under two keys and the index of names; any number of shells
(`Shell`: USB, SSH, Bluetooth and the fleet's executor all run the same commands), which run `Unpin`,
`SetZone` and `SetName` side by side; and at `Boot` the main task, which reads or mints the four keys of
the identity. The index of names is longer than a request carries, so it is read in the
caller's own task (`Direct`, `settings.c:245`), beside the broker. A first read of the
name that fails leaves an empty copy (`ReadDirect`, `settings.c:252`). Power fails between any two steps.

`lapse` is history of what has gone on since the unit started with its flash: `"call"` that a call
gave up or failed, `"name"` that since this boot the first read of the name failed or two
commands changed the name at once, `"zone"` the same of two zones. Callers take a call
that gave up for an absent key, and may then replace a pin or mint an identity
anew (section 6). `IdentityStable` and `PinSticks` are asked of units without `"call"`, `LabelFitsZone` without
`"call"` and `"zone"`, `NameCoherent` without `"name"`, and `CommandEnds` of all.

### Player

The player task takes commands (`Take...`), opens a track (`OpenFile`, `FirstFrame`) and writes it
(`NextFrame`, `TrackEnds`); `EngWrite` is `eng_write`, which holds the task until the start of a slaved
track (`Held`). Other tasks `Post` commands and set `s_fs_start` directly (`FleetPlay`, `FleetStop`,
`OnPlayPacket`, `OnBeacon`). A DJ packet starts a client and a pump (`OnDjPacket`, `Tune`): `Connected`, `Block`,
`ClientEnds`, `PumpStarts`, `PumpWrites`, `PumpEnds` share speaker and start time with the player. The server
ring of the DJ and the arithmetic of the servo are left out; a track ends, or
turns out unplayable, at any time.

### Walker

One frame of the display is one tick and one step. `Rollover` is the anchor (every
simulation restarts, a cold-start owner is computed), `Step` the part of `pat_walker` that
adopts a keyframe due, moves and hands off, `Draw` the part that sends beacons or
seizes from a silent owner, `Resync` the frame after a seizure, which skips the steps owed,
`Deliver` the handler of a type-9 datagram (`Ranks`, `Claim`,
`InCorridor`, `Bank`). Places are pixels right of the camera: `StripOf` clamps like
`wk_own_strip`, `Firm` is the band around a seam. `Shadow` is the simulation ahead of time whose poses an owner promises. The
moves are a script (`World`), different after each anchor; input, storms, the show
and drawing are left out. `Leave` and `Enter` show something else on one panel.

### FirmwareUpdate

A slot is `Size` blocks with the version each belongs to. A task that runs `ota` goes
through `Starts` (`cmd_ota`: never from itself, nothing that already runs), `Erase` block by
block, `Connect`, `Serve` (the source's one HTTP server takes the request up) or `GiveUp` (15 s),
`Chunk`, `Validate`, `SetBoot`, `Restart`. `Fails`, `LinkBreaks` and `PowerLoss` happen at any step. Two tasks of one
unit use the same spare slot, since nothing in `ota.c` prevents it; what they do
to each other's blocks is `WriteSlot` with `Burnt`. External, from the way the code uses them:
`esp_ota_end` and `esp_ota_set_boot_partition` accept only a complete image, the bootloader
falls back to the other slot, flash keeps a value once per erase. The update
screen is not in the model (section 6).

## 3. Runs

| Run | Shows |
|---|---|
| `election_drops` | two units, every command and fault, any datagram lost, two disturbances: `TypeOK`; an elected leader has weight (`ElectedHasWeight`) and follows nobody (`ElectedFollowsNobody`); `FleetKeyring` is implemented (`KeyringSpec`); in the end, for good, one leader and everywhere its key (`KeyConverges`) |
| `command_consoles` | two consoles of one unit, losses, a pin forgotten, a receiver that loses power, a clock restart, more commands than the queue holds: `TypeOK`, order of signing kept (`OrderKept`), a queued command is lost to a full queue only (`QueuedIsKept`) |
| `command_live` | bursts with echo, injections, a sender that loses power in mid-burst: no command twice (`RunsOnce`), one shot sent means every unit runs it (`RunsOnEveryNode`) |
| `media_sync` | broken connections, power losses, edits, browsers: `TypeOK`, `NeverTruncated`, `CleanSyncConverges` |
| `link_session` | pairings, saved sessions, whole and fragmented messages, frames Bluetooth refuses, two disconnections: `TypeOK`, no counter twice under a key (`CounterOnce`), the replay window exact (`WindowExact`), messages whole (`WholeMessages`) |
| `panel_bond` | boots, crashes, pairings, forgetting, console lines: `TypeOK`, the fuse ends a crash loop (`FuseStops`), flash, RAM and session agree (`OneBond`), a console line runs once and in order (`CommandOnce`), and no deadlock |
| `panel_reconnect` | a counterexample, section 6 (`NoNullCall`) |
| `store_power` | two shells, the receiver and the boot, two power losses, a call that gives up or fails: `TypeOK`, the cached name is the stored one (`NameCoherent`), an identity once shown is kept (`IdentityStable`), a label fits its zone (`LabelFitsZone`), a pin is not replaced by another key (`PinSticks`), commands end (`CommandEnds`) |
| `player_stops` | commands from console and fleet, two DJ sessions: `TypeOK`, a player that plays has a file and one that does not leaves the speaker free (`HoldsWhatItUses`), a local play is slaved to nothing (`NoGhostChase`), a stop is final (`StopIsFinal`) |
| `walker_seam` | two panels, lost and late beacons, anchors, seizures, a panel that looks away: `WalkerTypeOK`, two owners are brief (`TwoOwnersBrief`), no keyframe of the last window (`OwnWindow`), promises survive until their step (`PromisesKept`) |
| `walker_silence` | a counterexample, section 6 (`SomeoneTalks`) |
| `update_seed` | three units, concurrent updates from several sources: `TypeOK`, every unit runs a complete image (`RunsWhole`), an update left alone restarts into what its source ran (`LeftAloneBoots`), the fleet ends with the seeded program (`FleetSeeded`) |

Bounds, all of them constants, and why they are enough:

- Election. `Fresh`, `Jitter` 1 round instead of 8 s and 3 to 6 s: only their order against
  each other and the loop matters, and equal jitter is the worst case for
  collisions. `Prio`: 0 (never leads) and 2. `Key`: one per unit, since a unit mints only
  when it holds none. `MaxDisturb` 2: every fault and command alone and in pairs, at
  every point, among them a unit that leaves the network for long enough that both lead
  and mint. Two units show every pairwise race. Three units with three keys, of which
  one leaves the network once, were checked with `KeyConverges` as well; that instance takes too long to
  be kept as a run.
- Commands. In `command_consoles` `MaxCmd` 3 exceeds `QueueMax` 2, so that the queue overflows, and `SeenMax` 2,
  so that the ring wraps; each command is sent once (`Burst` 1) to one receiver, which may lose power.
  `Window` 2 exceeds `Lead` 1, as 10 s exceeds the lead; with `LastSend` 2 a late datagram can fall out of it. The
  same with `Burst` 2 and two of the three troubles (losses and clock restarts, or forgotten
  pins and clock restarts) has 4.6 and 3.3 million states and holds too. In `command_live` `Burst` 2 with the echo and
  `MaxCmd` 2 are the least for which repeats meet another command, and the sender may lose power in a burst; that
  `RunsOnce` holds where the receivers lose power as well is proved (section 5). The other tables have the size of
  the code (4).
- Media. `Size` 2 and 3 blocks with two versions of one size: shorter, longer and
  same-size replacements occur, and a transfer can break in the middle.
- Link. `Margin` 3 over `Stride` 2 keeps their order (the margin exceeds the stride); a `Window` of 2
  has an inside, an edge and an outside among the `MaxSealed` 3 frames; `FragMax` 2 mixes
  fragments of two messages; `MaxFresh` 2 and `MaxCuts` 2 allow a pairing anew or a session
  restored twice. `CtrMax` is never reached. That the premise of `CounterOnce` is needed shows in an instance with five frames
  (section 6).
- Panel. `FuseMax` 2 of 3, `MaxBoot` 3: one boot more than the fuse. `QueueMax` 2 of 4 with `MaxCmd` 3: the queue
  overflows. `MaxKey` 2: a bond is replaced. `WindowLen` 1: open or over.
- Store. `QueueMax` 1 of 4 with four tasks, so that a call may give up; `MaxJobs` 2 side by side or
  one after the other, `MaxLoss` 2 between any of their steps, `MaxEvents` 3 of both together, and `MaxFault` 1 call
  that gives up or that flash refuses. Two values under one peer are the least that can replace each other. One name is enough for a
  copy that is not the stored one, since a node starts without any.
- Player. `QueueMax` 2 with `MaxAsk` 3: the queue overflows. `MaxTask` 2: an old and a new DJ session.
  `Lead` 1, `PrimeLen` 1 within `MaxTsf` 4: before, at and after the downbeat.
- Walker. Two strips of `Width` 4 instead of 64 and `Band` 1 instead of 4, so that each has
  places where nobody hands off and places where somebody does. Two scripts of
  `Win` 10 steps: one crosses the seam and returns, the other crosses just before the
  anchor and leaves the world, where the last strip keeps him.
  `RingMax` 4 below `Lookahead` 5 fills the ring. `Delay` 3: the owner is silent in the last two
  steps of a window, so only a beacon as late as that crosses the anchor. `MaxFault` 2 counts the beacons
  that are lost or not received in the tick they are sent. Two owners may last for a tick and one
  more for each of those so far; the two silent ticks at the end of a window do not count. This is a bound per
  late beacon, since claims that go on crossing late could keep two owners for as long: a beacon is
  10 to 300 ms old (`ui.c:263`) and a tick has 33. With `MaxLeave` 0, `TwoOwnersBrief` was checked up to `MaxFault` 4. In
  `walker_seam` `Grace` 5 and `Silence` 6 are scaled down, so that a window sees a seizure; `walker_silence` has those of the code,
  60 and 106 ticks, and `Delay` 3 is 100 ms there.
- Update. `Size` 2: a slot can be half erased or half written, and hold two versions.
  Three units: two that collide at the source's server, and one that can pull
  from another which is itself being updated. `MaxAsk` 2 console updates beside the
  repeated `fleet ota`; `MaxFault` 1: one loss of power, connection or flash error at any step.

`CHECK_DEADLOCK FALSE` stands where the system may stop: when bounds are used up and
every queue is empty. The two consoles of one unit are declared symmetric in a
run that has only invariants.

## 4. Fairness

- `FleetElection`: weak fairness of the round as a whole (tasks are scheduled and time
  goes on) and strong fairness of announcements that carry keywraps, since a
  leader sends them on every third. Delivery needs no fairness: nothing is
  lost once `calm` holds. That the fleet becomes calm is a premise of the liveness
  properties, not an assumption of the specification.
- `FleetCommand`: weak fairness of the clock, of each console's sending, of each
  unit's receiver, and of its executor, including that a console command
  returns.
- `MediaSync`: weak fairness of every task, strong fairness of `Start`, because a
  connection waits in the server's backlog while browsers are served, and
  operators repeat their syncs.
- `NodeStore`: weak fairness of the broker (`Serve` or `ServeFails`) and of each shell's own steps (`Send`
  or `TimeOut`, `Return`): all are tasks the scheduler runs, and the wait for a place in
  the queue has an end. Power losses are bounded.
- `Player`: weak fairness of the player task (`Take`, `OpenFile`, `FirstFrame`), of a pump that ends, and
  of the clock. That a client's stream ends is not assumed: a DJ that loses power
  leaves its receiver in a call without timeout.
- `FirmwareUpdate`: weak fairness of a task that runs the command, and of `fleet ota` reaching
  each unit: the operator repeats it until every unit answers that it runs the
  version of the source, as the gossip of versions invites. Serving needs no
  stronger fairness, since every other pull ends.

`WhLink`, `PanelLink` and `Walker` have safety properties only.

`KeyConverges` assumes that promotions do not collide for ever
(`Stampede`): the code breaks ties only by a wait hashed from the name, and with lost
datagrams two units may go on promoting themselves in the same second. It
also assumes (`Settled`) that every unit, powered or about to be, is in elections mode,
and that none is pinned to itself: `sync follow <own name>` makes a unit rank
every other claim below its own (`sync.c:1015`), and two leaders then stay for good.

## 5. Proofs

`FleetElection_proofs` (403 obligations, all proved) shows, for every set of units, weights, waits
and bounds that satisfies the module's assumptions:

- `TypeCorrect`: `Spec => []TypeOK`. One lemma for the loop (one case per outcome of
  `election_tick`), one for announcements, one for commands and the environment.
- `FollowerOnlyNeverLeads` and `LeaderFollowsNobody`. Neither is inductive
  alone without types; `ElectedInv` is their conjunction and is inductive with `TypeOK`.
  The argument: a unit becomes an elected conductor in `Promote` only with weight,
  and names itself as its anchor there; `SetPrio` to 0 takes the role away; a unit that
  boots in election mode starts as a member (`PowerLoss`, `BootMode`).
- `KeyCustody`: `Spec => KeyringSpec`. Each step that changes a key is a mint by a leader
  without a key, a hand-over from a leader to a unit that has none or
  follows it, or a wipe; every other step is a stutter or a move of seats.

`FirmwareUpdate_proofs` (760 obligations, all proved) shows, for every set of units, versions,
tasks and blocks, and any number of updates and faults:

- `TypeCorrect`, with one stream per source at a time.
- `RunningSlotWhole`: `Spec => []RunsWhole`. `WriteFrame` says that a write changes one
  block of the slot beside the running one; `RebootStep` that the bootloader ends
  on a whole slot, since the one that ran is whole.
- `UndisturbedBoots`: `Spec => []LeftAloneBoots`. That property speaks of the last
  stage alone, so `Inv` follows a task through all of them: an undisturbed slot is
  blank up to `got` while it is erased, blank until the source serves (`UndisturbedAs`),
  then the version of the source up to `got` and blank beyond, and at the end the
  image of that version, which otadata names. A blank block takes what is written; and what is written is
  that version, because a source that restarts cuts the stream and one that does not
  keeps its running slot (`PullsAs`). Steps come in three kinds, a lemma each: a task
  goes on (`QuietStep`), a task writes (`WriteStep`), a unit restarts (`RebootStep`).

The assumption is `UpdateAssumption`; `esp_ota_end`, flash and bootloader are as in the module's header.

`WhLink_proofs` (2155 obligations, all proved), for any margin, stride, window and number of
frames, draws and lost connections:

- `TypeCorrect`; `NoNonceTwice`: `Spec => []CounterOnce`. A key holds the random value of
  the end that sends under it, so `KeysApart` says that keys of a pairing under way
  are new and that one end sends under a key; `CountersAhead`, that what was sealed lies
  below the counter and below the saved counter plus `Margin`. The second is what a
  session restored from flash needs. What went out since the last save is at most `Stride` counted
  frames and the uncounted ones, which the premise of `CounterOnce` (`~overrun`) holds to `Margin - Stride`:
  3584 in the code. Without the premise it is false (section 6).
- `WindowIsExact`: `Spec => []WindowExact`. `WindowKnows` relates the 64-bit mask (here `Window` wide) and the
  highest number of the session to the frames opened in it, both ways: every
  opened frame is in the window or too old, every bit is an opened frame.
- `MessagesWhole`: `Spec => []WholeMessages`. `NumbersTell`: frames on the way with one
  message number are of one message, since a number is not used again within a
  connection; `BufferHolds`: the buffer has different fragments of one message and
  not all; so a buffer that reaches the announced count has each fragment once.

`PanelLink_proofs` (867 obligations, all proved), for any fuse, queue, window and number of
boots, pairings and commands: `TypeCorrect`; `BootFuse` (`FuseStops`), since the count in flash is
the number of rapid boots (`FuseCounts`); `SessionIsBonds` (`OneBond`) with what holds while
Bluetooth is down (`Down`), and that flash and RAM hold confirmed pairings (`Bonded`);
`CommandsOnce` (`CommandOnce`) from `Turns`: what ran and what waits rises, in this order, what was
refused does neither, and what was answered was refused or has ended.

`NodeStore_proofs` (2163 obligations, all proved), for any shells, peers, values, jobs, losses of power,
failing calls and length of the queue. `Inv` says of every step of every job what flash holds, before and
after the broker has served the call, because power may fail there:

- `TypeCorrect`; a caller waits exactly if its request is in the queue.
- `NameIsStored` (`NameCoherent`): `NameKnown` says that of all shells one at most changes the name
  (`Alone`), and that the copy differs from flash only between the broker's write and the return of that
  call (`Learning`), also when calls give up or fail. Two shells may begin to change the name at once at
  any time: `lapse` says when they have, and from then on, until the next boot, the theorem claims nothing.
- `OneIdentity` (`IdentityStable`), `LabelIsZones` (`LabelFitsZone`) and the action property `PinsStick`
  (`PinSticks`), all three as long as no call has given up or failed: `IdKept` counts the keys a mint
  has stored and says that the fourth is absent until the others agree, so that a mint
  cut short is done again; `ZoneKept`, that the label is away while the zone
  changes, unless two shells change it at once; `PinFree`, that a name about to be pinned has none, since the
  receiver alone pins. After a call that gave up they are false (section 6), and the properties do not claim them.

`PlayerWalker_proofs` (1981 obligations, all proved) has the two programs that follow the fleet's
clock, which share nothing but the module. Of the player, for any tracks, tasks and commands:

- `TypeCorrect`.
- `SpeakerHeld` (`HoldsWhatItUses`) from `Holds`, which adds the states between taking a command and
  the first frame.
- `LocalPlayIsFree` (`NoGhostChase`) from `Chases`: a start time is set only if a command was lost, the
  last play was the fleet's, one is in the queue, or a pump runs.

Of the walker, for any number and width of strips, any scripts, and any beacons lost or late:

- `WalkerTypeCorrect`: `WalkerSpec => []WalkerTypeOK`. `WalkerInv` adds to the types that no
  simulation is ahead of the clock (`InStep`), that a beacon in the air names a step that was
  ahead when it was sent, by no more than a ring holds (`Promised`), and that so does a
  keyframe of this window (`InReach`).
- `OwnWindowHeld`: `CorridorShort` implies `WalkerSpec => []OwnWindow`. A straggler of the last
  window names one of its last steps, beyond the corridor of a simulation that has
  just begun (`StragglerStrays`); rings are cleared at the anchor (`OwnRings`).
- `PromisesAreKept`: `CorridorShort` implies `WalkerSpec => PromisesKept`. A keyframe is evicted only from
  a full ring, and then the oldest; `BankedKeeps` counts the steps between the
  simulation and the furthest promise, which are fewer than the ring has slots.

`CorridorShort` is `Delay + Future <= Win`: 240 steps and the time a late datagram may take,
against the 18181 steps of a window. What `Shadow` computes is not proved, only that it is a
place: the function exists because a least step without a run would have one.

`MediaSync_proofs` (651 obligations, all proved), for any nodes, versions of any sizes, syncs and
troubles: `TypeCorrect`; `NothingTruncated` (`NeverTruncated`) from three facts: every file has
the size of a version (`FilesSized`), so has every entry of a manifest, also an old one
(`TablesSized`), and a sync that unlinks or renames has a `.part` of the size announced to
it (`SyncsProceed`), which the check at `Close` establishes and no step of another task undoes.
What is proved is the size: a `.part` resumed over another version of one size has
blocks of both until a later sync compares the hashes.

`FleetCommand_proofs` (3160 obligations, all proved), for any units, consoles, commands, shots, tables and
disturbances. `Base` holds always: types, each send has a command of its own which is
sealed before the first shot. The other parts have hypotheses on the
constants, each of which a real fleet can violate; none bounds the number of commands:

- `TypeCorrect`.
- `SignedOrder`: `PeersFit /\ ClockOrMemory => (Spec => []OrderKept)`. Nonces in one tick are counted
  (`Counted`), so a console that signs later signs higher; what may still reach a unit is
  no older than what it took, or below its slot and refused (`Fresh`); the queue
  holds one sender's commands in the order signed (`InOrder`), and the first due is
  taken (`NotOvertaken`). `PeersFit`: the fleet has a nonce slot for each unit (`rt` in
  `recv_task`). `ClockOrMemory`: either no unit loses its slots or the clock of the access point does not
  restart, or only one of the two happens; after both, a unit may take an old
  command for a new one.
- `SignedRunsOnce`: `PeersFit => (Spec => []SignedRunOnce)`: no unit runs a signed command twice, for any
  number of commands and disturbances, clock restarts included, and however often the duplicate ring wraps.
  `Answered`: what a unit took from a sender and may still arrive there is below the nonce it expects
  next; power takes that memory, but with it the datagrams, and no boot is as short
  as a burst. `RunsOnceByNonce` concludes `RunsOnce` where nobody injects. So the ring of four
  is needed for unsigned commands alone, and for signed ones only where a unit has
  more peers than nonce slots.
- `NothingQueuedLost`: `PeersFit /\ "inject" \notin Troubles => (Spec => []QueuedIsKept)`. A full queue
  loses what it reports, in the model as in the code; the theorem says that nothing else does, and that then
  `QueueMax` different other commands had been reported. It rests on the same argument: what the queue takes
  was neither in it nor run before (`SignedDistinct`), so no place goes to a repetition. An unsigned command, injected
  again after the ring has wrapped, does take a second place.

The constants of `command_consoles` and `command_live` satisfy the hypotheses of what those runs
check, but for the injections of `command_live`: what `RunsOnce` says of those is model-checked only.

The theorems assume what the components' modules assume of their constants, in
`ASSUME`s that the runs evaluate: mostly that sets of units are finite or numbered
and that sizes and bounds are positive. Two are less obvious: `LinkAssumption` has two ends and
`Stride < Margin` (512 and 4096, `wh_link.h:660`); `PlayerAssumption` has `MaxTsf > 1`.

Only model-checked:

- All liveness (`KeyConverges`, `RunsOnEveryNode`, `CleanSyncConverges`,
  `CommandEnds`, `StopIsFinal`, `FleetSeeded`), which rests on fairness and is outside what the prover
  supports.
- `TwoOwnersBrief`. It holds only where the panels agree on the walker's place well enough
  that they do not hand him to each other in the same tick, which a script with a move wider than
  the band can arrange without any fault. `Deliver` gives a beacon one receiver, which is
  all there is with two panels and a loss with more.
- `RunsOnce` where commands are injected over Bluetooth.
- What recursive definitions compute. The only one a proof unfolds is the run inside `Shadow`.

## 6. Where the code and its comments differ

`panel_reconnect` ends in a counterexample: after a disconnection
`wh_ctx_init(&s_ctx, &s_ctx.cfg)` (`whlink_glue.c:455`) clears the configuration it is about to copy,
so the panel has no callbacks, and the first frame it sends to a central that
comes back calls a null pointer.

`walker_silence` does as well. Of the demotion grace a comment says that "two units demoting each
other can never form the mutual silence" and "Silence windows are structurally impossible now"
(`ui.c:2379`). The code ends the grace of a unit as soon as any further claim names another unit than itself (2390), taken
for the successor's; but it may be the second late claim of the sender that has just caused the
demotion. TLC finds a beacon that crosses an anchor, outranks the cold-start owner and makes the other panel
an owner too; each then receives two claims of the other that were sent before either was
demoted: the first demotes, the second ends the grace. Nobody sends until one of
them seizes the walker after 3.5 s. All beacons arrive within 100 ms. `PROJECT.json` quotes the
lines of both.

Also seen while modelling, without a run:

- Election: a better unit that returns follows the claim it hears and never
  makes its own, so it does not take over (`sync.c:1091`, against 1010); following a unit
  stores its name as the operator's pin, so a leader may step down to a unit of
  lower rank (1093); no follower takes the wall clock of an elected anchor, the
  comparison forgets the label bit of the role (548); `s_promote_at` outlives the
  commands that end an election (1105); `sync join` leaves a unit electing (1318).
- Commands: after the access point restarts, commands are refused as replays
  until the new clock has caught up (`sync.c:761`); a fifth pending command is reported
  as queued and dropped (1422); when two consoles send at once, repeats of the
  older command are refused (761); handlers of types 10 and 11 cannot be reached
  (830).
- Media: a `.part` of exactly the announced size but another version blocks
  every later sync (`http_svc.c:498`); a rebuild that ends after an install clears the
  mark the install has set (222); the sidecar keeps the hash of a file edited
  to the same size (176).
- Update: the head of `ota.c` says that the reboot is the operator's, while the code
  restarts after a countdown (180); when writing or switching fails, memory is
  short or the client cannot be made, the update screen stays for ever, although
  `ui.c:1605` says failure restores the previous one, and in the last case the handle
  leaks; a second update of a unit erases what the first has staged (the unit
  then starts its old program again); each unit erases its slot before it learns
  whether the source has time for it.
- Walker: the shadow simulation counts its step before it moves (`ui.c:4169`), so a
  promise is one move short of the pose it is compared with; after an anchor,
  claims still in the air outrank the cold-start owner.
- Player: `s_fs_master` is never cleared by receivers, which use `whm_mp3_fleet_play`
  (`sync.c:727`), and no master name is set, so any unit's beacons steer; a queued older
  play zeroes the start time, and the fleet play after it runs unslaved; the
  pump ignores whether the speaker opened and closes it under a local track; a
  DJ that loses power leaves its followers tuned; stopping and starting quickly
  leaves two clients, the older of which ends the newer session.
- Live lane: the next tick shows the older slot that is still due after the
  newest (`whm_media.c:22` says it holds the last); above 20 frames a second three slots
  are overwritten before their 150 ms are over; late fragments evict a slot by
  number modulo 3, and the mask has 8 bits for up to 15 fragments; `media stop` and
  `media play` free the file under the UI's tick.
- SD card: `sd unmount` says it is safe to swap, while the watcher mounts again within
  3 s (`storage_test.c`); the track index survives a swap between unmount and mount;
  `sd format` compares the card's serial before it takes the lock, against
  `console.c:384`.
- SSH: keys are reloaded only at boot and by `addkey` and `rmkey`; `rmkey` rewrites the file by
  truncating it, so a power loss loses every key and the older copy in flash
  counts again; the table is reloaded while a login reads it.
- Identity and settings: the index of names is read into 96 bytes (`crypto_id.c:157`) and
  read, changed and written by two tasks (139); its buffer of 160 makes that read bypass the broker, against
  `settings.c:33`; key names are cut; a call that
  gives up on a full queue is taken for an absent key (`settings.c:204`), so a pin may
  be replaced silently and an identity minted anew. Two shells that set the node's name at once may part
  copy and flash until the next boot: the broker serves A and then B, and the tasks update the copy in the other
  order (`settings.c:276`). TLC finds it in ten states when `NameCoherent` is asked without its premise; in the same way two that
  set zones may leave the label of one over the zone of the other (`timesync.c:210`). A first read of the
  name that fails leaves an empty copy that counts as valid (`settings.c:252`).
- Link: a frame that Bluetooth refuses has used up a counter but is not counted towards the save
  (`whlink_glue.c:226` before 227, `wh_link.h:1616`). A watch that resumes a session without subscribing can make the panel
  answer so often that more than the margin go uncounted; after a restart the restored session then uses
  counters again. With five frames and single-fragment messages TLC finds that in `CounterOnce` without its
  premise. A save that fails in `nvs_set_blob` or `nvs_commit` resets the count as well (121-124), with the same
  effect; it is not in the model. Advertising does not stop when the window ends; the fuse is not cleared
  where Bluetooth is skipped (`whlink_glue.c:605`); reassembly has no timeout; nothing
  guards the counter's wrap; a pairing request restarts pairing while the old
  session stays (`wh_link.h:1809`).
- Fleet Life: re-entering or holding reseeds one panel at random until the next
  60 s epoch (`ui.c:6268`).

## 7. Not modelled

- Arithmetic of the rate servo and decoding, drawing, byte layouts, and
  cryptography, which is taken to work; drivers, NimBLE, FatFs, ESP-IDF and the HTTP
  stacks, except for what their callers see. Nothing of these has an order of
  events of its own that this code decides.
- Within modelled parts: the ninth unit in the peer table, the fifth sender in
  the replay table, `s_role` written between two reads of one handler, several
  files in one manifest, the unassociated clock, the DJ's server ring, input to
  the walker, several tasks inside `wh_send` (its outcomes depend on the
  instructions the compiler chooses for the counter).
- Failures of single calls inside modelled steps. Settings: a write that flash refuses leaves
  the key as it was; two readers of the copied name while it is written (a torn copy); a list of
  pins of more than 143 characters, which is written without the broker (`settings.c:262`). Media: a directory or
  hash that cannot be read (`http_svc.c:196`, 216), a write that fails (535, 550), a rename that fails (553); the
  mark set after an install (619) is part of `Rename`. Bluetooth glue: a bond that flash refuses, which RAM
  then has alone (`whlink_glue.c:116`). Link: a pairing answer that cannot be sent, after which
  the code waits in `SENT_RESP` (`wh_link.h:1842`).
- Steps that the model joins. The `sync` commands write several settings one after the other
  (`sync.c:1237`, 1308, 1339), and power may fail between them. `whm_mp3_play_at` sets the start time and
  then posts (`mp3_player.c:1231`). That the playlist may be empty or be scanned anew (1133, 1293)
  is left out.
- Election: a conductor's keywraps go to peers heard within 30 s whose key is pinned (`sync.c:490`);
  in the model to all that hear it.
- Link: message numbers have 16 bits (`wh_link.h:734`), so that fragments of messages 65536 apart could
  meet in one buffer; numbers do not wrap in the model.
- Walker: the resync after a storm of corrections (`ui.c:3787`) and that of a late input (1649), beside
  the one after a seizure, which is an action.
- Update: the version check reads gossip that may be stale (`console.c:808`); a source not heard of is
  pulled from as by `force`. A unit's own address in place of its name passes the check of the source (797). Only
  another program download keeps the source's server busy, not manifests and media.
- The live lane and video player: read, and its three-slot ring is a candidate
  for a module (section 8). The SSH console and its key store, and the card's mount
  lock and format challenge: as well.
- SNTP: the library's callbacks and a counter; `FleetElection` takes it as never synced.
- Fleet Life: a cellular automaton seeded by an epoch; drawing otherwise. UI screens
  and buttons. Boot, display, audio and sensor bring-up. The monitor firmware, host
  tools and scripts: no state the fleet depends on.
- `monocypher.c`, `minimp3.h`, the reference crypto and `monitor/build_pro`: third-party or generated.

## 8. Plan

1. Done: `FleetElection` with `FleetKeyring`, `FirmwareUpdate`, `FleetCommand`, `MediaSync`, `WhLink`, `PanelLink`,
   `NodeStore`, `Player`, `Walker`, with theorems about all of them: every safety property the
   passing runs check is one, but for `TwoOwnersBrief`.
2. Proofs next: `TwoOwnersBrief` for scripts whose moves stay within the
   band; `OrderKept` with a full nonce table.
3. Later modules: the live lane, SSH keys and the SD card's lock; several files in
   `MediaSync`; a full peer table.
