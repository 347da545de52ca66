# Verification of paperframe

TLA+ modules of the photo-frame firmware under `src/`, the TLC configurations that check them on
small instances, and theorems about them that TLAPS proves for every value of the constants.  Paths
below are relative to the repository (`src/src/app/app_smb_sync.c` is the mirror's file), line
numbers are those of the commit kept under `src/`.

`PROJECT.json` is the index: `components` says what is modelled, `runs` what each configuration
asks, `mutants` which change of the code each property catches, `map` which lines each definition
stands for, `hazards` what can go wrong and which property would notice, `findings` where the code
does not do what its own comments say, `theorems` what is proved.

## 1. The system

The firmware runs on an ESP32-S3 with FreeRTOS.  A photo frame has one SPI bus (panel and SD card),
very little internal RAM, and no clock that survives a power cut; most of the design follows from
these.  The tasks are: the application task (`frame_main.c`, a 200 ms loop that calls every
component's tick), httpd's single worker, the display worker, a window task and a test task of the
SMB mirror (created per window), the Google Photos task, the one-shot OTA pull task, the button
task, and the USB mass-storage callbacks.

| Component | State it keeps | Operations | Talks to | What is hard |
|---|---|---|---|---|
| SMB mirror run (`app_smb_sync.c`, `smb_manifest.c`) | the ownership record in RAM and on the card, the listing, the plan and its position | list, plan, fetch, store, reconcile, finish | card, server start/stop, settings, slideshow | a run spans windows; power cuts; a partial store; truncated listings |
| SMB window scheduling (`app_smb_sync.c`, `smb_window.c`) | phase, last window hour, failure count, requests | tick, window task, test task, request | server, display, slideshow, Google Photos | two tasks that must never both hold the session; quiet periods; retries |
| SMB on-demand cache (`smb_catalog.c`, `smb_evict.c`) | the shuffled catalogue, wanted photographs, the cache | refresh, fetch, evict | slideshow, card | rebuild across windows; evicting what is about to be shown; arenas that only grow |
| Slideshow (`app_slideshow.c`, `app_catalog.c`) | list, index, epoch permutation, wants | start, step, next/prev, update, invalidate | display, mirror, Google Photos, schedule | a list that shrinks under the index; a wanted photograph that never comes |
| Display worker (`app_display.c`) | one request slot, current picture, busy flag | request, redraw, blank, flat, card | panel, card | requests that overtake a running refresh; what `current` says after a failure |
| Storage (`board_storage.c`, `board_usb_msc.c`) | owner of the card, mount, recursive lock | lock, scan, atomic write, hand to the host and back | every file user | a host that takes the card in the middle of use; power loss between unlink and rename |
| HTTP server (`app_server.c`) | running flag, sessions | about forty routes | everything | stopped and restarted around every SMB window |
| Settings and apply (`app_settings.c`, `app_apply.c`, `app_setting_effect.c`) | NVS and the RAM copy | set, transaction begin/set/commit | display, charger | a failed persist must not be applied; one redraw for many settings |
| Authentication and pairing (`app_auth.c`, `pair_code.c`) | token, AP password, pairing window, attempts | open, claim, rotate, check | server, display | expiry against a claim in flight; attempts |
| Firmware updates (`app_ota.c`) | writer, pull task, trial state | begin/write/finish/abort, pull, tick | server, Wi-Fi, bootloader | two transports and one writer; trial, rollback, not reinstalling a bad image |
| Google Photos mirror (`app_gphotos_sync.c`) | albums, index, wants, phase | album run, fetch, evict | slideshow, SMB windows, rules | sharing network and memory with the SMB window |
| Scrape rules (`app_gphotos_rules.c`, `gphotos_rules.c`) | set in force, candidate, refused number | consider, verdict, upload, load | Google Photos task, httpd | a trial that outlives a reboot; sequence numbers only going up |
| Panel maintenance (`app_maint.c`, `epd_maint_course.c`) | active sequence, step, window edge | start course/clear, stop, tick | display, clock, slideshow | requests arriving between ticks; a picture drawn over a course |
| Clock and schedule (`app_clock.c`, `app_schedule.c`) | synced flag, attempts | tick, status, active-hours predicate | slideshow, maintenance | no clock at all is an ordinary state; windows that wrap midnight |
| Charge cap (`app_charge.c`) | wanted and applied voltage | set, tick | charger | a register the charger resets on its own |
| Wi-Fi (`board_wifi.c`, `dns_server.c`) | station state, AP expiry | connect, events, AP on request | clock, mirror, server | event callbacks against the tick |
| Buttons (`board_buttons.c`); LED, audio | debounce state, held flag, counters of presses | poll, count up, take down | frame_main | hold against click; two tasks on one counter |
| Panel and board drivers | registers | refresh, sleep | SPI, I2C | vendor sequences (I/O) |
| Render pipeline (`epd_*.c`, `img_*.c`) | none (pure) | dither, classify, adjust, scale | display | floating point and pixels, covered by host tests |
| SMB transport, request names, geo table, heap watch, entry points, generated data | - | - | - | see `components` in PROJECT.json |

What makes each correct, in the words the properties use:

- *mirror run*: every file the mirror wrote is named by its index; nothing is deleted that the
  share still has; nothing of the user's is touched; left alone, it converges.
- *scheduling*: one task at a time holds the session and the server is stopped exactly while it
  does; a window that is due is eventually opened; a failing share is not hammered.
- *on-demand cache*: what is evicted is neither on the glass nor next; the cache stays under its
  limit; the catalogue keeps one entry per photograph and keeps its shuffle.
- *slideshow*: every photograph is shown once per epoch; the index always names a photograph of the
  list or none; manual requests are never lost.
- *display*: the last request wins and is eventually drawn; `current` names what is on the glass.
- *storage*: nobody opens a file while the host owns the card; a reader sees the old or the new
  file, never half of one.
- *settings*: what is applied is what is persisted; at most one redraw per transaction.
- *pairing*: a token is handed out only for the live code, at most five guesses a window.
- *updates*: one writer; an image that fails its trial is not run again on the frame's own motion.
- *rules*: only verified sets are used, the number in force never falls, a refused one stays so.
- *maintenance*: a sequence shows its flats in order and ends on white.

## 2. Plan

Most important first; each module is small enough to be proved about and is composed only with what
it really shares state with.

1. `SmbMirror`: the ownership record across windows, failures and power cuts.
2. `SmbSchedule`: tick, window task and test task of the mirror, the server's stop and start, media
   changes.
3. `Catalog` over `AtomicWrite`, which refines `StoredFile`: the catalogue of the share, stored in a
   file that is old, absent or new.
4. `Slideshow`, and `OnDemand` which composes it with the mirror's on-demand window: epochs, wants,
   the cache and its eviction.
5. `Display`: the request slot; `Apply`: transactions of settings; `Pairing`: the code on
   the connect card, and the card on the glass.
6. `Ota`: firmware updates.  `GphotosRules` and `Gphotos`: scrape rules on trial and the albums.
7. `Maint`, `Wifi`, `Clock`, `Charge`: services that share no state, checked side by side in `MCHouse`.

8. `Album`: uploads, deletions and tiles of the web server, beside the catalogue in `MCCatalog`.
9. `CardSlot`: which medium is mounted, in `MCCatalog` too; `Buttons`: presses, beside `Display` in
   `MCDisplay`.

All of these are written, and a proof module stands beside each group (section 4).  Still to come: the
pure rules (`smb_window`, `smb_evict`, `epd_flow`) against reference definitions, and the types of the
modules whose proofs carry only the part of them they need.


### Hazards no property covers

Places where a test would hardly reach, in code not yet modelled or in what the modules leave out.

- **Slideshow**, `src/src/app/app_slideshow.c:361`: The new seed and the cursor are two writes to flash: a restart between them resumes the new order at the old order's last position.
- **Gphotos**, `src/src/app/app_gphotos_sync.c:648`: The wanted photograph is taken off before the fetch and a failed fetch does not put it back: it is fetched only because the slideshow asks again.
- **SmbCache**, `src/src/core/smb_manifest.c:195`: Removing one record says the manifest is no longer truncated although records that were refused are still missing from it.
- **SmbCache**, `src/src/core/smb_catalog.h:112`: The arena is not compacted when a folder is listed again and nothing reads `arena_full`: the refreshes of an unchanged share fill it, and photographs are left out until the card changes or the frame restarts.
## 3. What is modelled

### SmbMirror

`SmbMirror.tla` models the mirror path of `src/src/app/app_smb_sync.c`: a run lists one folder of
the share, plans what is new or changed, fetches a few files per window, and at the end reconciles
what has gone.  `MCSmbMirror` instantiates it; `SmbMirror_proofs` holds the proofs.

*State.* `share` is the server: a version per path, odd when the file is there (external, modelled
from what the code reads of it).  `card` is `/data`, `stored` is `/data/.smbidx`; `have`, `next`,
`entries`, `truncated`, `todo`, `planPos`, `landed`, `fetched`, `cfg`, `runActive` are the statics
and locals of the same purpose.  `pc` is where the window task stands: a window runs
`connect`, then `fetch`, then either closes part-way or goes to `reconcile`; `idle` means no task.
`setFolder` is the user's setting.  Ghosts: `onShare` (the folder listed last and all it held), `lost` (files a
power cut or a failed `unlink` left unrecorded), `indexFault` and `overflowed` (a load or store that
did not take effect; a record refused).

*Actions.* `Tick` opens a window and copies the settings; `BuildPlan`, `Resume` or `SessionFails`
follow the connection; `Fetch`, `FetchFails`, `StopAtCap` are the loop; `CloseWindow` is the
part-way end with `manifest_store_union`; `StartReconcile`, `ReconcileKeep`, `ReconcileDelete` and
`FinishRun` are `finish_run`, one record per step because a power cut may fall between two.
`UserDeletes`, `UserUploads`, `UserSetsFolder` run only when no window does, since a window stops the
web server.  `PowerCut` may strike at any point, inside the unlink-then-rename of
`board_storage_write_atomic` included.

*Abstractions.* A version stands for size and mtime.  A record is its path and version; the local
name is the leaf, which is what `smb_manifest_local_name` returns for a FAT-safe leaf.  Names it
rewrites with a hash cannot collide and are left out, so a collision in the model is one the code
has.  The byte cap is a Boolean: the constant says whether the card is small enough for it to bite,
and when it does it may stop any fetch.

*Runs.*  `MCApply` puts the instance with two folders beside one of `Apply`: a behaviour follows one of the two.

| Run | Instance | Shows |
|---|---|---|
| `Apply` | 2 folders with the same 2 leaves, a listing of 1, windows of 1 file | a listing cut short deletes nothing, even by a run the setting has since taken to another folder; a run still set to the folder it listed deletes by no record of a photograph that folder held |
| `SmbMirrorLive` | 1 folder, 2 photographs, versions to 3, no symmetry, fair | no orphans at rest; records never ahead of files; convergence |
| `SmbMirrorFolderMidRun` | 2 folders | violation: the folder changes between windows of one run, and a photograph it still holds is deleted |

Four more disagreements were met while modelling; the properties above are stated with them in
view (`Recorded`, `lost`), and none has a run of its own.  `fetch_one()` writes over an upload of the
same name (`smb_manifest.h:9`, only files of the mirror are replaced).  A kept file loses its record when the
manifest is full (`smb_manifest_add()`'s result is ignored in `reconcile_deletions()`, whose comment
says "keep both the record and the local copy").  A store of the index that failed is not repeated by
a run that changes nothing (`finish_run()`, "the file on the card already says exactly this").  Two
folders with a photograph of one name share one local name (`smb_manifest.h`, "cannot collide"), and
after a folder change reconciliation deletes the file the same run fetched.

*Bounds.* Windows of one file make every multi-file run span windows, the case the design is about;
two or three photographs are enough for a run with a kept, a fetched and a deleted record at once;
three versions let a file be created, removed and created again.

*Fairness.* `Tick` is weakly fair (a window is due every hour), as are the steps of the task once it
runs; the steps that need the server (`Resume`, `BuildPlan`, `Fetch`) are strongly fair: a server
that is there some of the time delivers some of the time.  Nothing forces the user to do anything,
and `Converges` is about behaviours in which the user, the power and the card's failures come to an
end, since each of these can undo what was mirrored.

### What is proved about SmbMirror

From the constants' assumptions alone (any folders, any finite set of names, any bounds):
`TypeCorrect`, and with it `Ownership`, the inductive invariant: every file holding a mirrored copy
is named by the stored index, or was landed by the open window, or is lost; and what each RAM
manifest holds between the steps that keep it so (`have` agrees with the stored index at rest;
`next` extends it inside a run).  `NoOrphanAtRest` alone is not inductive: whether the final store
covers a file depends on what the windows before it stored.  `NoOrphans` and `BoundedRisk` follow
from `Ownership`.

`ListedIsKept` is `KeepsWhatIsListed`, an action property, from `NamesItAll`: whatever a run does between
its listing and its last deletion, a listing that was not cut short names all its folder held.  Its first
half, that a deletion is by a whole listing, holds for any folder setting; its second is of a run whose
setting is still the folder it listed, and says nothing of one that was set to another between two windows
(`SmbMirrorFolderMidRun`).  It is about records: a record of another folder with the same leaf takes the file
with it, as said above.

`VersionsNotAhead` is `RecordsNotAhead`, from `VersionsReached`: a version a record or a listing speaks of is
one the share has reached, and a file in hand is at least that.  It has a hypothesis, that there is one
folder to read from, and needs it.  With two, a folder set between the windows of one run has the second
folder's file recorded with the version of the first folder's listing: TLC refutes the property in 9 steps
on two folders, and it is the cause of `SmbMirrorFolderMidRun` seen from the index.  A record ahead of its
file is not repaired until the photograph changes once more, since the next listing finds nothing to fetch.

`Converges` is liveness and stays with TLC; so does `DeletesOnlyWhatWasGone`, which the code refutes.


### Display, Apply and Pairing

`Display.tla` models `src/src/app/app_display.c`: a slot for one request, a binary semaphore, and
the task that owns the panel.  `Apply.tla` extends it with `src/src/app/app_apply.c` and the part of
`app_settings.c` a transaction reaches.

*State.* `pending` and `wake` are the slot and the semaphore; `task` is where `display_task()` is
(`wait`, `take`, `draw`, `publish`), `inflight` what it renders (`s_busy` is `inflight # None`),
`turned` the rotation the canvas was given when the request was taken, `current` is
`s_current_path`, `shown` the display's own copies of the settings.  `glass` is the panel: the
picture on it and the settings it was drawn with.  `redrawing[c]` is the path
`app_display_redraw()` of caller `c` has copied and not yet posted.  In `Apply`, `ram` and `nvs`
are the two copies of the settings, `body[c]` what a transaction has yet to set, `at[c]` where it
stands.  Ghosts: `wanted`, `overtaken`, `missed`, `raced`, each explained at its declaration.

*Actions.* `Wake`, `Take`, `Draw`, `Publish` are one turn of the task; `Request` is any of the four
posts (the flat's index and the card are stored in a step of their own before the post; each has one
caller, so the two are one here); `CopyCurrent` and `PostRedraw` are the two halves of a redraw.
`Begin` is a body of `h_mode_cfg_set()` or a click of the top button; `Already`, `Persist`,
`PersistFails` and `Push` are `app_apply_set()`, `Commit` and `Redraw` are `app_apply_commit()`.
`Draw` may fail before the waveform (the glass keeps its picture) or after it (the glass has the new
one); the settings other than the rotation are read at that step, somewhere inside the render.

| Run | Instance | Shows |
|---|---|---|
| `Display` | 2 photographs, 1 screen, 2 settings of 2 values, 1 caller, fair; or `Pairing`: 2 attempts, 1 hold and 1 power cut; or `Buttons` | at rest the picture asked for last is on the glass; every request is served; the card's code works once and the card goes; every press is answered once |
| `Apply` | 1 photograph, 2 callers; or `SmbMirror` with two folders | the display holds what is stored; the glass is up to date; what the mirror deletes by |
| `ButtonsRace` | 4 turns of the pin | violation: a press is lost to a count written over |

Four disagreements met while modelling have no run, and the properties name the case they leave out.
A redraw that copied the old path before a request is posted after it and brings the old photograph
back (`overtaken`; `app_display.h:14`, "the last request wins").  Two tasks that set one key at once
can leave the panel with a rotation NVS does not hold (`raced`; `app_apply.h:43`).  A setting changed while the first
photograph after a boot renders is not redrawn: `app_display_redraw()` finds no current path and
both callers ignore it (`missed` in `GlassUpToDate`).  A setter changes RAM before the flash, so a
value sent again after a failed write is answered `ESP_OK` with nothing stored (`app_apply.h`,
"when it already equalled the stored one").

*Bounds.* None on the length of a run: the states are finite.  Two photographs distinguish the
picture asked for, in flight and current; two settings distinguish one read at the take from one read
in the render; two callers are all the code has.

*Fairness.* The display task has the highest priority of the application and blocks only on its
semaphore and on the panel, whose driver times out; a caller that has set a value goes straight on to
the redraw.  Requests and failures are never forced.

*Proved* (`Display_proofs`), for any pictures, values and callers: `TypeOK`, `NoLostWake`,
`LastRequestShown` and `GlassUpToDate` of `Display`; `ShownIsStored` of `Apply`, and `GlassUpToDate` of
`Apply` too, whose every step is one `Display` allows its clients.  `LastRequestShown` speaks of rest only, so its invariant `WantedIsNext` says
where the wanted picture is before that: in the slot, else in flight, else on the glass.
`ShownIsStored` needs `KeyInv`: while one transaction stands between its write and its push of a
key, the flash already holds what it will push, and no other stands there unless the key is `raced`.
`GlassUpToDate` needs the same for the settings: what the glass has not been drawn with is in the slot, in
flight, or still to be redrawn by a caller.  The liveness properties are model-checked only.

**Pairing** (`app_auth.c`, the card's part of `frame_main.c`) has a panel of its own, coarser than
`Display`'s, so `MCDisplay` follows one of the two in each behaviour and leaves the other as it began.

*State.* `code`, `lapsed` (the deadline) and `tries` are the window; `loopAt` is where the main loop is
in `show_connect_card()` or in the clearing, `claimAt`, `typed` and `read` where the web server's task
is in a claim.  `asked`, `drawing`, `onPanel` are the display's slot, what it renders and the glass,
`photoUp` whether `s_current_path` is set, `timer` the card's three minutes.  Ghosts: `met` (a claim
met the opening), `over` (the code's ten minutes went), `wrong` (guesses compared with the code),
`given` and `again` (the code gave the token, and twice), `broken` (a render failed since the card was
asked for), `stranded` (the power went from a frame without photographs).

*Actions.* `OpenWindow` is `app_auth_pairing_open()` write by write, `AskForCard` the rest of
`show_connect_card()`; `Claim` is `app_auth_pairing_claim()` cut at every shared read and write, and what is
typed is any code of this boot or none of them.  `ClearCard` and `WaitEnds` are `clear_pairing_if_due()`
around its wait.  `SomebodyDraws` is the slideshow and the page; `PowerCut` keeps the glass and the
flag in flash.

*Bounds.* Two codes a boot (a first card and a hold) are a window opened over another; two attempts
separate the last guess from the one before it; one power cut falls at every step.  What is not
of a code's shape is left out: it spends no attempt.  The page's link writes the flag only a boot reads,
so `PowerCut` writes it.

*Fairness.* The main loop and the panel get on, the three minutes pass.  Nobody is forced to draw.

*Proved* (`Display_proofs`): `CodeWorksOnce`, for any codes, attempts, holds and power cuts.  The invariant
says where the count in RAM stands to the guesses compared (`wrong`) at each point of a claim, and that a
code that has given the token is one no claim in progress can still match, except one that met an opening.

Met while modelling, and excepted by the properties.  A claim that crosses the opening of a window
closes the fresh one, or stores its old count over the fresh one: `app_auth.c:43` says it "can only
waste one of the five attempts" (`met`).  A card whose render fails after the waveform leaves the
photograph before it in `s_current`, so the timer is dropped and the card stays (`broken`).  A frame
without photographs that restarts under the card has nothing that would clear it (`stranded`).  Outside the
module: the clear of a card draws a photograph over a panel `Maint` parked white; a button held at boot
is a long press at once, since `down_us` is 0.

### SmbSchedule

`SmbSchedule.tla` models when the frame talks to the share: `app_smb_sync_tick()`, `window_task()`
as far as it shares state with the others, `test_task()`, the rule of `smb_window.c`, the handlers
of the web server that ask for a run or a test, change the mirror's settings or have the volume
looked at again, and the main loop's own look at the card.  `SmbMirror` is the inside of a mirror
window; here a window is only its outcome.

*State.* `window` and `test` are `s_task_running` and `s_test_task_running` with the place each task
has reached; `app` is where the application task is in its tick, `web` the handler the web server's
task runs.  `left` counts the windows the plan still needs, `buffers` says that `s_entries` and
`s_next_arena` are allocated.  Time is what has elapsed: `gap`, `sinceRun`, `stale`, `wait`.  Ghosts:
`asked` (a run was asked for with the mirror on and the card in ever since), `flipped`.

*Actions.* The tick is cut where another task can come between two of its reads: the test's service,
the guard on running tasks, the reading of the settings, the decision.  A decision is one of
`Dropped`, `NoLink`, `NotDue`, `WaitsForQuiet`, `NoBuffers`, `OpenWindow`, `OpenFails`.  `StopServer`
waits for a running handler as `httpd_stop()` does; `RestartServer` may leave the server down, as
five failed attempts do.  A window that goes on with a plan gets at least one file further (the loop
advances before it looks at the clock again); the first one may spend its minute on the listing.

*Fairness.* The tasks are weakly fair: FreeRTOS schedules them, and the model has no priorities.
Strong fairness on `OpenWindow` says that memory for a window's task is not short at every attempt,
and on the gap that time passes between ticks.  Time passes only between ticks and outside windows:
a tick takes milliseconds and a window about a minute, against a gap of 20 s that begins with the
window's end and a period of an hour.

| Run | Instance | Shows |
|---|---|---|
| `SmbSchedule` | a plan of two windows, 2 events, fair | one session; no reload or setting changed under a window; runs and tests asked for are served |

Two events are enough for every pair of what surroundings and users do around and inside a run; the
properties also hold with three.  `TestAnswered`, half of `RequestsServed`, leaves out a run that cannot go on, because `s_run_active`
outlives the decision not to go on (`app_smb_sync.c:2418`): switch the mirror off (or take the card out) between two windows and
`service_test()` waits for a run nobody will end.  The same shape, from on-demand to mirror and back,
loses the 300 KB of a run's buffers: `flipped` in `BuffersFollowRun` is that case, which the comment
at `config_load()` excludes within one window only.

*Proofs* (`SmbSchedule_proofs.tla`).  `Alone` is the inductive invariant: past its guards a tick has
no test and no window beside it (`TickAlone`), and neither kind of reload has a window past the web
server's stop (`LoadingAlone`).  `OneSession`, `ReloadAlone` and the constancy of the on-demand
setting under a window follow from it.  `Owned` adds to `BuffersFollowRun` that buffers under an
on-demand run come from a flip.  The two liveness properties are checked by TLC only.

### Ota

`Ota.tla` models firmware updates: `app_ota.c` whole, the routes of `app_server.c` that upload, ask for
a check or restart as a USB drive, `app_display_wait_idle()` and `board_storage_lock()` as the way
into a restart.  ESP-IDF's image table (`img`, `state`, `boot`) and its bootloader (`Boots`) are
external, modelled as `app_ota.c` and its comments rely on them.

*State.* `task` says where the upload (`"push"`, the web server's only worker), the download
(`"pull"`, `s_pulling` while it is not idle) and `main` stand.  `writing` is `s_writing`, `handle` whose
write `s_handle` is, `open` the writes ESP-IDF has open.  `trial` is `s_pending`; `state[running]` is
what the flash says of it, which is what `esp_ota_begin()` asks.  Images are model values with four
traits: signed, ours, reaching the network, and being the one flashed by cable.

*Actions.* A write is `Begin`, any number of chunks (`Stops` when one fails or none comes), then
`Finish`, `End`, `Verify`, `Choose`: `app_ota_finish()` cut where another task can come in, because it
clears `s_writing` first and takes seconds to verify.  `PullStart` is shared by the route and by main's
tick.  `Waited` is always enabled: the wait ends when the panel is idle or after 60 s.

*Fairness.* Each task goes on, time passes, a refresh ends.  Strong fairness on `TakeLock`: the storage
lock and the bus are FreeRTOS mutexes, given to a task that waits when the holder lets go.  Strong
fairness on `AutomaticCheck`, `Judge` and `Finish("pull")`: the network and the server let a check
through if it is tried for ever.

| Run | Instance | Shows |
|---|---|---|
| `Ota` | five images, 2 events, fair | one slot always known to work; trials only of checked images; trials cease; a good release arrives |

An event is an upload, a USB request, a check asked for, a new release or a power cut; automatic
checks, panics, refreshes, the link and time are not bounded.  Two events cover an upload against a
release (the race below), a release against another, a power cut in any write or trial.  The safety
properties also hold with three (about a million states).

*What `overlapped` excludes.* `app_ota.h` says "A push and a pull never write at once: each refuses
while the other holds the writer", and `OneWriter` is that.  But `app_ota_finish()` gives the writer
up (`app_ota.c:258`) before the image is verified and long before the frame restarts (up to 60 s of
waiting for the panel).  An automatic check that starts there finds `s_writing` clear, begins to
write over the slot just verified and chosen, and the restart then boots what it has got so far: a
partial image, which the bootloader refuses (the other slot runs), or a whole one that was not
verified.  Without the antecedent `~overlapped`, TLC refutes `TrialsAreVerified` in 19 steps.  `WorkingImage`
holds all the same: the running slot is never written, so the frame comes back.

*Proofs* (`Ota_proofs.tla`), for all images, traits and bounds.  `Kept` is the inductive invariant of
`WorkingImage`: either the running slot is valid and has reached the network, and what boots next is
that slot or one on trial; or the running slot is on trial, the other is valid, and nobody writes
(`esp_ota_begin()` refuses).  `BootsKept` is the bootloader's part, for any choice main hands it.
`Checked` adds, for `OneWriter`, that an upload that writes holds `s_writing` with no download running,
and for `TrialsAreVerified` (`Alone`) that until `overlapped` a slot that was chosen is not written
over.  Both use `ImagesAssumption`: the image flashed by cable is good, and an erased slot holds none.
`Settles` and `Updates` are liveness, checked by TLC only.

### Slideshow and OnDemand

`Slideshow.tla` models `app_slideshow.c`: which photograph comes next, in filename order, along a
shuffled permutation of the card, or along one of the catalogue, most of which is not on the card.
A handler runs under the module's lock, so each is a function from the module's state (`show`) to the
next one, and the actions are its callers.  `app_slideshow_update()` is two: it gives the lock back
before the step it decides on (`app_slideshow.c:670`, `:724`), so `Tick` ends there, `steps` says
that a step is due, and `Advance` takes it, after whatever a window or the page did in between.  `OnDemand.tla` puts beside it the window of
`app_smb_sync.c` that serves it: it fetches what the slideshow wants, lists the folder again, and
evicts the oldest fetches, as a task of its own.

*State.* `show` holds the statics of `app_slideshow.c` under their own names shortened (`cur`, `pend`,
`needs`, `inval`; `n`, `seed`, `over`, `pos`, `miss` for the epoch), the one slot of `s_want`, and what
flash (`setting`) and RTC RAM (`kept`, `keptPos`) remember of it.  `have` is `s_have`, `stored` the
index on the card.  `spared` is what `evict_to_cache_limit()` asked the slideshow once before its walk.

*Abstractions.* A photograph is a number whose order is that of the filenames.  A seed is the order it
gives to the largest domain; on a smaller one it gives the same order without the missing indices.
That loses the independence of two lengths, which no property uses.  The schedule, the panel and a
maintenance sequence are the Booleans `open` and `busy` of a tick.

| Run | Instance | Shows |
|---|---|---|
| `OnDemand` | 3 photographs on the share, a cache of 2, one intervention | one record to a photograph; the slideshow's list is the card or is told to be; the cursor holds its place until it is answered, and never sticks; a frame that shows nothing draws or wants again |

An intervention is a button, the page, an upload or deletion, a change of the share or a power cut;
ticks, intervals, windows, listings, fetches and failures are not bounded.  One is enough to make the
cursor, the cache and the catalogue disagree at any step of a window; a
second one multiplies the states past any use.  A cache of two under three photographs makes every second fetch evict.  `Holds` and
`Room` are true: a write to flash or to the card that fails, a file the card does not let go, and
PSRAM without room are in the module and out of this instance.  *Fairness* is the main loop's: when a
tick has something to do, ticks that find the schedule open and the panel at rest come again and
again, a step that is due is taken, and the interval runs out.  The windows need none, since a want nobody serves is
given up after `EPOCH_MISS_MAX`.

*Proved* (`OnDemand_proofs`), for any photographs, cache and seeds: `OneRecordEach`, `ListIsTrue` and
`CursorHolds`, the first half of `CursorHoldsAndGoesOn`.  The first is about sequences: a record taken
out at the first match leaves the others in order and once each, and one put at the end is of a
photograph that has none.  The other two have a lemma for each handler, since every handler is a
function on `show`.  For `ListIsTrue` it says that the handler leaves the list alone or makes it the
card (`StepReads`, `UpdatedTells`, `StartedReads`, `ShowNameReads`; `NextTrue` puts them together); for
`CursorHolds`, which takes `Placed` (a position is inside an epoch over the catalogue, and without a
miss the photograph there has been answered), that it keeps `Placed` and that the cursor stays unless
answered (`ListStepSteps`, `CatalogStepSteps`, `StepSteps`, `UpdatedSteps`, `StartedSteps`;
`NextSteps`).  The rest is liveness, and TLC's.

Met while modelling.  No property says that the photograph on the glass is not evicted, because the
code does not ensure it: `cur` is an index, so a file sorted before it that comes or goes makes it name
another photograph until the next rescan, and the eviction believes it; and the slideshow may draw a
photograph after the walk has asked what is on the glass and before it comes to that record
(`app_smb_sync.c:1429`).  A run of the mirror tells the slideshow to look again only if something
landed (`app_smb_sync.c:1751`): one that only deleted leaves its list until the next step, and
`ListIsTrue` is about the on-demand windows, which tell it of every change.  A restart in the middle of a miss forgets the hold; the first pass
of a new catalogue epoch begins by advancing and skips the first place; and after a write to NVS
that failed, `epoch_ready()` builds from the seed before.


### Catalog, AtomicWrite and StoredFile

`Catalog.tla` models the catalogue of the share: `core/smb_catalog.c` and the part of `app_smb_sync.c`
that refreshes one folder per hour (`catalogue_next_folder()`), stores it and reads it back.  Its file
is written by `AtomicWrite.tla`, which is `board_storage_write_atomic()` one directory operation at a
time; `StoredFile.tla` is what that function promises, and `AtomicWrite` names the refinement
(`Promise`, property `OldNothingOrWhole`).

*State.* `cat` is `s_catalog`: the records in order, the paths the arena has taken, `truncated`,
`full` (`arena_full`) and the cursor of the round-robin.  `Sift.tla` is the loop that closes a table up over
the records it drops, which the mirror of Google Photos has too.  `at` is the folder between its choice and its
listing.  `file` and `part` are the two names on the card.  The ghost `current` is the set of folders
whose last refresh took in the whole listing.

*Actions.* `NextFolder`, `ListingFails` and `Refresh` are one call of `catalogue_next_folder()`;
`Storing` is a step of the write, each of which may fail; `Boot` cuts the power in any of them and
`ChangeCard` takes another card.  `Reload` is `app_smb_sync_media_changed()`.

| Run | Instance | Shows |
|---|---|---|
| `Catalog` | 2 folders of 2 leaves, three lists, 3 records, 4 paths in the arena, 2 interventions; `Album`; `CardSlot` | refreshes leave the other folders' records where they were; folders seen whole are the share; every folder comes round; the file keeps its promise; a number names one photograph; the volume is the card in the slot |

Two folders are needed for one to be in the way of the other; 3 records and 4 paths let both limits
bite.  A refresh that fills the arena leaves photographs out: nothing reads `arena_full`, of which
`smb_catalog.h:112` says that it "is the signal that a rebuild is due", and dropped paths keep their
bytes, so the refreshes of a share nobody changes fill it.  `FollowsShare` is about folders that were
taken in whole, and `truncated` is cleared by any drop.  *Fairness*: a window comes by the hour and its
task runs to its end.  `CHECK_DEADLOCK FALSE`: with an empty folder list and no interventions left
nothing happens.

*Proved* (`Catalog_proofs`), for any share, lists and sizes: `CatalogueFileKeepsPromise`, that every
step of the catalogue with its write is a step of `StoredFile` or a stutter.  Its invariant is
`PartIsWhole`: what is renamed was written to its end before the old file went.  `Rename` is where it
is needed; every other step keeps the promise by itself.  `CatalogueFollowsShare` and `OthersKeepPlace` are about what it holds.  A
record is followed through the loops by induction (`UpTo`, `RecursionIsDefined`): what `Sifted` keeps lies in
the order it had (`SiftedProperties`), what `AddAll` adds stands at the end, each path once (`AddAllGrows`).
The inductive invariant `Whole` says that the records of a folder lie together (`Grouped`), so that a drop takes
out one run and the restore puts one back in its place (`RefreshReplaces`); that a file that reads back is such
a catalogue; that between a window and the next edit of the list no record is of another folder; and that a
folder taken in whole is in the catalogue as it is on the share.  `Grouped` is what the restore relies on: it
moves back one run, to where the first record was.  `SlotIsFollowed` and `AlbumStaysTrue` are about the other
two modules of the run, below.


### Gphotos and GphotosRules

`Gphotos.tla` models `app_gphotos_sync.c` with the settings it reads and writes; `GphotosRules.tla`, which
it extends, models `app_gphotos_rules.c`: which set of scrape rules an album is read with.

*State.* `link` and `good` are the links a user saved and the last of them that was read; `lists` and
`files` a slot's list in memory and on the card; `index` the photographs kept; `want`, `request`,
`period` what the tick looks at; `tick` where the main loop stands between a test and what it does
then; `pc`, `work`, `slot`, `url`, `by` the task.  A set of rules is its sequence number.  Of the rules:
`adopted`, `rejected`, `candidate`, `upload`, and `kept` and `bad` in flash.  Ghosts: `saved` and `fate`
(what became of the newest save), `held` (the list a slot's album gave when last read whole), `lost` (the
slots whose list did not come back from the card after a restart), `refused` and `proven`.

*Actions.* `SeenOff`, `DropRequest`, `TickStarts`, `TaskCreated`, `TaskNotCreated` are the tick; `Begin`,
`Fetch`, `ReadRules`, then per slot `BeginSlot` and one of `ReadOk`, `ReadFails`, `NoMemory`, `Revert`,
and `FinishList` with the verdict and the sweep are the task.  `Save` is the page's handler, at any of
these points.  HTTP and the streaming parser are outcomes: an album comes whole or not, a rule set
finds its photographs or not.

| Run | Instance | Shows |
|---|---|---|
| `Gphotos` | 2 slots, 2 albums, 2 photographs, lists of 1, a cache of 1, rule sets 1..3 of which 2 finds nothing, 2 interventions | the newest link stands unless it failed, and is read; a sweep deletes only what has left, or what a lost list named; rules in force have worked, and none refused is tried |

An intervention is a save, an upload of rules, a request, a change of an album, the daily period or a
power cut.  Two are a save against a save, against a power cut, against an album, or rules against
either.  Two slots let one fail while the other is read.  A save that turns the mirror off changes no
link or removes it (bound).  *Fairness*: strong on the tick that finds a listing due (the link comes and goes), on
the creation of the task and on a run finding memory; weak on the steps of a task that runs.

A list is as much of its album as it holds (`on_item`, 1000 photographs): a photograph past it is not
listed, and goes with the sweep.  Its file may stay unwritten or go (a write cut off between removing the old
file and renaming the new one), the remove of a dropped one may fail, and at a restart any of them may not
load.  The sweep then deletes that slot's photographs as soon as another slot has a list.
`app_gphotos_sync.c:832` accepts this as "the one case" for a list file that is lost; a file that could not
be written, and so is older than what was read last, is a second.  `lost` is those slots, until a whole read;
`DeletesOnlyWhatLeft` leaves them out and holds for every other.

What `fate` calls "late", and the properties leave out: a request in the gap between a tick that saw
the mirror off and the line that drops it (`app_gphotos_sync.c:940`); one overwritten when a task that
could not be created puts the request back as it found it (`:988`); a run without PSRAM, which drops
its request until the daily one; a save between the comparison of a failed link and its undoing.
Also met: `good` is not cleared when a link is removed, so a new link that then fails brings the
removed album's back; an index that cannot be read or parsed counts as empty, and the next
store leaves its photographs on the card without a record; a failed fetch does not put its want back
(the slideshow asks again); a flash that cannot be opened at load forgets what it refused.  Lists are
read once a boot, so a changed card is not modelled: it is in.

Met while proving.  `app_gphotos_rules.h:13` says a set that found nothing is "refused for good".  One that
was adopted and kept in flash, and that a boot could not read (`app_gphotos_rules.c:274`), can come again as
a file, go on trial, find nothing this time and be refused; the boot after that reads the kept copy and puts
it in force, because `app_gphotos_rules_load()` compares it with the firmware's number alone (`:284`).  It
takes a flash that fails once and an album that came empty, more than the two interventions of the run; an
instance of the rules alone reaches it in 10 steps.  `OnlyProvenRules` states what does hold: nothing refused
is on trial, and what is in force is the firmware's or has found photographs.

*Proved* (`Gphotos_proofs`), for any slots, albums, photographs and rule sets: `OnlyProvenRules` and
`SavedLinkStands`.  The first rests on `Ruled`: a set on trial is above the one in force and above all that
flash remembers as refused, and nothing is on trial before flash was read.  The second on
`UndoesWhatFailed`: a task about to undo a link still sees the one it failed on, or the save is one of those
`fate` calls late.  `SweepsSpare` proves `DeletesOnlyWhatLeft`: once the stored lists were loaded each list that is not lost
names all its album gave when it was last read whole (`ListsAreHeld`), a run is past its beginning only then
(`NotBeforeLoad`), and the sweep keeps exactly what is in a list (`SiftedHolds`, an induction along the index).


### Maint, Wifi, Clock and Charge: the run House

Four services that share no state.  An interleaving of two of them would multiply states and add no
behaviour, so `MCHouse` follows one per behaviour and leaves the others as they began; its fairness is
each module's own, where that service is followed.

**Maint** (`app_maint.c`, `epd_maint_course.c`, `app_schedule.c`, and the slideshow's and the display's
share).  A tick of the main loop is cut at `pc`: the slideshow's update, the requests, the start of a
sequence, the edge of the window, a step.  `seq` and `next` are the flats of a colour course or a clear
and how far it is; `slot`, `inflight` and `glass` the panel.  `PostStart` and `PostStop` are the
page's requests between any two of these.  A refresh may fail (`display_task`, `app_display.c:1172`): the
glass keeps what it showed, or shows what it was given if the failure came after the drawing, and
nothing repeats it.  Ghosts say what the properties except: `failed`, the flats whose refresh failed,
which `app_maint.c:142` logs as part of a sequence that is done; `spoilt`, that the last refresh failed,
which leaves a photograph on a panel `s_parked` calls parked (`app_maint.c:223` and `:245` post the white
once); `lost`, a flat replaced in the slot by somebody else; `late`, a settle window that was
open when the sequence began (`app_slideshow.c:680` draws into it); `touched`, a person at the panel
since it was parked, a settle window open at the edge, or a photograph put over a running
sequence's last flat just before it.  A sequence that runs at the edge is not excepted: it must come to rest on
white.  `seen` is how far the flats have been on the glass.  A day has three hours, a course two
colours and a clear three steps; four hours strike, so every window opens and
closes, one of them over midnight; requests and failures together are two.  Met while modelling: deep standby that is refused because a
person's sequence runs sets `s_parked` all the same (`app_maint.c:236`); a second POST between the
clearing of `s_want_start` and `course_start()` is accepted and changes what starts, or is then
refused (`:283`); a stop posted with a start ends nothing.

**Wifi** (`board_wifi.c`).  The retry task (`at` is where it is in its tick), the web server's task,
which hands over credentials, disconnects and scans, the application's, which opens the access
point's window, and a driver whose events (`reports`) come later and whose calls may fail.  Ghost
`promise` is the time left of what the last press promised; `crossed` that it met a tick which had
already decided; `refused` that the driver did.  Left out: the next change of the link waits for the
report of the one before; no time passes while the driver raises the access point; the build with
`FRAME_AP_ALWAYS_ON`, the access point's encryption, the portal's DNS, mDNS, the status page.  Met
while modelling: the comment at `board_wifi.c:490` says re-presses "cannot walk the AP past" the cap,
but `service_ap_window()` looks at the cap only past the deadline, which each press pushes out; a tick
that has read its job undoes a disconnect that comes after; a press that crosses a tick which is
closing leaves `s_ap_up` true over a radio that is down; and an access point the driver refused to
lower stays on the air, since `s_ap_up` already says it is down.

**Clock** (`app_clock.c`).  Two one-shot timers on the timer task and the answer on lwIP's; `timerAt` and
`answerAt` are where each is in its callback, `sntp` the client.  An answer between the two calls that
arm the timeout makes the second fail and ends the attempt early; a late one, after the flag was taken,
causes one more ending that counts as no answer.  `AttemptsGoOn` is that none of these leaves the
frame without a timer; a timer that `esp_timer` will not start, which the code logs as the end of the clock
for this boot (`app_clock.c:107`), is not modelled.

**Charge** (`app_charge.c`, `board_e1002.c`).  The main loop's re-assert and the page's change of the
setting apply it on two tasks: `applying` and `goal` are where each is.  The charger keeps `reg` and its
watchdog across a `Restart` of the frame, which forgets the `ceiling`.  A mishap is a restart, a reset
of the part, a change of the setting or a failed transfer; four let one of each meet.  Setting 0 leaves
a cap in place.  The M5Paper Color has no charger in reach.

| Run | Instance | Shows |
|---|---|---|
| `House` | as above; 2 networks, 2 incidents, 4 mishaps, fair | a stop lets one flat out, a parked panel stays white unless its last refresh failed, every flat has been on the glass or its refresh failed, no advance comes into a sequence, a sequence ends; a press keeps the access point up, it comes down, credentials reach the radio; attempts to set the clock go on; the cap holds |
| `ChargeFull` | 4 mishaps, fair | violation: 100 % does not restore the charger's own default after a restart under the cap |

`ChargeFull` fails because `board_charger_set_vreg_mv()` takes the first voltage it finds for the part's
own (`s_vreg_ceiling_mv`, `board_e1002.c:449`), and bounds what it writes by it.  The comment there counts
on a read at boot that captures it; `board_charger_read()` does not, and it would find the cap too.

*Proofs* (`House_proofs`), for any lengths of windows, days, courses and clears and any number of people's
steps: `AttemptsGoOn`, from which timers each callback leaves armed (`Rearmed`); `PressKeepsApUp`, from the
time left of the window and of the cap against the promise (`Promised`); `ParksInTime` and `SequenceIsWhole`
from `Kept`.  `Kept` says that a panel nobody touches will come to rest on white (`RestsWhite`) and which
flats have been shown, or have failed, at each point of a tick (`FlatsInOrder`).  It needs that a course and a clear of any number of cycles end with
white, which is a lemma on the parity of their steps (`EndsWithWhite`).  That a sequence ends, the access
point comes down and the cap holds is liveness.

*Fairness.* The main loop and the retry task tick, the panel finishes, events are delivered, a scan
ends, time passes; strong fairness on a network that can be joined (it is joined if it is tried for
ever).  Nothing forces people, refusals, failed transfers or resets.


### Album

`Album.tla` models what `app_server.c` does to the photographs of the album: `h_photos_upload()` with
`generate_next_photo_name()` and the tile it leaves behind, `h_photos_delete()` and `h_thumb_serve()`.
`MCCatalog` puts it beside the catalogue, whose files lie on the same card, in the run `Catalog`; they
share no file, and a window of the mirror stops the server, so each behaviour follows one.

*State.* Per medium: `photo`, what lies under each number; `tile`, its sidecar; `counter`, `.imgseq` (0
when absent or torn).  `worker` is the one httpd worker, `number`, `sent`, `made` what it has in hand,
`cached` the tiles a browser keeps, by the
medium they were seen on.  Ghosts: `given` and `twice` (the numbers handed out, and those
handed out again), and what excuses them: `forgot`, `ended`, `orphan`, `crossed`.

*Actions.* `Upload`, `OpenCounter`, `KeepCounter`, `NamePhoto` are one hold of the lock, one file operation
each, since the power may go between them; `MakeTile` is `thumb_produce()`'s hold, `OpenTile` and
`KeepTile` the one after; `Delete` and `DeleteEnds` the unlinks.  Every write and every unlink may fail,
and no unlink's result is looked at (`:1736`, `:1789`): a tile that stays joins `orphan`.  `View` keeps a
tile until `Forget`, a day later or by the page's button, whatever becomes of the card.  `CardMoves` is
`board_storage_ensure()`, which waits for the lock.

*Abstractions.* One of the two letters: they share the file and nothing else.  The body of an upload is
its photograph; one that is refused before it has a number changes nothing.

*Property.* `AlbumIsTrue`: no number names two photographs (`NumbersAreNew`), and no photograph has
another one's tile or half of one, on the card or in the browser (`TilesAreTrue`).  *Bounds* (run
`Catalog`): 2 numbers, 2 uploads and a factory photograph, so that the last number is reached, burnt by a
refusal, and the lowest free one taken; two accidents, power cuts or changes of the card, at any point, so
that a card comes back to a browser that remembers it.

*Proved* (`Catalog_proofs`), for any last number, uploads and accidents: `AlbumIsTrue`.  Its invariant says
that each number in use was given (`Numbered`) and that a tile on the card is of what lies under its number
or excused (`Tiled`); that the lowest free number is free (`PickIsFree`) needs a least element, which the
library's well-founded induction gives without an operator parameter.

*Met while modelling*, and excused by the ghosts.  The comment at `app_server.c:470` says a deleted
number is not reused: one is when no counter covers it, as those of the factory's photographs before the
first upload, or all of them when `.imgseq` is torn (`:463` accepts this for "the highest name present",
but the counter of the other letter goes with it).  Past the last number the counter is set back to the
low number picked (`:525`), so that from then on one deletion decides which numbers come again.
`app_server.c:1780` calls an upload's name "epoch-stamped"; it is a number.  A browser that
keeps a tile for a day (`:313`) knows it by a name without the medium (`:1402`), and nothing tells it of a
change of the card: it shows the tile of the card before beside the photograph of that name on this one.
`TilesAreTrue` compares a kept tile with the medium it was seen on, so this is outside it.  A card changed between the
making of a tile and its writing has it lie beside another card's photograph; a power cut leaves a tile
cut short, which nothing notices (`:1731` says why that is worse than none), or one whose photograph is
gone, which only the next tile of that number replaces.

### CardSlot and Buttons

`CardSlot.tla` models which medium is mounted at `/data`: the poll of the detect line in `app_main()`, the
page's `h_storage_rescan()`, and `board_storage_ensure()`, which both run on one `board_storage_watch_t`
without a lock.  It is in the run `Catalog` (4 moves), beside the files of the card.

*State.* `inserted` is the card in the slot, `media` and `mounted` what `s_ctx` says; `locked` and
`lastPresent` are the watch, `lastDetect`, `agrees`, `acted` the poll's locals; `stage` is where each of the
two tasks is in `board_storage_ensure()`, `sees` and `aims` its locals.  Ghosts: `told`, `spurned`, `unseen`.

*Actions.* `CardIn` and `CardOut` are people.  A `Reading` may fail, and is then "empty".  `Poll` and `Rescan`
begin a call; `Look`, `Decide`, `Switch`, `Opens` or `Refuse` or `FlashFails`, `FallBack`, `Tell` are its steps,
of which the mount alone holds the lock.  *Bound*: `Moves`, what people, the bus and the flash do.

*Property.* `CardIsFollowed`.  It excuses (`unseen`) what the code cannot see: a card pulled and put back within
two polls leaves a mount of the card before it, and `board_storage_ensure()` returns early on it, so that
the page's button does not help either; a reading that fails inside `board_storage_ensure()` while the poll
has already latched `acted_on_detect` leaves the flash mounted until the next edge or request.  And a
flash that could not be mounted is not tried again before the next edge.  Only the M5Paper Color has a
detect line; on the other board a reading is always "present" and the poll never acts.  *Proved*
(`Catalog_proofs`): `CardIsFollowed`, for any number of moves.

`Buttons.tla` models the button TOP: `buttons_task()`'s debounce, click and hold, `on_button()`'s counters and
`service_buttons()`, in the run `Display` (3 samples as in the code, a hold of 5 polls, 6 turns of the pin).  A counter is
changed by `AddReads` and `AddWrites` on one task, `TakeReads` and `TakeWrites` on the other.

*Properties.* `PressAnsweredOnce`: every press makes one gesture, answered or waiting, as long as neither task
has written over the other's count (`overwritten`); proved (`Display_proofs`) for any debounce and hold.  What
it leaves out is the run `ButtonsRace` (2 samples, a hold of 3 polls, 4 turns), which refutes `NoPressIsLost`:
`frame_main.c:63` has counters because "losing a press to a race would be invisible and wrong", and `volatile`
counters changed on two tasks (`:110`, `:354`) lose one, or serve one twice.  *Met while modelling*:
`board_buttons.c:143` seeds the debounce "so a button already held at boot does not read as a fresh press";
`down_us` is left 0, ten seconds before the first poll, so it reads as a long one and draws the connect card.
`PressAnsweredOnce` does not call that a press: it counts apart (`unasked`) the one gesture it makes.


## 4. Proved, checked, and neither

Each run's safety properties, and what states them for every value of the constants (`theorems` in
`PROJECT.json`; the sections above name each proof's invariant):

| Proof module | Proved of a run's properties | Proved besides |
|---|---|---|
| `SmbMirror_proofs` | `NoOrphanAtRest`, `KeepsWhatIsListed`, `RecordsNotAhead` (one folder) | types, `OwnershipInv`, `AtMostAWindowAtRisk` |
| `SmbSchedule_proofs` | `OneSession`, `ReloadAlone`, `WindowSeesOneConfig` | `BuffersFollowRun` |
| `Display_proofs` | `LastRequestShown`, `ShownIsStored`, `GlassUpToDate`, `CodeWorksOnce`, `PressAnsweredOnce` | types of `Display`, `NoLostWake` |
| `Ota_proofs` | `WorkingImage`, `TrialsAreVerified` | `OneWriter` |
| `OnDemand_proofs` | `OneRecordEach`, `ListIsTrue` | `CursorHolds`, the first half of `CursorHoldsAndGoesOn` |
| `Catalog_proofs` | `OldNothingOrWhole`, `FollowsShare`, `OthersStay`, `AlbumIsTrue`, `CardIsFollowed` | |
| `Gphotos_proofs` | `OnlyProvenRules`, `SavedLinkStands`, `DeletesOnlyWhatLeft` | |
| `House_proofs` | `ParksInTime`, `SequenceIsWhole`, `PressKeepsApUp`, `AttemptsGoOn` | |

*Assumed.* The named assumptions of the modules, which TLC evaluates on every instance, and for
`VersionsNotAhead` that there is one folder.  Two are there for the proofs alone and say what the code has
by construction: `SequenceAssumption` (a course ends with white, as the tables of
`epd_maint_course.c` do, a cycle of a clear has its blacks, and one cycle may be asked for) and `NoneAssumption` (no picture is the empty slot).

*Checked only.*  Liveness and what depends on fairness: `Converges`, `RequestsServed`, `Served`, `CardGoes`,
`Settles`, `Updates`, `EveryFolderComesRound`, `SavedLinkIsRead`, `SequenceEnds`, `WifiSettles`, `CapHolds`
and the second half of `CursorHoldsAndGoesOn`.

*Induction over data.*  The library's induction theorems take an operator as a parameter, which the installed
provers cannot be given.  Where a loop over a table is what matters (`Sifted`, `AddAll`) it is a recursive
function, and the property that is carried along it is a set of naturals: `WFMin` and
`NatLessThanWellFounded` give `UpTo`.  Loops that nothing was proved about keep the folds of the library.

## 5. Not modelled

- *HTTP server*: uploads, deletions and tiles are in `Album`, start and stop in `SmbSchedule`; the other
  routes that change state are actions of the component they call.  Parsing and the pages are I/O.
- *Authentication*: the token, the access point's password, and
  `app_auth_rotate()`, which nothing calls.
- *Storage lock and USB mass storage*: the lock appears where a component waits for it (`Ota`, `Album`,
  `CardSlot`).  The host takes the card only in a boot of its own (`frame_main.c:398`, `:454`), in which
  `board_usb_msc_run()` never returns and no task of the other components exists: what is left of it is
  TinyUSB's and the host's.
- *Panel, board, LED and audio drivers*, *SMB transport*: sequences of register writes and library
  calls, modelled as outcomes in the components that make them; of `board_e1002.c` the charger is.
- *Render pipeline*, *request names and small parsers*: pure pixel, floating-point and string
  functions without state, covered by the repository's host tests.
- *Heap watch and trace*, *bench entry points*, *generated tables*: logging, test programs and data.
- *What the light shows*: `board_led.c` keeps what was asked for and the state it rests in, written by
  the button, display, LED and main tasks without a lock.  Read, not checked: a TOP hold released
  before the five seconds arrives as a click (`src/src/entry/frame_main.c:97`), which asks nothing of
  the light, and `board_led_set_resting()` leaves `BOARD_LED_HOLD` alone
  (`src/src/board/board_led.c:224`).  The light blinks "a button is held" until something is drawn:
  the rotation the click asks for, when there is a photograph to draw again.  A module of this state
  is left to the plan.
