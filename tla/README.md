# TinyWiFi: models and proofs

TLA+ specifications of the access-point manager in `src/`, model-checked with
TLC; the safety properties are proved with TLAPS as well. The first part below says
what the system consists of and what can go wrong in it; then come the modules,
the runs, the proofs and the plan.

## 1. The system

TinyWiFi is a workspace of three crates. `tinywifi-core` reads and edits the
configuration of hostapd, nanodhcp, nanodns and others, and restarts them;
`tinywifi-web` is an axum server around it; `tinywifi-display` is a daemon that
draws the status on an e-paper screen. There is no database: the state is a
dozen files under `/etc`, `/var/lib` and `/tmp`, the kernel's interfaces and
nftables rules, the services, and the few maps of `AppState`.

Requests run on tokio's multi-threaded runtime. The handlers call blocking code
(files, `systemctl`, `ip`, `nft`) in place and hold no lock while they do so:
two requests interleave at every file operation. Beside them run the one-minute
schedule ticker, one thread per armed auto-revert, and the monitor scans.

| component | state | operations | hard behaviour |
|---|---|---|---|
| auto-revert timer (`safety.rs`) | `cancelled` under a mutex, `fired`, a thread | arm, confirm, drop | confirm against timeout; join on drop |
| safe edits (`wifi.rs`, `nanodhcp.rs`, `file.rs`, `api.rs`) | conf file, `.bak`, service, map `pending` | update, stage, confirm, the timer's rollback | overlap of edits and rollbacks, failing files and restarts, exits |
| schedule (`schedule.rs`, `main.rs`) | schedule file, override file, nft chain | save, block, unblock, tick | tick against requests, midnight |
| access lists (`acl.rs`) | `acl.json`, MAC files, hostapd.conf | set, block, unblock | second writer of hostapd.conf, partial failure |
| static leases, DHCP file (`nanodhcp.rs`) | nanodhcp.conf | add, remove, list | read-check-write without lock |
| DNS (`nanodns.rs`) | nanodns.conf | settings, add, remove | read-check-write without lock |
| ad blocker (`adblock.rs`) | nanodns.conf, list files | enable, disable, response, update, custom | order of calls |
| VPN (`amnezia.rs`) | interface, rules, resolv.conf and its copy, route state | up, down, delete, autostart, bypass | repeated and partial up and down |
| WAN (`wan.rs`) | wan.conf, interface | save, apply | steps that fail half-way |
| monitor (`monitor.rs`) | handle (state, interface, scan) | enable, disable, scan | stale handle |
| auth, bans, sessions, rate limit (`auth.rs`, `ratelimit.rs`) | hash file, maps | login, logout, change password | check-then-record, hash upgrade |
| service layer (`service.rs`) | none (systemd, init scripts, /proc) | restart, status | differing back ends |
| display (`tinywifi-display`) | last status, last render | poll, draw | failed render remembered as shown |
| readers (leases, status, metrics, interfaces), config, setup, TLS, features, pages, assets | none to speak of | - | - |

Components interact through files (an ACL edit and a Wi-Fi edit both rewrite
hostapd.conf; the ad blocker and the DNS page nanodns.conf; the VPN and the WAN
resolv.conf), through services (most edits restart one) and through
`AppState.pending`, which hands an armed timer from the request that staged a
change to the request that confirms it. `PROJECT.json` lists every component
with its status, and every hazard at its line with the properties that cover it.

What makes each component correct, in a sentence: a timer fires at most once
and never after a `true` from confirm; an edit leaves either the new
configuration acknowledged or the old one in force; the chain follows the
schedule and the override; the lists in force are those saved; no lease or
record is lost or doubled; enabling and disabling undo each other; `down`
restores what `up` changed; no more attempts are let through than the limit;
the screen shows the current status within its interval.

## 2. The modules

| module | what it is |
|---|---|
| `OneShot` | abstract: what an auto-revert promises to the code that arms it |
| `AutoRevert` | the guard, its thread, the mutex and the flags; implements `OneShot` |
| `AutoRevertProofs` | theorems about `AutoRevert` |
| `CommitConfirm` | abstract: what a safe edit promises: on trial, committed, abandoned, cut short |
| `SafeEdit` | edits, files, services, timers, the map; implements `CommitConfirm` when changes do not overlap |
| `SafeEditProofs` | theorems about its files, services and timers, and that it implements `CommitConfirm` |
| `Schedule` | the ticker, the three requests, the override file, the chain and the clock |
| `MCSchedule` | a week of two days of three minutes for `Schedule` |
| `ScheduleProofs` | theorems about `Schedule` |
| `ConfLines` | a key=value file as a sequence of lines, and its edits, as operators |
| `ConfLinesProofs` | lemmas about those edits, for files of any length |
| `AccessList`, `MCAccessList` | the MAC lists and hostapd.conf, beside a Wi-Fi edit on hold |
| `AccessListProofs` | theorems about `AccessList` |
| `LeaseStore` | abstract: what a table of static leases promises |
| `StaticLeases` | static leases in nanodhcp.conf, beside a DHCP edit on hold; implements `LeaseStore` |
| `NanoDns` | DNS records and settings and the ad blocker, over one file and the block list |
| `Wan` | the uplink: what is saved and what is applied |
| `Vpn` | the tunnels over that uplink: up, down, delete, autostart, restarts; extends `Wan` |
| `VpnProofs` | theorems about `Wan` and `Vpn` |
| `Listings` | the line-by-line readers of `awg show` and of tunnel configurations |
| `Monitor` | monitor mode and the scan |
| `Limits` | the rate limiter and the login bans |
| `Epaper` | the frame buffer and the wire to the panel |
| `MCBackEnds` | the seven above from `StaticLeases` to `Epaper` as one specification |
| `BackEndProofs` | theorems about each of them, from its own specification |
| `Admin` | first boot, certificate, logins, password changes, crashes, and the display's loop |
| `AdminProofs` | theorems about the passwords of `Admin` |

`AutoRevert` is what `SafeEdit` takes an armed timer to be; `SafeEdit` is what
`AccessList` and `StaticLeases` have in three steps as the other writer of their
file; `Vpn` extends `Wan`, with which it shares the default route and
resolv.conf; `AccessList`, `NanoDns` extend `ConfLines`.

### AutoRevert

One element of `Timers` is one `AutoRevert`. `worker` is where its thread is
(`unborn`, `looking` at the flag before it waits or after it was notified,
`waiting`, `elapsed` when the timeout has passed but the mutex is not yet taken
again, `acting` in the rollback, `done`), `cancelled` and `fired` are the flags,
`guard` is where the owner is: a confirm is setting the flag (`cancelling`),
notifying and reading `fired` (`asking`, `told`), a drop is setting the flag
(`dropping`), notifying and `joining`. The critical section and the notification
after it are two actions, so that a worker may begin to wait in between. A timeout
may pass whenever the worker waits, so no bound on time is needed. The
definitions under "A slip" are the mistakes the properties are tried against; no
specification uses them.

### SafeEdit

One element of `Handlers` is a request in progress, one of `Timers` an armed
auto-revert as `OneShot` has it: fire and cancel are single steps here, which
`AutoRevert` justifies. `conf[k]` and `bak[k]` are the file of area `k` and its
`.bak`; `fs::copy` and `fs::write` are each two steps, the truncation and the
filling, and a copy whose source changes meanwhile may end with either content.
A file is abstracted to the settings the edit owns (`set`, empty for a
truncated file) and to whether all other lines are there (`rest`): `apply`
replaces the former in the content that was read and keeps the latter.
`svc[k]` is the content the service was last launched on. A configuration
starts the service when it is complete and its settings are in `GoodSettings`;
on others the launch may fail at once, be reported as failed, or look well until
`wait_until_running` has seen it and end later (`ServiceExits`).

The restart of a rollback is a restart like any other, whose error `revert`
swallows (`let _`, safety.rs:57): `Relaunched` or `NotRelaunched`. What is not
relaunched goes on as it was, on the trial's settings or not at all
(`Unmanaged`), and the history `stale[k]` says so until a restart of `k` is
carried out. `SettledInForce` says that, with nothing unresolved, the file has the
acknowledged content, and that the service is on it unless it is stale.

`pending` is the map and `plock` the request that holds its mutex across a join
(`InsertOver`, `Join`): every other use of the mutex is one step.
`Exit` ends the program at any point. Two variables are history: `good[k]` is
the content acknowledged last (answered `ok` or `confirmed`), and `lost[k]` says
that a change of `k` was cut short by an exit or by a failed write.

`Faults` chooses what may fail: the backup copy, the write, the restore copy,
the restart, of an edit or of a rollback (`refused`: the service is as it was or
down, which is also what a host without service manager answers), and the program itself. `OneAtATime` is a
discipline of the administrators, not of the code: no change of an area is begun
while another of the same area is unresolved, or after one was cut short and
nobody mended the file. Confirms may come at any time, in any number.

What the model takes as given: a complete configuration with good settings
always comes up within the five seconds of `wait_until_running`;
`[services]` of the application config names the services that `wifi.rs`
and `nanodhcp.rs` have as constants (the timer restarts the former, the edit the
latter); deleting a `.bak` does not fail; nobody else writes the files (`AccessList` and
`StaticLeases` have the edits of others); the one interface check and the
validation are refusals before anything is touched.

### Schedule

`Ticker` is the task of `main.rs`; its first pass is the one `main` makes before
it serves, until when no request begins (`serving`). One element of `Handlers`
is a request in progress. `file` is what schedule.json parses to (empty when
truncated or garbled, which `load` takes for the default), `over` what the
override file forces, `blocked` whether the chain has a drop rule. `today` and
`minute` are the local time; `due` says that the ticker's interval has elapsed
in this minute. `apply_schedule` is one sequence of steps for ticker and
request: `ReadClock`, `ReadOverride`, `ClearOverride`, `Compare`, `Recheck` (the check
that `inet_block` and `inet_unblock` repeat) and `Nft`, each a process that is run
or a file that is touched. `plan` and `want` are its locals. A text written over
another request's may leave a file that does not parse (`SaveFill`).

`Faults` chooses among a failing write, `date`, `nft list` (reported as "not
blocked"), `nft add` or `flush`, an end of the process (which keeps chain and
override file) and a reboot (which does not). `since` is history: `pass` or
`request` when what ran last ran alone and met no fault, else `unsure`.

Taken as given: a pass of the ticker is over before the next minute; nobody
else touches the chain or the files; times are valid, which `validate` sees to.
The window of a day is applied to that day, as the code does: the hours after
midnight of an overnight window are those of the same day's entry.

### AccessList

`stored` is acl.json, `accept` and `deny` the two MAC files, `conf` the lines of
hostapd.conf that the list owns and one that it does not (`ssid`). A request
reads the saved list (`Post`, `Block`, `Unblock`), and then does what `save` and
`apply` do in their order: truncate and write acl.json, truncate and write one MAC file and
delete the other, read hostapd.conf, truncate and write it, restart hostapd. It
may fail at each of these places (`Fail`). `loaded` is whom the running hostapd
lets in, computed by `Started` from conf and files as hostapd reads them; {} is a
hostapd that is down. `StageRead` to `Revert` are a Wi-Fi edit on hold.
Two `fs::write` calls may cross: both truncate, and the second to fill writes over
the text of the first, whose lines beyond its own stay behind, the first of them
cut or not (`Over`, `Cut` of `ConfLines`, also for nanodns.conf; `Filled` for the
MAC files; a garbled acl.json in `Store`). `since`, `touched`, `refused` and
`crossed` are history; `crossed` says that this has happened to the conf, and with
it the promise of `LinesOnce` ends. `ListInForce` goes on to hold where the conf is
`Sound`, which a whole rewrite makes it. Taken as given: hostapd takes the
last of repeated keys, and does not start on a conf that is cut or that names a
file that is missing. A truncated acl.json reads as the default, as `load` does.

### StaticLeases and LeaseStore

`dhcp` is the set of `static` lines and a version of the other settings. `Add`
and `Remove` are the handler up to the write (load, look for a duplicate,
edit), `Truncate` and `Fill` the write, `WriteFails` its error. A line has a form:
plain; with its MAC or its name padded, which parsing trims and writing does not;
or with a comma in the name, which does not parse (`Parsed`). A padded MAC passes
the duplicate check, and removing a line of any but the plain form answers ok and
removes nothing. `void` is history: requests have overlapped, a write was cut
short, or such a line was sent. `LeaseStore` is
three operations on a set (add, remove, and a save that a rollback goes
back to) and says that void ends the promise.

### NanoDns

`dns` is the lines of nanodns.conf; `Put` is `update_dns_settings`, `Read`
`get_dns_settings`. `Toggle`, `AdGet` and `AdPut` are the ad blocker, which reads
the settings, changes one and has them written, once per change it was asked
for. `blocklist` is the list file with its own three actors: a download, whose
lines are written one by one, and adding and removing a custom domain. A record
may be sent oddly written, its type in lower case or a blank behind its name
(`Odd`): it is found by no duplicate check and removed by no removal; `oddSent` is
the history that says so. Writes may cross as above (`crossed`). These two void
`RecordsUnique`, and nothing else does: a request writes the lines it has read and
checked, so an overlap that does not cross loses a record but doubles none.
`asked` is the settings there should be after the last request, as long as it is
one that runs, or ran, alone: `SettingsAsAsked` holds them against the file, whatever
earlier requests left there; `LoneWritesKeepRest` says of the same requests that
they keep what they have not been asked about. `listMixed` says that
writers of the block list overlapped and voids `DomainsOnce`.
One download runs at a time.

### Wan and Vpn

Every command of `wan::apply` and of `tunnel_up`, `tunnel_down` and
`delete_tunnel` is an action or, where nothing can see the state between them,
part of one; each may fail. `gw`, `table`, `rules`, `viaWan` and `ifaces` are the
kernel's: the default route, the VPN table's, the policy rules, the routes of
the bypass list and the interfaces. `resolv` says who wrote the name servers.
`backup`, `routeState`, `autostart`, `saved` and `confs` are files.
`gw` is a route by an interface, of which there are several: udhcpc leaves one by
another interface or not, a static post replaces any, and `dialer` is the pppd
that `apply_ppp` starts and that connects when it likes (`Connect`), however old
the post and whatever was applied since, because only another ppp post ends it.
`WanInForce` therefore speaks of static configurations, and until that happens: a
success of dhcp or ppp says nothing about the route.
`Start(reboot)` ends whatever runs and starts the service, which brings the
autostart's tunnel up; a reboot takes the kernel's state and /tmp and keeps /etc.
`userspace` is a kernel without the module, where `kill_awg_go` ends every
daemon and with it every tunnel. The copies of resolv.conf, the note of the bypass
routes, the autostart's file and the removal of a configuration may fail, the
first two unseen. `lost` is the history of what `down` cannot undo any more of name servers
and routes: a copy or note that failed, a copy taken of a VPN's own resolv.conf, an up
over noted routes, a userspace tunnel that went with another's daemon. It excuses no
rule that stays. `NothingLeft` speaks of all else, a plain reboot with a tunnel up
included.
Taken as given: the kernel refuses a route or rule that is there and takes an
interface's routes with it.

### Listings, Monitor, Limits, Epaper

`Listings` reads a text line by line with both parsers; a value stands for the
number of its line. `PeersInPlace` says from the text alone what each list must
hold: exactly the lines below its heading and before the next, in their order. What
is in hand when the text ends is put away by a step of its own (`FinishShow`,
`FinishConf`), and the property is about the lists after it.
`Monitor` has the commands outside and the state inside the lock, as the code
has them. `Limits` counts time in ticks, has one address (addresses share
nothing but the lock), and keeps per-tick histories of what was let through.
`Epaper` has the buffer, each byte on the wire and the panel's counters; the
panel is external and modelled from the commands it is sent.

### Admin

`server` is where the start is (`off`, the steps of `auth::init` and `tls::init`,
`bind`, `serving`, or `redirect`: `main` waits for both servers, so one whose port
is taken leaves the service alive with the redirect alone). `auth`, `marker`,
`initial`, `cert` and `key` are files; a file may be `cut`. The hash may not be
written, which skips marker and display file; writing and removing these two may
fail and nobody looks (`Done`, `NotDone`; `missed` remembers which). `End` is every
way the service ends: killed at any moment, or an early return of `main`. Nothing in
the repository starts it again, so `AuthInit` has no fairness. A request verifies
the password it was sent, and then either changes the hash (`TruncateAuth`,
`FillAuth`, `Unmark`, `Unshow`) or, after a login, upgrades it (`Rehash`).
`DrawSetup` and `DrawStatus` are a pass of the display's loop, `due` its ten
minutes, `news` and `panel` what the environment does: another status, a panel that
works or not. `acked`, `missed`, `interrupted` and `muddled` are history: the password
written last and whether somebody has chosen it, the operation on marker or display
file that failed last, a hash file that was left cut, and a change that
overlapped another or a re-hash.

## 3. The runs

| run | shows | instance |
|---|---|---|
| `autorevert` | `VerdictIsFinal`, `ImplementsOneShot`; `DropReturns`, `UncancelledFires` | 2 guards, unbounded time |
| `safeedit_serial` | `BaselineKept`, `SettledInForce`, `ImplementsCommitConfirm`, `HoldSettles` under `OneAtATime` | 1 area, 2 requests, 2 timers, 2 good settings and 1 bad, 2 edits with and without hold, all faults but the restore's (44,056 states) |
| `safeedit_overlap` | `ArmedIsReachable`, `EveryRequestAnswered` with no discipline | 1 area, 2 requests, 2 timers, 2 holds, failing restores (219,197 states) |
| `hold_over_hold` | violated: `RevertRestoresAcknowledged` | 1 request, 2 edits, no fault |
| `write_fails` | violated: `FailureRestores` | 1 request, 2 edits, failing writes |
| `schedule` | `Enforced`, `OverrideConsumed`, `OnInsideWindow`; `Converges` | 2 requests and the ticker, 2 days of 3 minutes, 2 schedules (a daytime, an overnight, an empty window, an inactive day), all faults, 2 events |
| `override_holds` | violated: `OverrideHolds` | 1 request, no fault |
| `access_list` | `ListInForce`, `LinesOnce`, `OtherLinesKept` | 2 requests, 3 of them over a behaviour, 2 clients, a Wi-Fi edit on hold any number of times, all faults |
| `revert_brings_back` | violated: `RevertBringsBack` | 1 request, 2 edits, no fault |
| `block_is_refused` | violated: `BlockIsRefused` | 1 request, 2 edits, no fault |
| `back_ends` | `LeasesUnique`, `ImplementsLeaseStore`; `RecordsUnique`, `SettingsAsAsked`, `LoneWritesKeepRest`, `DomainsOnce`; `WanInForce`, `TrafficInTunnel`, `NothingLeft`, `AutostartNamesTunnel`; `ScanOnlyWhenOn`; `SpansBounded`, `BanHolds`; `FrameShown`; `PeersInPlace` | 2 requests; 4 lease edits on 2 MACs and 2 addresses; 3 DNS edits, of which the first 2 may overlap, 1 domain and 2 in a download; 3 operations on 2 tunnels and 2 uplinks; 1 adapter; windows of 3 ticks, bans of 5, limits 2 and 3; a frame of 4 by 2; texts of 5 lines |
| `admin` | `ChangeSticks`, `FirstPasswordKnown`; `ComesToServe`, `ScreenForgets` | 2 requests, 3 over a behaviour, 2 mishaps; who changes the password chooses one of their own or the first one |

Bounds. `MaxEdits = 2` is what an interference of two changes needs: one to set
a `.bak`, a timer or a map entry up and one to meet it; after two resolved edits
the state is again the initial one with another `good`. One area is enough for
these runs because areas share nothing but the lock of `pending`, which the
proofs cover for any number of areas. Two requests give every pair of edit and
confirm, or two confirms; two timers give replaced and replacing. Two good
settings tell old from new, one bad one makes launches fail. There is no
symmetry reduction: the runs check liveness or are small.

In `access_list` three requests are one that leaves a state behind (half done,
or of another mode), one to overlap it and the one the property is about; two
clients tell who is on a list from who is not. Requests and clients are alike
there, and in `back_ends` requests: nothing names one, and no liveness is
checked. `back_ends` moves one component per behaviour, chosen at the start by
`focus`: the components share no variable with one another (`Wan` and `Vpn`,
which do, are one), so any run of all of them is seven runs side by side. The
requests for nanodns.conf, with the downloads they start, and those for the block
list are two choices: they touch different files. Four
lease edits are two to fill the table and two to race; a lease request that
voids the promise of the store ends the search of that behaviour (`NotVoid`), of
which no property says more. Three operations on tunnels are an up, what
disturbs it and a down; the window of three ticks has a beginning, a middle and
an end. A ban outlasts two windows, as in the code (10 attempts in 60 s, bans of
300 s; `LimitsAssumption`), so that no failure from before a ban is still
counted after it. A frame of two rows of two bytes has every neighbour a byte
can have; its width is a multiple of a byte's pixels, as 128 is of 8
(`PanelAssumption`). Five lines hold two headings, a key after each and one in
between. Of `admin`, a mishap is an end of the service or a port it does not get: two are
one in a start and one in the start after.
Operations that are bounded end, so `back_ends` and `admin` do not check for
deadlock.

In `schedule` an event is a request, a fault or a restart; two of them give two
requests that overlap each other and the ticker, or a request and what breaks
it. The proofs of its safety properties are free of that bound and of the
others. Three minutes put a minute before, at and after every end of a window;
two days tell today's entry from tomorrow's.

Fairness. In `AutoRevert`, worker threads run, the rollback action ends and calls
in progress proceed; nobody is made to arm, confirm or drop. That a timeout passes
is not part of it, so `DropReturns` says that a drop does not need the deadline;
`UncancelledFires` assumes it in its own antecedent (`WF` of `Elapse`). In `SafeEdit`, a request proceeds under strong fairness because it may
wait for the lock of `pending` while others take it in turn: parking_lot hands a
contended mutex over fairly from time to time, so a waiting thread gets it. Every
other step of a request stays enabled until taken. Timers are weakly fair.
In `Schedule` work begun goes on, the interval fires and time passes (weak
fairness: no step is taken away by another actor). No request has to arrive, no
process has to die, no fault has to happen.
In `Admin` a start that was begun and a request that was begun run on, the display
looks again and again, and ten minutes pass (weak fairness). Nobody has to log in,
nothing has to end, no status has to change and no panel has to work; and the
service does not have to be started. `ComesToServe` is stated of a device on which
something does start it (`WF` of `AuthInit` is its antecedent): busybox init as the
repository configures it does not. `ScreenForgets` is stated of a panel that works
from some time on.
Deadlock checking is off in `autorevert` too, where guards that are gone do
nothing more; in `SafeEdit` a confirm can always arrive when requests are idle,
so a deadlock would be a real one.

What the five violations say. In `hold_over_hold` an administrator stages a
change, and stages another before confirming: the single `.bak` is overwritten
with the unconfirmed configuration, or is being written when the first timer
fires and copies it. The auto-revert then puts back something the
administrator never confirmed, in the worst case an empty file, against the
README of the program ("Safe edits"). In `write_fails` the disk error of
`fs::write` is returned at once, with the file truncated and the backup unused,
against the doc of `update_dhcp`. The first two disagreements stay inside the bounds the
other runs use; `AcknowledgedIsKept` and `RevertIsFaithful` below say exactly
what excludes the first. In `override_holds` the schedule has come to agree with
the override; the tick has read it and is about to remove it when a request
writes the opposite one, which is removed instead. The request is answered with
success, and the next tick undoes it, against the doc of `set_override`.
In `revert_brings_back` the mode is whitelist and hostapd.conf names
hostapd.accept; a Wi-Fi change is staged, whose .bak names it too; in the hold the
mode is changed to disabled, which deletes the file (acl.rs:92); the auto-revert
restores the .bak, and hostapd is down. In
`block_is_refused` the mode is whitelist, and the quick block of the leases page
adds the client to the list of those let in.

What the exceptions in the properties say. A property that excludes something
does so because it fails there, and the exclusion is as narrow as TLC allows:

- overlap of requests on one file (`crossed`, `listMixed`, `void`, `mingled`, `since`):
  there is no lock, what was checked is stale when it is written, and the later
  write wins;
- crossing writes (`crossed`): two `fs::write` calls on one file leave a mix of both
  texts, in which a key or a record may be twice;
- `SettledInForce` (`stale`): a rollback whose restart was refused leaves the service
  where it was, and the request's answer, or the timer's silence, does not say so;
- `LeasesUnique`, `RecordsUnique`: a line that parses otherwise than it is written (a
  padded MAC, a blank behind a name, a type in lower case) passes the duplicate
  check, so one such line voids the promise. `remove_static_lease` and
  `remove_dns_record` answer ok for it and leave it;
- `ListInForce`: a failed write leaves hostapd.conf cut, and later ACL edits build
  on what is left (not `Sound`);
- `NothingLeft` (`lost`): bringing a tunnel up while resolv.conf is a VPN's own copies
  that over the saved one; a copy or a note that fails does so unseen; a userspace
  tunnel that goes down takes all others with it (`kill_awg_go`). `mingled` is two
  requests at once, or a service that starts in the middle of one;
- `WanInForce`: the saved configuration is applied when it is posted, not at boot;
  only a static one says by its success that the route is its own;
- `AutostartNamesTunnel`: a deletion that fails between its two files;
- `ChangeSticks` (`muddled`): a login that is replacing a heavy hash writes the password it had
  checked over one that a change has set meanwhile;
- `ComesToServe`: a certificate file that a crash has cut, beside a whole one, is
  never made anew, and every start ends with an error. A service that got no port but
  the redirect's counts as started, as it does for whoever looks at the process;
- `FirstPasswordKnown` (`missed`): a first boot that ends after the hash, or cannot write
  the display file, leaves a password nobody knows, and only deleting the file helps;
  a file that could not be removed keeps a password that is no longer true. Whoever
  chooses the generated password again has chosen one: it is taken off the display
  all the same;
- `ScreenForgets` says only that the password goes in the end: when drawing the
  status fails, it may stay for the ten minutes to the next try.

## 4. The proofs

All theorems hold for any sets of timers, areas, requests and settings, any
number of edits, and any choice of faults unless said otherwise. Every safety
property that a passing run checks is the conclusion of one. The assumptions are those
that the modules state of their constants; each says what the type of a constant
is, or (`LimitsAssumption`, `PanelAssumption`) a relation that the code's own numbers
have. TLC evaluates them in every run.

`AutoRevertProofs`: the types (`AutoRevertTypes`), `ConfirmIsFinal`
and the refinement `RefinesOneShot`. The inductive invariant `Safe` adds to the
property what ties the flags to the places: `fired` is set exactly when
the worker acts or has acted, a worker that is done without `fired` was
cancelled, a verdict of `cancelled` goes with the flag set. The refinement maps
initial states and each action to a step of `OneShot` or a stutter.

`SafeEditProofs`: the types (`SafeEditTypes`), one lemma per group of
actions, and under `Serial` (one change of an area at a time, restores do not
fail) `AcknowledgedIsKept` and `RevertIsFaithful`. `BaselineKept` is not
inductive: it does not say which of the two files holds the acknowledged
configuration when, nor that no second actor is about to overwrite it. The
inductive invariant `Guarded` says that every area has at most one owner
(`Alone`: a request in an edit, a timer from arm to clean-up, or a request that
is accepting a confirm), and what file and `.bak` hold at each place of the
owner (`Stage`) and when there is none (`Rested`). Ownership moves from request
to timer (`Arm`) and back (`CancelInTime`), which needs the map to hand a
confirm a timer of its own area and an insert never to cancel a live one
(`Filed`, `OneEditor`). Two lemmas carry most of the work: a step of an owner
disturbs no other owner (`OwnerMoves`), nor does a step of a bystander
(`BystanderMoves`).

The second part of `SafeEditProofs` is about services and timers.
`ArmedStaysReachable` needs no discipline at all: `ArmedIsReachable` is
inductive given the types, because a guard enters and leaves the map in one step
under its lock and what an insert replaces is cancelled in that step. The other
two hold under `Serial`. `SettledIsInForce` speaks of the service, which
`Guarded` does not; `Traced` adds on what the service was launched at each place
of the owner (`Trace`), that a `.bak` is empty or the acknowledged content
(`Area`), that an area nobody owns has its acknowledged configuration in force
or was cut short (`Unowned`), all but the service where a restart was swallowed
(`stale`), and that a request about to file its guard shares
the change with that timer and nobody else (`Paired`). `Paired` survives a
confirm only because a guard is in one place (`Held`).
`HoldsImplementCommitConfirm` is the refinement: from these invariants what the
mapping reads off the two files is the acknowledged content, and all who work on
a change of an area agree on what it is (`Mapped`). Then each action is a trial
(`Load`), a commit (`CommitNow`, `Accept`), an abandonment (a failed backup, a
write that did not start, the end of a rollback), a cut (`Exit`, a write that
fails half way) or a stutter; the request that leaves after filing its guard may
be either of two, as the timer may have abandoned the change before it.

`ScheduleProofs`: the types (`ScheduleTypes`), `WindowsAreWalks` (from the lemma
`WindowIsWalk`, pure arithmetic), `ChainIsEnforced` and `OverrideIsConsumed`.
The two safety properties speak of states at rest only. The inductive invariant
`Inv` says how far the one actor that runs alone has got (`Progress`: the
schedule it has in hand is the one in the file, what it wants is what file,
override and clock ask for), that there is at most one (`OneRuns`), and that time
does not pass under the ticker (`PassInMinute`). `BusyStep` reduces each action
to the progress of the actor that takes it; a fault or an overlap makes `since`
unsure and leaves nothing to keep.

`ConfLinesProofs`: what the edits of a key=value file do, for files of any length.
`ConfLines` drops lines with a recursive function (`Kept`), so facts about it need
induction over the lines. The library's induction theorems take an operator as
parameter and cannot be used; induction comes instead from the least element of
a set of natural numbers (`LeastNatural`, by the well-foundedness of `<`), applied to
the set of numbers of which a fact holds (`NatSetInduction`, `SeqSetInduction`). From
it follow which places `Kept` keeps (`KeptAgrees`, `LinesInPlaces`), and from those what
an edit does to the lines of the key it is for and to all others
(`SetLineKeys`, `SetLineElsewhere`, `RemoveKeyElsewhere`, `RemoveOnceCases`).

`AccessListProofs`: the types (`AccessTypes`), `ListLinesOnce`, `SavedListInForce` and
`OtherLinesStay`. `LinesOnce` speaks of the conf; any text that may become it has to
be as tidy: what requests hold, the draft of the Wi-Fi edit, its `.bak` (`ConfsTidy`),
until writes have crossed.
For `ListInForce` the invariant `Safe` adds how far a request that runs alone has
come (`Progress`), who runs and in which part of a hold (`Discipline`), and that
whatever an edit, its rollback or a restart may put in force is right for the
saved list (`InForce`). Two facts carry the steps: an edit of the list's keys
makes a conf right for the list (`EditedIsRight`), and hostapd started on a right
conf lets in whom the list lets in (`StartedOnRight`).

`VpnProofs`: the types (`VpnTypes`), and an invariant for each of the four properties.
`WanSafe`: a request that runs alone has its own configuration saved, and on the way
to the kernel (`Applying`). `TrafficSafe`: an up that runs alone has interface, route
and rules by the time it comes to the bypass list, and nothing else moves them.
`AutostartSafe`: what the autostart names has a conf, or is being deleted by the
one request at work. `NothingSafe`: all there is belongs to the one interface there
is, the copy of resolv.conf among it, which is never a tunnel's own
(`DnsKept`, `RoutesOwned`), and each step of up and down finds what those before it
have left (`StepFinds`, `StepKeeps`). `UplinkAsSaved`, `TrafficByTunnel`, `NoTunnelNoTrace` and
`AutostartHasConf` in `BackEndProofs` state the results under the names the run uses.

`AdminProofs`: the types (`AdminTypes`), `ChangedPasswordSticks` and
`GeneratedPasswordKnown`. The latter rests on `Known`, which needs no condition: how
far a first boot has got (`BootSafe`), that marker and password in the clear go
together but for the steps in between and the operations that failed (`ShownSafe`),
and that the password generated is the one on file until one is chosen
(`FirstSafe`). `Safe` says, as long as no file was left cut and nothing was muddled,
that a change runs alone (`ChangesAlone`), what the file holds at each step of a
change or a re-hash (`FileSafe`), and that a login will write only the acknowledged
password (`HandsSafe`).

`BackEndProofs` has one part for each of the others, from its own specification:

- Static leases (`LeaseTypes`, `StaticLeasesUnique`, the refinement
  `LeaseFileIsStore`). `LeasesUnique` speaks of the file; what a request has in hand,
  what the DHCP edit has read and the `.bak` all come into the file later:
  `UniqueEverywhere` says the same of all four. The refinement needs `Orderly`:
  while the promise holds, one request writes at a time, what it has in hand is the
  file with one lease more or less, and a DHCP edit between its read and its write
  has read the file as it is.
- Monitor (`ScansOnlyWhileOn`): who is to put an adapter on record holds one.
- Bans (`BansHold`): `BanCounted` counts the logins past the check of the ban. It is
  there that a ban proves to hold but for one login less than there are requests.
- Rate limits (`SpansStayBounded`): `Counting` relates a fixed window's counter to the
  history of the last ticks, of which a window covers the newest; what came before
  is bounded by the window before it. `BanWindows` does so for failed logins,
  where a ban starts the history anew. The sums over the history are a recursive
  function, reasoned about as above.
- nanodns.conf (`SettingsAreAsAsked`, `NamesStayUnique`, `LoneWritesKeepTheRest`):
  `ZoneSound` says of every text that may become the file what `NamesStayUnique` says of
  the file, `ZoneAsked` that what a request that runs alone has in hand, at each of the
  ad blocker's two rounds, leads to the settings asked for. The edits are those of
  `ConfLines`.
- Block list (`BlockedOnce`): `ListAlone` keeps apart what is in the list and what is
  still to be written.
- Panel (`FramesAreShown`): `ScreenInv` says that byte `n` of the buffer goes where
  the counters stand (`AtByte`) and that panel memory and buffer agree up to there
  (`Holds`). The property speaks of pixels: `PaintedBits` says what a drawing leaves in
  a bit, for drawings of any length.
- Readers (`PeersComeInPlace`): `ReaderInv` says of what is finished that it is
  closed by a heading (`EndedPeer`, `EndedIface`), of what is in hand that it is the
  last one, and that together they are all there is so far (`PeersBefore`,
  `FinishedBefore`).

Only model-checked is liveness, since fairness and ENABLED are out of the prover's
reach: `DropReturns` and `UncancelledFires` of `AutoRevert`, `HoldSettles` and
`EveryRequestAnswered` of `SafeEdit`, `Converges` of `Schedule`, `ComesToServe` and
`ScreenForgets` of `Admin`.

## 5. Not modelled, and the plan

`PROJECT.json` gives the reason for each component. What stays out:

- pages and assets (`pages.rs`): text with no state on the server;
- the service layer: it runs the manager's commands and reads /proc. Its
  callers' models have restarts that succeed, fail or are refused;
- leases, status, metrics, interfaces: readers, each call a parse of a file;
- feature switches and the application config: read, or written whole;
- of nanodhcp, the address arithmetic of `validate`; of the tunnels, the decoding
  of vpn:// links, key generation and the sizes and ages in listings; of the
  display, glyphs, icons and the layout of the status; of authentication, the
  session map (inserted, looked up, removed; a password change leaves sessions
  as they are).

What the plan has left, most useful first: abstract specifications of the tunnels
and of the passwords, and proofs that `Vpn` and `Admin` implement them; the session
map; `validate`'s range arithmetic on 32-bit addresses; the service layer as a
component of its own between the models and the processes.
