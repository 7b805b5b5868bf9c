# Verification of uBMC

uBMC is the firmware of a baseboard management controller: a small Linux system
with two software banks, a configuration daemon (`is_mgmtd`) that every front
end talks to, an IPMI daemon that watches the host and keeps its event log, and
helpers for the console, the fans and the host's power.  The modules in this
directory specify the parts of it that are hard to test, because they depend on
when the power goes, on which thread comes first, or on what a client does while
it should be waiting.  TLC checks the specifications on small instances, and
TLAPS proves the most important properties for every value of the constants.

Contents: [running](#running), [inventory](#inventory), [modules](#modules),
[runs and bounds](#runs-and-bounds), [proofs](#proofs),
[where the code departs](#where-the-code-departs-from-what-it-promises),
[not modelled](#not-modelled), [plan](#plan).

## Running

    tlc -config bank_safe.cfg MCBankUpgrade     # one run; see the table below
    tlapm BankUpgrade_proofs.tla                # the proofs of one component

`PROJECT.json` lists the components, the runs, the mutants (a plausible bug for
every checked property, which TLC must catch), the source lines of every
definition, the hazards and the theorems.

## Inventory

Paths are below `src/`.  *State* is what the component keeps, *hard* is what
tests hardly reach, *correct* is what would make it right.

| component | state and operations | interacts with | hard | correct |
|---|---|---|---|---|
| Dual-bank upgrade: `base/rootfs/usr/sbin/is_upgrade.sh`, `product/ubmc/rootfs/etc/product/UBMC/upgrade/upgrade_ops` | two flags in raw eMMC blocks, two banks; upgrade, switch, confirm | u-boot (flags), `is_mgmtd` (boot action `check-upgrade`) | power cuts between any two writes, failing writes, a restart of the daemon | the device always comes up again; an untried image is only tried, a failed one is left |
| u-boot trial boot: `product/ubmc/hardware/*/uboot/patches` | reads both flags, decides, writes them back, starts a bank | `is_upgrade.sh` | the same | a failed trial reverts to a bank that works |
| `is_mgmtd` server: `base/src/silc_mgmtd/lib/silc_mgmtd_connect.c`, `mgmtd/src/silc_mgmtd_daemon.c` | connections with reference counts, receive queue, request lists; accept, receive, close, dispatch, answer, time out | clients over TCP, worker threads | messages outlive connections; time-outs race answers | counts exact, nothing used after free, every request ends |
| Node locks and requests: `mgmtd/src/silc_mgmtd_memdb.c`, `silc_mgmtd_operation.c` | tree of nodes, a mutex and a reader count per node; query, add, modify, delete, action, notify | workers of the server, callbacks into the system | lazily made locks, polling writers, deletes under other threads | writers alone, counts exact, tree closed, nobody stuck |
| Configuration files: `mgmtd/src/silc_mgmtd_config.c`, `base/rootfs/etc/init.d/S45is_mgmtd` | file, checksum, backup, "unsaved" flag; save, load, back up, recover | the tree, the start-up scripts | power cuts between commands, changes during a save | what was saved is what is loaded; a bad configuration does not lock the device out |
| Client library: `lib/silc_mgmtd_interface.c` | sequence number, receive list; synchronous requests, notifications | the server | an answer that comes after the time-out | an answer is matched to its request |
| System event log: `product/ubmc/src/is_ubmc_ipmi/lib/ubmc_ipmi_sel.c`, `ubmc_ipmi/ubmc_ipmi.c` | log file, next id, enabled flag, mutex; record, shift, restore, clear | sensor and main threads, a signal handler, the kernel list | power cut in the middle of a shift, two threads and a signal on one `FILE` | the file is always a log that reads back; the host reads that log |
| Kernel list of records: `product/ubmc/hardware/ti/kernel/patches/linux-ti-001-ubmc_ipmi-i2c.patch` | list of records; add, renumber, clear, Get SEL Entry | event log (ioctl), host (IPMI over I2C) | renumbering at the limit | the list is the file |
| Sensors: `is_ubmc_ipmi/ubmc_ipmi/ubmc_ipmi_pm_*.c`, `ubmc_ipmi_check_st.c` | tables per product, polling | event log, hwmon | thresholds with hysteresis | one event per crossing |
| Host power: `is_console_manager/ubmc_system_ctrl/*.c` | lock file, button pins, status file; on, off, force off, cycle, reset, query | the host, fan control, front ends | time-outs, the death of the tool while it holds a button | buttons are released; the status tells what happened |
| Console manager: `is_console_manager/console_manager/is_con_mgr.c` and its clients | buffers, one network client, which source is shown | serial lines, Unix socket, message queue | buffers drained at different speeds, a client kicked out while it writes | no byte out of order; one client at a time |
| Fan control: `is_ubmc_ipmi/ubmc_fan_control/ubmc_fan_control.c` | pwm, mode; read the temperature, set the pwm, power off | power control | sequences of temperatures | hot means fast, too hot means off |
| Dying gasp: `product/ubmc/src/dying_gasp/src` | trap hosts, process ids taken at start-up | SNMP, `/var/log`, the supply's GPIO | one second to live | the log partition is clean |
| EEPROM tool: `is_console_manager/eeprom_op/eeprom_op.c` | the TLV area; add, delete, check | none | lengths at the limit | a valid area stays valid |
| Front ends: CLI, NETCONF, web | none of their own | client library | - | - |
| Start-up scripts, other patches, vendored code (buildroot, libedit, PAM, LuCI) | mounts, drivers | - | - | - |

How the parts meet.  The upgrade script and u-boot share only the two flags: every
write is one step, the machine may die in between, and a flag the script has written
may still be in the page cache then.  The start-up script of `is_mgmtd` closes the
circle: a bank whose daemon comes up confirms the upgrade, one whose daemon does not
is rebooted, and u-boot then takes it for a failed trial.  In `is_mgmtd` a socket
thread hands messages to one loop, the loop hands each request to a worker of its own,
and workers meet only at the locks of the nodes.  In `is_ubmc_ipmi` a sensor thread
and the main thread write one file, a signal handler empties it, and the kernel
answers the host from a copy.  Changes of the configuration leave `is_mgmtd` as
notices; the console manager and dying gasp reload on them.  `ubmc_sys_ctrl` is one
process per request, and the fan control is one of its callers.  The console manager
is one loop; its clients reach it through a socket, two words of shared memory and a
message queue.

## Modules

| module | stands for | abstract specification | proofs |
|---|---|---|---|
| `BankUpgrade` | the upgrade and the trial boot | `TrialBoot` | `BankUpgrade_proofs` |
| `MgmtdServer` | connections, queue, loop, workers | - | `MgmtdServer_proofs` |
| `NodeLock` | locks of nodes and what requests do to the tree | - | `NodeLock_proofs` |
| `ConfigStore` | files of the configuration: save, load, back up, recover | - | `ConfigStore_proofs` |
| `ConfigWatch` | client library, registration and notices, two clients | - | `ConfigWatch_proofs` |
| `SelLog` | the event log, its file and its kernel list | `EventLog` | `SelLog_proofs` |
| `HostPower` | the host's power, with the fan control as a caller | - | `HostPower_proofs` |
| `ConsoleMux` | the loop of the console manager and its clients | - | `ConsoleMux_proofs` |

Each `MC...` module gives a specification its instances for TLC.  What the
environment, or another thread, may do wrong is expressed in one of two ways.
`Faults` (bank, server, log) is a set of named steps that are allowed; with
the empty set it is the program used as intended.  `mishaps`, `missed`, `remade`,
`misled`, `stuck`, `orphan`, `ring` and `noisy` are history: the steps are always
allowed, and a property names what it is not promised after, so that the list is
complete for the steps of the model or TLC finds another way.  Where only the number
matters (`ConfigStore`, `HostPower`), `MaxMishaps` bounds it.  Operators whose comment
begins with "Mutant" are wrong variants of the operator below them; no
specification uses them.

### BankUpgrade

| variable | code |
|---|---|
| `boot`, `upg` | the flags at `software_boot_flag_addr` and `software_upgrade_flag_addr`, as they are read |
| `saved` | the two flags on the eMMC: `is_upgrade.sh` writes them with `dd` and does not sync |
| `bank` | the contents of the two system partitions: an image, or `Torn` |
| `running`, `stage` | which bank was started and how far the boot is |
| `nboot`, `nupg` | `flags[]` of `silicom_autoboot_mmc`, before they are written back |
| `step`, `op`, `pkg`, `new` | where each `is_upgrade.sh` is, its operation, its package, `new_boot_flag` |
| `failed`, `mishaps`, `cuts` | history: banks u-boot gave up; the faults that struck; power cuts so far |

`UBootDecide`, `UBootWriteBoot` and `UBootWriteUpg` are the autoboot function, one
step for each write; `Begin` to `SetUpg` are the steps of an upgrade or switch up to
its end; `StartUp` is `is_mgmtd` coming up and running `is_upgrade.sh -C`.  A package
is an image or `Vendor` (a vendor file without software).  Two constant sets say what
an image is worth: `Starts` are those whose user space starts, `Good` those of them
that bring `is_mgmtd` up.  `HungReset` is `wait_mgmtd_up`, which reboots a system of
the first kind after 300 seconds.  Nothing in the repository resets a bank that does
not get that far, or a torn one: u-boot stays at its prompt, or the kernel stops,
until somebody turns the device off and on (`TurnOff`, external).  `Recovers` says so:
such a trial waits for that hand, and all else comes up by itself.  `WriteBack` is the
kernel writing a flag to the eMMC, in any order; the sync at the end of a copy and of
a reboot writes both, and a power cut loses what is not written.  `ErrorQuit` is
`error_quit` at the steps that may fail.  Faults: `cutInUpgrade` and `cutInUboot` let
the power go between two flag writes, `lostWrite` before a flag is written back,
`flagError` lets the second flag write of a script fail, and `restart` lets `is_mgmtd`
be restarted while an upgrade is pending.  `mishaps` records those that struck (and an
upgrade without software), so that one run with everything allowed can say which of
them a property does not survive: `GoodBankSurvives` excepts `flagError` and
`restart`, `FailedTrialNotRetried` excepts `cutInUboot` and packages without software.

`TrialBoot` knows no flags: one bank is committed, a trial may be armed, tried,
and then committed or rolled back.  `Committed` and `Phase` are the refinement
mapping; within the window between two writes `Committed` is the bank
the flags *will* stand for, which is why a cut in a window breaks the refinement.

### MgmtdServer

`conn`, `uses`, `queue`, `requests` and `late` are the connection list with
`msg_use_counter`, `msg_recv_list`, `request_list` and `req_tmo_list`; `at` and
`cur` are the program counter and the message of
`silc_mgmtd_daemon_request_loop`; `running` are the workers.  What the code does
under `conn_lock` is one step.  `ConnClose` is the whole of the close: it frees
every queued message (of all connections, as the code does) and frees the
connection if nothing refers to it.  `Free` is `silc_mgmtd_net_msg_free` with its
test as it is written.  `fate` is history.  Faults: `close`, `giveUp` (a client
stops waiting and sends the next request), `noNode`, `slow`.

### NodeLock

`alive` is the tree below `/config` (its shape is given by `Parent` and `Under`),
`p_lock` the lock of each node by the thread that made it, `holder` who holds
each mutex ever made, `rlocked_cnt` the count of readers.  `TestLock` and
`MakeLock` are the two halves of the lazy creation in
`silc_mgmtd_memdb_find_config_module_node`; `TryLock`, `CountIn`, `LockToLeave`,
`CountOut` are `r_lock` and `r_unlock`; `WriteLock`, `NoReaders`, `Poll` are the
loop of `w_lock`; `AddNode`, `DeleteNode`, `WriteUnlock` are the writers' work, and
`Report` the look into the unlocked node for the text of an error.  `++` and `--` of
the count are not atomic: `CountsTo` may lose a change when another thread counts
there, and that it never does is what the mutex is for.  Each thread handles one
request, any of `Requests`.

Nothing keeps two threads from being the first on a node, nor a delete from freeing
a node that another thread has found, so both happen in every run.  `remade` keeps
the nodes whose lock was made a second time, and a thread whose node was freed is
left at `dangling`: what it does with freed memory is not followed.  The properties
speak of `Kept`, the nodes whose lock was made once, while no thread dangles
(`Intact`), and of nothing else: what they show is that these two are the *only* ways
in which the locks fail.

### ConfigStore

| variable | code |
|---|---|
| `file` | `is_mgmtd.conf`, its checksum, the backup and its checksum on `/config` |
| `past`, `fresh` | the journal: states since the last `sync`, files written since |
| `shell` | the commands each process has still to execute, one `system()` line |
| `phase` | `S45is_mgmtd` and the start of `is_mgmtd`, up to serving requests |
| `mem`, `unsaved`, `lock` | the data base, `s_silc_mgmtd_memdb_config_unsave`, `write_lock` |
| `worker` | where each request (save, load, remove, change) is |
| `owed`, `lastGood`, `spoilt` | history, see below |

`SaveLine`, `LoadLine`, `BackupLine` and the others are the lines of commands as the
code composes them, and `Run` executes one command of a process.  `SaveFails` is a
save whose configuration cannot be written to `/dev/shm`.  `WaitOver` is the end of
the two seconds that `is_mgmtd` waits for a line, after which the line runs on.
`CheckBackup` to `Up` are `validate_conf`, the start of the daemon and
`wait_mgmtd_up`; `FallBack` and `Reboot` its failure.  `PowerCut` goes back to any
state since the last `sync` and may leave any file written since incomplete.  `owed`
is the configuration that a completed, undisturbed line has promised its user (or
any); `spoilt` says that lines have mixed since the last start.

### ConfigWatch

The other side of a change.  A client (`console` is the console manager, `gasp`
dying gasp) has a main thread and a thread for notices, a connection for requests and
one for notices.  `sequence`, `outBuff`, `inbox` are `curr_sequence`, `send_buff` and
`msg_recv_list` of its request connection, `notices` the list of the other,
`hooked` its `notify` handler, `have` the version it works with.  At `is_mgmtd`,
`worker` goes through the callback of a change (`Modify`, `Delete`), formats its
notice in the one `sendBuff` and sends it; `registration` is the notify path of the
connection.  `TakeSequence` to `Install` are
`silc_mgmtd_if_req_send_sync_inner` and what the caller does with the answer.
`is_mgmtd` may answer in any order, late, with an error or never.  A lost connection
(`LoseRequests`, `LoseNotices`) takes along what is under way, and `Restart` of
`is_mgmtd` all of them; the library connects again
(`silc_mgmtd_connect.c:368`), but nobody registers the notify path again.  `missed`
names what befell a client:

| mishap | what happened |
|---|---|
| `early` | changed between the load and the registration |
| `swallowed` | the notice was taken for the answer to the registration |
| `overwritten` | two workers formatted in `sendBuff` |
| `deleted` | the notice of a deletion comes before the deletion |
| `unsent` | the notice could not be sent, which nobody notes (`silc_mgmtd_connect.c:517-519`) |
| `deaf` | the registered connection was lost |
| `astray` | two registrations met in `tmp_value`, which all requests of an action share, and another path was registered |
| `emptied` | the new list of trap hosts is empty, and `update_trap_table` keeps the old one |
| `failed` | a call or the registration failed or was refused |
| `crossed` | both threads called at once |

These are all the ways *in the model* by which a quiet client has an old
configuration; what the model leaves out is listed [below](#not-modelled).

### SelLog

`file` and `pos` are `/var/log/sel` and the position of its `FILE`, `list` the kernel
list, `record_id` the next id, `mutex` the `record_mutex`, `state` the enabling flag,
`host` what the power pins say; `pc`, `msg`, `sh` are per thread, `rd` is the
start-up's, `handler` the SIGUSR1 handler and the thread it interrupts.  `InitSel` to
`SetId` are the start-up; `Begin` to `AddNode` one event: check the host, take an id,
shift a full file one record at a time, write the record, add it to the kernel list.
`AddSelNode` and `GetSelEntry` are the driver.  `PollTimeout` is two seconds without
an edge of a pin, `PollEdge` an edge that starts them afresh; `noisy` says that the
pins do not rest.  `PowerCut` may come at any step and may turn the record appended
last into zeros.  Faults: `race` (two events at once), `early` (an event while the
file is read back), `clear` (SIGUSR1 in the middle of something).  Ids are two bytes
wide and wrap in both directions (`Inc`, `Dec`).

The driver's `ioctl` takes no lock, so the nodes of two threads may meet in
`list_add_tail` (`AddsOverlap`): one of them may be lost, and the head may be left with
a `prev` that nobody reaches, so that all later nodes go there, too (`ring = "cut"`),
until the list is made anew.  `Added` is what an add then does.

`SameEvents` is about events that race.  In the file none is lost, and the list never
has an event oftener than the file; that it has them all is said for as long as no two
adds met in the driver (`ring = "whole"`).  It is promised only while the log is not
full and no record has an id beyond the limit.  The second condition matters even
though `record_id` is back within the limit: racing events share an id, so when a
full log is shifted twice an id reaches 0 and the next shift takes it to 65535.
A power cut then reads the file `1, 2, 65535` back, the driver takes the third
record for one beyond its limit and drops the first, and `record_id` restarts at 0
(limit 5, seven events, two threads, one cut).

`EventLog` is what the host should see: a bounded log that loses its oldest
event when it is full and only then.  The mapping takes `log` to the events of
`list` and `restoring` to the start-up of the main thread.

### HostPower

`at`, `op` are the processes of `ubmc_sys_ctrl`, `lock` the lock file, `status` the
file `ubmc_sys_ctrl.sh` reads, `button` the GPIO lines; `host` and `edge` are the
managed host, which is not under `src/` (a press starts it when it is off, a long press
cuts its power); `fan`, `pwm`, `temp`, `fds` belong to the loop of the fan
control.  `TakeLock`, `Check`, `Verify`, `Press`, `Release`, `Again`, `Done` are the
steps of one action; the power state is read in `Check` and again in `Verify`, and
the press comes after both.  `Again` is the second half of a cycle.  A mishap is
the host changing by itself (`Moves`), a host that ignores its button, a read or a
write of a GPIO file that fails, or the death of a process (`Dies`).

A failed read makes `Check` refuse, but `Verify` press.  When the write that releases a
button fails, `ReleaseFails` writes once more as the code does, without a look at the
result: the button may stay `pressed` with the lock let go.  So it does when its process
is killed.  `stuck` keeps the buttons left so, until one is written again (`Press` lets
it go first), and `StuckCuts` is what a power button left pressed does to a host that is on.
`misled` says that the host is not as the process at work has seen it, `orphan` that
the one who wrote the status file was killed.  `FanReadFails` loses a descriptor each
time.

### ConsoleMux

| variable | code |
|---|---|
| `inBuf`, `socketBuf`, `got` | `serial_in_buf`, `serial_in_socket_buf` of the host's line; its bytes are numbered |
| `pc`, `io`, `accepted` | the place in the loop of `main`, what `console_manager_check_io` reports, `to_client_socket_fd` |
| `source`, `current` | the line this round works for, and the one that is shown |
| `established`, `kick` | `is_establish_con`, the bit in `is_kick_con` |
| `client`, `zero`, `conn` | `clients[to_client_pollfd]`, who has descriptor 0, each connection |
| `at`, `shm`, `status`, `messages` | the clients, the two words of shared memory, the message queue |
| `next` | history: the byte the client is due |

A round is `Top`, `Read`, `DoCliCommand`, `ServeBehind` (the host's client is served
while the BMC's line is shown), `FlushToOutput`, `OutputToSocket`, `DoSocketAccept`.
`Sigpipe` is what the handler does, whichever write raised it.  A client comes (with
`-f`: asks for the host to be shown, waits for it, posts the message), stops reading,
reads again or not, or goes, at any step.  `HostIsRead` and `EveryoneIsAnswered` are
said of a client that does not stop reading for good (`ClientReads`): a write to its
socket blocks the one loop and has no time-out.  Mishaps: `broken` (it went while it
was written to), `crossed` (it went before it could be turned away), `dropped` (the
handler emptied bytes the terminal had not seen: shown, and proved, never to happen).

## Runs and bounds

| run | instance | states | shows |
|---|---|---|---|
| `bank_safe` | 3 images (one good, one that only starts, one that does not), software packages, 1 script, 2 cuts, no faults | 3460 | `SafeUncheckedBoot`, `RevertsToWorkingBank`; the flags implement `TrialBoot`; the device always recovers, by hand only from the trial of a bank that does not start |
| `bank_faults` | the same images, any package, 1 script, 3 cuts, all faults | 2.58 million | a bank that works remains, and a bank that failed its trial is left, but for the named mishaps |
| `server_refs` | 2 connections, 3 requests, all faults but `giveUp` | 32178 | counts exact, no use after free, every request ends |
| `server_freed_early` | 1 connection, 2 requests, `close` and `giveUp` | - | violation of `ConnAliveWhileUsed` |
| `locks` | a node and an entry below it, any 3 requests on 3 threads | 234431 | where a lock was made once and no freed node is in use: a writer is alone, the count is exact, the tree closed, every request ends |
| `config_store` | 2 workers, one good and one bad configuration, 3 requests, 1 mishap | 2.2 million | the next start runs what was promised, checksum and backup are of use, the device comes up |
| `config_flag` | the same, no mishap | - | violation of `ChangeSaved` |
| `watch_config` | console manager or dying gasp, 2 topics, 2 workers, 2 changes or losses, numbers modulo 2 | 351882 | a quiet client is current but for the ten named mishaps, no answer brings back an older version, calls end |
| `sel_log` | log of 3, 5 events, 2 threads, no faults | 17936 | the file is always a log, the list is the file, the host reads it all, implements `EventLog`, events are enabled again |
| `sel_race` | log of 3, 4 events, `race` | 504144 | two threads at once lose no event in the file while the log is not full and its ids have not wrapped, the list loses one only if their adds met in the driver, and none hangs |
| `power` | 2 users and the fan control, 2 requests, 2 mishaps, 1 descriptor | 507387 | status and button tell of the one process at work unless one was killed or a release failed, no start unasked, actions end, a hot host goes off |
| `console` | 3 clients, the second with `-f`, buffers of 2, 2 bytes, 1 switch | 620557 | the client sees its time in order, none forgotten or dropped unasked, neither the host nor a new client waits for ever unless the client in place stops reading for good |

Each run takes seconds to about two minutes and a half.

Why these bounds.  *Banks*: there are two banks and two flags whatever the instance,
images differ only in whether they start and whether they work, and two cuts are
enough to disturb a trial and the boot after it; `bank_faults` allows three, to cut
the recovery from a cut as well.  *Server*: a counter needs two messages of one
connection and a bystander connection whose queue is dropped; three messages over two
connections give every placing of them.  *Locks*: with three threads a reader, a
polling writer and a third request meet on one node; the entry below it is the node
that is added, deleted or lost while its parent goes, and `TheRequests` are all
choices of three requests; one request per thread loses nothing, as a worker keeps
nothing from one to the next.  *Configuration*: two lines can mix only if there are
two workers, and a third request comes after them; a bad configuration exercises the
backup, a good one the save; one power cut reaches each state of the files, since
afterwards the start is the same program from those states, and `ComesUp` is checked
from all of them.  *Watch*: the clients do not interact, so they run one at a time;
two workers and two topics are what `overwritten` needs, two changes what a lost one
after a seen one needs, or a change and a lost connection or restart (`MaxChanges`
bounds both together), and numbers modulo 2 make a late answer collide with the next
call but one at once, instead of after 2^16 calls.  *Log*: three places are the fewest
at which a shift has a first, a middle and a last record; five events fill the log and
shift it twice.  *Power*: a user, a second one who meets it at the lock and the fan
control; two mishaps let the host go off under a request and then ignore the button,
or a button stay pressed and the next process meet it.  *Console*: a client, one with
`-f` who replaces it and one who is turned away; two bytes in buffers of two leave a
full buffer behind, one byte or none.  `MaxEvents`, `MaxCuts`, `MaxMishaps`,
`MaxRequests`, `MaxChanges`, `MaxFds`, `MaxBytes`, `MaxSwitches` and `MaxClients`
bound histories, not the program.  No run uses symmetry.

Deadlock is checked for the bank, the files of the configuration, the host's power
and the console, where some part of the system always runs.  The others
switch it off: requests and events run out, and a system that has
nothing to do has stopped rightly.

Fairness.  *Bank*: weak fairness of u-boot's steps, of a good image's start-up
and of the reset of a bank whose user space starts: as long as there is power the
processor runs, and a hung start-up is ended by `wait_mgmtd_up` after 300 seconds.
Nobody has to turn the device off, and scripts, reboots, the kernel's writing back and
power cuts get no fairness; `MaxCuts` says that cuts end.  *Server*: weak
fairness of the loop, which passes over every list again and again, and of
workers, whose callbacks return; clients get none.  *Locks*: strong fairness of each
thread: it runs on, and a mutex it can take again and again it gets some day, because
a writer that polls sleeps 10 ms with the mutex free, and a waiter of
`pthread_mutex_lock` is woken meanwhile.
*ConfigStore*: weak fairness of the start (script, daemon, its commands) and of
nothing a user does.  *ConfigWatch*: the threads of a client run on and its waits
end with a time-out; of `is_mgmtd` nothing is assumed, not even that it answers.
*Log*: weak fairness of the threads, of the handler and of the time-out of
`poll`, which comes only where the pins rest; host, signals, edges, events and the power
get none.  `EnabledAgain` therefore excepts a signal that interrupts `poll` again and
again and pins that are `noisy`, because each starts the two seconds afresh.
*Power*: processes and the loop of the fan control
run on, and the host reacts to a button that is held; users and mishaps get none.
*Console*: weak fairness of the loop; of the clients nothing is assumed, not even that
one that stopped reads again.  A write that waits for the client goes on when it
reads, which is strong fairness because the client may stop again at once.

## Proofs

All theorems hold for every value of the constants that the named assumptions
allow (`UpgradeAssumption`, `ServerAssumption`, `TreeAssumption`,
`ThreadAssumption`, `StoreAssumption`, `SelAssumption`, `WatchAssumption`,
`PowerAssumption`, `ConsoleAssumption`, which TLC evaluates in the runs) and under
the condition stated.  Every invariant, action property and refinement that a
passing run checks is also the statement of a theorem.

**BankUpgrade_proofs.**  `TypeCorrect` needs no condition: any faults, any number
of scripts.  `UncheckedBootIsSafe`, `RevertIsSafe`, `BurnsOtherBank` and
`FlagsImplementTrialBoot` assume `Undisturbed`: one script at a time, no faults,
packages with software.  None of these properties is inductive.  `SafeInv` is:
the bank the flags *stand for* (`Committed`) works, the script's variables and
u-boot's copies agree with the flags, and a running script means that the system
is up with no trial pending.  It is the definition of
`Committed` inside the two windows that carries the proof over them.  `AGoodBankRemains` and
`FailedBankIsLeft` assume only one script at a time: any package and every fault.
`SafeInv` fails there, so they use weaker invariants, which also say what a cut may
bring back from the eMMC (`saved`).  `KeepInv`, as long as no flag
write failed and `is_mgmtd` was not restarted: a running system runs from a good
bank, and when no trial is pending the bank to burn is the other one.
`FailedInv`, as long as u-boot was not cut between its writes and every package had
software: the flags never stand for a bank that was given up, neither directly
nor as the bank u-boot would revert to; and while what is on the eMMC may differ from
what is read in a way that matters (`Unsettled`), no bank is given up at all.  Lost
writes need no exception in either.

**MgmtdServer_proofs.**  `TypeCorrect`, `CountersAreExact` and
`QueueIsOfOpenConns` hold for all faults, though a connection can be freed early:
`CountInv` says where a message can be (one place at a time, no duplicates in the
queue) and counts with the cardinality lemmas of the library.  `NoUseAfterFree`
assumes that clients do not give up: then no connection has two requests at
once (`OnePending`, `OneTaken`), so a free that leaves references behind cannot
happen.  `server_freed_early` shows that the assumption is needed.

**NodeLock_proofs.**  For any requests, the races on a lock and the deletes under
another thread included.  `FoundInv` is the type invariant, with the places a reader and
a writer may be at; `OwnedInv`: who is inside the mutex of a node holds it, unless it
was made twice (`remade`), so two threads inside are one (`HoldersEqual`) and no change
of the count is lost; `CountInv`: the count is the number of readers, and a
writer past `peek` has seen none.  The last gives `CountIsExact` and, with
`WriterAlone`, `WriterExcludes`; `TreeInv` gives `TreeStaysClosed`.  The count is
typed as an integer, and that it is never negative follows from its being exact.

**ConfigStore_proofs.**  `TypeCorrect`, `BackupsStart`, `SumsMatch` and
`PromisesHonoured` need no condition: any number of workers, requests and mishaps,
power cuts at any step, lines that outlast the wait for them.  `IInv` carries all
four.  A line is state (the commands still to run), so the invariant goes by what is
left of it: `MainRest` says, for each phase of the start and each rest of a line
`Main` may have there, what is in the files and what is owed;
`Lines` which rests a worker may have; `Locked` that only the holder of
`write_lock` saves; `Undisturbed` what a line nothing has mixed with has done so
far.  The promise is the hard part.  A configuration that is owed is in the files
and nothing will displace it (`Sure`); or it is one with which `is_mgmtd` may
not start, and then the backup is intact (`Falls`); or it is being written, a power
cut may break it, and the line owes nothing any more (`Broken`).  A cut goes back
to some state since the last `sync`, so the clauses about the backup range over all
of them (`past`).

**SelLog_proofs.** Three invariants, with power cuts at any step.  Under `OneAtATime`
(`Faults = {}`), for any size of the log and any number of events:

- `SelInv` is about the file and gives `FileStaysALog`, `FileStaysBounded` and
  `IdFollowsFile`.  The properties say nothing of the middle of a shift, where the
  record to be written next is still in two places; `SelInv` does, with one clause
  per program counter: which record has been read, where the shift is, and that
  each write puts a record at a place whose id it now has.
- `ListInv` is about the kernel list and gives `TypeCorrect`, `ListFollowsFile` and
  `HostReads`: at each program counter, by how much the list lags behind the
  file (`Behind`), through a shift by comparing it with the file as it was before
  (`Shifted`).  The driver's renumbering is `Keep`, a sequence given by the
  places that stay; `KeepTail` proves that it drops the first node and no other
  when the ids are `1, 2, ...`.
- `ReadsAnEventLog` is the refinement of `EventLog`: adding to the list is
  `Record` (`RecordStep`: append, or move up and append), reading the file back is
  `Restore`, and every other step is a stutter, a clear or a loss.

Both lean on `Linked`: with one event at a time no two adds meet in the driver
(`NoOverlap`), and its list is linked as it should be.

`RacersLoseNone` assumes `RaceOnly` (events race, SIGUSR1 and the start-up do not
overlap them), for any number of threads.  `RaceInv` counts: each event is as often in
the file as in the list, plus one if a thread has written it and not yet added it
(`Level`, in `Same`; by `TallyAppend`), or oftener once two adds have met in the
driver.  That holds as long as every write is an append, so there are two more cases
for a counter that came back within the limit: a thread still has the id 65535 from
before (`Shifting`), or an id beyond the limit is in the file (`Marked`).  TLC found
both cases, and with them that the property as first stated, without its condition on
the ids, was false.

**ConfigWatch_proofs.**  `NoOlder` rests on `CallsInv`: nobody is ahead of
`is_mgmtd` (`Behind`); and as long as the client's calls have not crossed, it makes
one at a time (`OneCall`), no message on its way can be mistaken for the answer to
the present call (`Numbered`), and that answer is not older than what
it has (`Fresh`).  `QuietClientsAreCurrent` rests on `WayInv`: of a client that no
mishap befell, the newest change is always on its way (`OnTheWay`: announced,
noticed, being read, or still to be loaded), and in a quiet state none of these
ways is open; a lost connection or a restart makes the client deaf, or is one it still
has to load after (`LossWay`), and a registration that was missed is a mishap
(`Accepted`).  So the ten mishaps are all the ways in which the modelled steps lose a
change, for any number of clients, topics, workers, changes and losses.

**HostPower_proofs.** Failed reads and writes, killed processes and a host that
changes by itself are steps of the specification.  One invariant gives `StatusIsTrue`,
`ButtonsAreReleased` and `StartsOnlyOnRequest`: who works owns the lock (`Owns`), who
owns it will let it go (`Free`), a press the host has not noticed is still held and
not one that was left (`Pressed`), and a button pressed to switch the host off is
pressed while the host is on, unless the process was `misled` (`StillOn`).

**ConsoleMux_proofs.**  `Rounds` says at which steps of a round a buffer may hold
bytes, `Ends` what the loop knows of its connections, `Kept` which of them are
open.  With `EachSeesItsTime` itself they are inductive and give `ItsTimeIsSeen`,
`NobodyIsForgotten` and `ServiceLasts`, for any number of clients and any buffer.

Type correctness is proved for every module; where no run checks a `TypeOK`, it
is part of the inductive invariant.  Four invariants are proved and in no run,
because they are steps towards others: `RunningBankIntact` (an upgrade never burns
the bank that runs), `CountExact` (the count of readers), `NextIdFollows` (the next
id follows the file) and `QueueOfOpenConns` (the queue holds messages of open
connections).

What is only model-checked: everything under fairness (`Recovers`,
`EveryRequestEnds`, `RequestsEnd`, `ComesUp`, `CallsEnd`, `EventsEnd`,
`EnabledAgain`, `ActionsEnd`, `HotHostGoesOff`, `HostIsRead`,
`EveryoneIsAnswered`), because liveness and `ENABLED` are out of the prover's
reach.  No module that is proved about uses a `RECURSIVE` operator of its own.

## Where the code departs from what it promises

Shown by a run (see `findings` in `PROJECT.json`):

- `server_freed_early`: `silc_mgmtd_connect.c:46` frees a closed connection while
  messages still refer to it, and only then.
- `config_flag`: the web page shows "Config Change Saved"
  (`status-system.lua:75`) of changes that are not: the flag is not set when the
  callback of an added node fails (`silc_mgmtd_operation.c:164`), and a save clears
  it after releasing the lock, together with the mark of a change made meanwhile
  (`silc_mgmtd_config.c:263`).

Seen while reading and kept in the models, as a fault, a mishap or plain behaviour:

- Bank: a cut between `upgrade_software`'s two flag writes (`is_upgrade.sh:336`,
  338) boots the new image without a trial (`cutInUpgrade`); one between u-boot's
  own two writes undoes a revert (`uboot-0003-boot_fix.patch:147`); a restart of
  `is_mgmtd` clears the flag of a pending upgrade (`is_upgrade.sh:379`); a package
  without software arms the flag for a trial of the running bank (320); two scripts
  can both pass the check of the flag (292); flags are written with `dd` and no sync
  (`upgrade_ops:88-106`), so a cut soon after a command may bring the old ones back
  (`lostWrite`); nothing resets a bank that u-boot cannot load.
- Server: a closed connection whose last message is freed is never freed itself;
  a request whose wildcards cannot be expanded is never answered
  (`silc_mgmtd_daemon.c:47`); closing one connection drops the queued requests
  of all others (`silc_mgmtd_connect.c:187`); a request that timed out is neither
  answered nor freed (`silc_mgmtd_daemon.c:38`).
- Locks: two workers that are the first on a node make two mutexes
  (`silc_mgmtd_memdb.c:71-73`) and can both write the node (`remade`); the lock is
  per node, so requests on a node and on its parent overlap (the comment speaks of
  a module); a reader is refused when another reader is just counting itself
  (`silc_mgmtd_memdb.c:90`); a node can be freed under a thread that waits for its
  lock (`silc_mgmtd_operation.c:546`), which is then `dangling`.
- Files: loading and removing a configuration take no `write_lock`
  (`silc_mgmtd_config.c:310`), so their lines mix with a save's, which is what
  `spoilt` stands for; the test at `S45is_mgmtd:97` whether `is_mgmtd` has quit never
  succeeds, so a daemon that dies is noticed only after 300 seconds.
- Clients: after a time-out a client reads each answer one call late
  (`silc_mgmtd_interface.c:1027-1038`): the number is compared with that of the first
  message only, the call fails, and the next one finds the next late answer; the
  console manager loads before it registers (`is_con_mgr_mgmtd.c:311`); a deletion is
  announced before it is done (`silc_mgmtd_operation.c:257`); all workers format in
  one `send_buff` (`silc_mgmtd_interface.c:1634`); the library connects again after a
  lost connection or a restart of `is_mgmtd` (`silc_mgmtd_connect.c:368`), but nobody
  registers for notices again (`deaf`); a notice that cannot be sent is noted nowhere
  (517-519, `unsent`); registrations share the parameter's `tmp_value` (`astray`);
  dying gasp keeps its trap table when the new list is empty (`dying_gasp.c:155-263`,
  `emptied`), and starts its notify thread although its registration was refused
  (142-144).
- Log: the id is read before the mutex is taken, so two events at once share an
  id (`ubmc_ipmi_sel.c:1423`); the handler can wait for a mutex held by
  the thread it interrupts (1104), or reset the id under a writer, after which the
  file can grow beyond its limit (`clear`); events are enabled before the file has
  been read back (1162); the driver adds to its list without a lock
  (`linux-ti-001-ubmc_ipmi-i2c.patch:2197`, 5570), so two threads can lose a record in
  the list, or all later ones (`ring`); edges of a pin keep events disabled (2019-2028,
  `noisy`); a shared id can be shifted to 0 and on to 65535, after
  which the start-up drops records of a log that is not full (1007, 1426; see
  [SelLog](#sellog)).
- Power: a forced off or a cycle presses the button after it has looked twice, and
  starts a host that has just gone off (`ubmc_sys_control.c:484-490`, the exception
  in `StartsOnRequest`); a wait that times out is reported as done; a release
  that fails is tried once more and never looked at (460-466, 545-551), so the button may
  stay pressed, as it does when the process is killed (`stuck`); a second look that
  cannot read the power state presses all the same (472-478);
  `get_cpu_temp` loses a descriptor on each failed read (`ubmc_fan_control.c:561`),
  the exception in `HotHostGoesOff`.
- Console: the bit that kicks a client out outlives it, and the next
  ordinary client then replaces one that nobody asked to kick
  (`is_con_mgr.c:1809-1813`); a client that is gone before it is turned away raises
  SIGPIPE, and the handler disconnects the one that is served (1855); the
  handler's comment speaks of the socket's buffer, but what it empties is
  `serial_in_buf` (1860-1863); what a client leaves in a full
  `serial_in_socket_buf` stops the host's line (1217), and one that stops reading stops
  the whole loop (713, 1054), the exception of `ClientReads`; started in the background
  the manager gives descriptor 0 to its first client, which `accept() > 0` (1296)
  takes for a failure; `-f` writes the shared memory back to the BMC's line after
  a time-out, whatever is shown by then, and asks for the host before it marks the
  request as in progress, so that the confirmation can be missed; its time-out is
  1000 seconds where the comment says 100.

## Not modelled

Beyond the components the inventory leaves out (their reasons are in `PROJECT.json`),
the models abstract the following.  *Bank*: fetching and checking a package, the
configuration that travels with an upgrade, failures before the first flag is read,
`reboot -n -f` (a `PowerCut`).  *Server*: the bytes of a message, partial reads,
failing allocations.  *Locks*: values, callbacks, privileges; the lists of the tree
itself, which no lock protects; what a thread does with a freed node.  *Files*: the
text of a configuration, the running configuration and its listing, save-config-as
(what it stored is `Inner`), the save after a change of version, the line that
load-config-from gives once more after a time-out (it writes the same, and the files
count as spoilt by then).  *Watch*: the text of messages, asynchronous requests, more
than one handler in a notify list, failing allocations, a notice or an answer cut off
in the middle; a call is not begun while an answer 2^16 calls old is still on its
way.  *Log*: I/O errors, the byte order of a record, reordering of writes on their way
to the flash other than a lost last record; `fseek` and the read or write after it are
one step, and an `ioctl` is atomic against the host's requests; two adds that overlap
while both renumber a full list do so one after the other, and a failed `kmalloc` and
what the host reads in the middle of an add are left out.  A restart of `is_ubmc_ipmi`
alone is a `PowerCut` whose writes all arrive.  *Power*: `ubmc_sys_ctrl -u` (a stub),
`hst_pwr_monitor`, the export of GPIO lines, the serial query, the scripts that flash
a BIOS (but not the cycle at their end), the fan mode with parameters and the steps of
the pwm; time-outs are choices, not durations; a process that is killed has pressed a
button or let it go with one write, and a reset button left pressed does nothing to a
host that is off.  *Console*: what a client types, the log file, the search for BIOS
strings, serial settings, the restart and the end of the manager itself, the data of
the BMC's line, a terminal that cannot be written to (the tip of a switch would then
go to the client's socket, too); a descriptor number that was closed is not given out
again while the loop still has it.

Left out altogether: the last second of dying gasp and the EEPROM's TLV area (see
the plan); the handlers of single nodes, the value types, sensors, CLI, NETCONF
and web, which translate, parse and print and keep no state that others depend on;
vendored code (buildroot, libedit, PAM, LuCI and its libraries), which is the bulk
of the repository and is not uBMC's own.

## Plan

In the order of importance; the first eight are done.

1. `BankUpgrade` with `TrialBoot`: the bank that runs is what all else depends on.
2. `MgmtdServer`: lifetime of connections and requests.
3. `NodeLock`: what workers do to each other.
4. `SelLog` with `EventLog`: the log on flash and in the kernel.
5. `ConfigStore`: the files of the configuration, with the "unsaved" flag and the
   recovery at the start.
6. `ConfigWatch`: the client library with time-outs, and who follows changes.
7. `HostPower`: `ubmc_sys_ctrl`, the host and the fan control.
8. `ConsoleMux`: the console manager and its one client.
9. `BootSystem`: `BankUpgrade` composed with the start-up of `ConfigStore`, so that
   `HungReset` becomes the script's own steps.
10. `DyingGasp`, and the EEPROM's TLV operators checked against a reference
    definition.

Next proofs: the weaker promises under `early` and `clear` (`SelLog`): what still
holds when the steps that break the strong ones are allowed.
