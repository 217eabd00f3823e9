# ppcom in TLA+

ppcom (a fork of picocom) is a terminal emulator for a serial port: it puts the
user's terminal in raw mode, copies bytes between standard input/output and the
port, takes commands after an escape character, forwards what the port says to
a socket and takes input from another socket. This directory holds TLA+ modules
that model it, the TLC configurations that check them and the proofs that
TLAPS checks. Paths below are relative to the repository; `ppcom.cpp`,
`term.cpp`, ... are in `src/ppcom/src`, `term.h` in `src/ppcom/include`.

## The parts of the system

| Part | Code | State | Operations |
|---|---|---|---|
| Terminal library | `term.cpp` | a table of 16 slots: descriptor, original, current and next `struct termios` | `term_lib_init`, `term_add`, `term_remove`, `term_erase`, `term_replace`, `term_reset`, `term_revert`, `term_refresh`, `term_apply`, `term_set_*`, `term_set`, `term_fake_flush`, `term_drain` ..., the `atexit` handler |
| Settings | `term.cpp` | one `struct termios` | `term_set_raw`, `term_set_baudrate`, `term_set_parity`, ..., the getters |
| Main loop and commands | `ppcom.cpp` `loop()`, `do_command()`, `tty_q_push()` | `state`, `stdin_closed`, `sig_exit`, `tty_q`, `opts` | one turn of `select()`: stdin, port in, port out, control socket; one command per key |
| Prompts | `ppcom.cpp` `read_baud()` ..., `fdio.cpp` `fd_readline()` | the line entered | byte, erase, cancel, return |
| Startup and cleanup | `ppcom.cpp` `main()`, `cleanup()`, `fatal()` | what is open, managed, locked | start in order, clean up from any point |
| Character mapping | `ppcom.cpp` `do_map()`, `parse_map()` | none | map one character |
| File transfer | `ppcom.cpp` `run_cmd()` | signal mask, handlers, modes of the shared descriptors | fork, child set-up, wait |
| Locking | `ppcom.cpp` `uucp_lock()`, `flock()` | the lock file | lock, remove a stale lock, unlock |
| Cycling of settings, modem lines | `ppcom.cpp` `baud_up()` ..., `dtr_up` | `opts`, `dtr_up`, `rts_up` | next baudrate, parity, ...; pulse, toggle |
| Options | `ppcom.cpp` `parse_args()` | `opts` | one argument of the command line |
| Command splitting | `split.cpp` | lexer state | split a quoted command line |
| Forwarding server | `ffwd.cpp` | two listening sockets, lists of clients, callbacks, two connections of ppcom to itself | accept, broadcast, remove |
| libffwd | `libffwd/src/*.cpp` | epoll set, sockets, pipes, fifos | wrappers, the stand-alone server |

How they interact. Everything but the forwarding server runs in one thread.
`loop()` calls `term_*` functions for commands; `fatal()` may be called from any
of them and runs `cleanup()` and `exit(3)`, which runs the library's `atexit`
handler. Two signals (TERM, INT) set `sig_exit`, which the loop tests once per turn; they
interrupt `select()` and the prompts' `read()`. A file transfer forks a child
that shares the open file descriptions of the port and of the terminal, inherits a copy of the
library's table, and is sent a TERM when ppcom handles a signal. Two ppcom that want one port
meet in its lock file. The forwarding server is a thread of its own; the loop writes what it reads from
the port to one connection to that server and reads another. The stand-alone server of
libffwd is another program, with the same classes and other callbacks.

What is hard about it: the order in which one turn of the loop handles what one
`select()` reported; a queue that grows, is written in pieces and emptied by
commands; an escape state that outlives a read; signals that come between a test and
a wait; device calls that fail half way through a library call; settings that have to be
put back at exit, whatever happened before; HUPCL, which decides what the close
after that does; signals at any step of a fork, by either process; a lock that several processes
read, remove and make in steps; what is shown and what is set when some of the calls failed. `PROJECT.json` lists these hazards at their lines, with the
properties that cover them.

## The modules

| Module | Models | Instances |
|---|---|---|
| `Termios` | the settings record, every setter and getter, `term_set()`'s combination | `MCTermios` |
| `Setters` | one record of settings, from any content, under one call of a setter | `MCTermios` |
| `Term` | the library: its table, every call, failures of the device, `exit(3)` | `MCTerm` |
| `TermAbs` | what the library promises: a finite map from descriptors to three settings | refinement target of `Term` |
| `Session` | the main loop, the queue, the commands and prompts, signals | `MCSession` |
| `Commands` | the settings and modem lines of the port under the keys: asked for, shown, and real | `MCTerm` |
| `Lifecycle` | `main()` from the first call of the library to `exit(3)`, as a client of `Term` | `MCLifecycle` |
| `RunCmd` | a file transfer: ppcom, its child and the program, signals and terminals | `MCProcesses` |
| `TransferAbs` | what a transfer promises: one stay of a child | refinement target of `RunCmd` |
| `UucpLock` | any number of processes and the lock file of a port | `MCProcesses` |
| `CharMap` | the mapping options and the mapping of a byte | `MCTermios`, its own `.cfg` |
| `SplitQuoted` | the lexer of command lines, against the rules of its header | `MCTermios` |
| `Options` | `parse_args()`, against the options of the manual | `MCTermios` |
| `Ffwd` | the forwarding server's thread, its clients, and the thread of `loop()` as its client | `MCFfwd` |
| `FfwdSrv` | the stand-alone forwarding server and its clients | `MCProcesses` |
| `TermProofs` | proofs about `Termios`, `Setters`, `Term` and its refinement of `TermAbs` | |
| `ProcessProofs` | proofs about `UucpLock`, `RunCmd` and `FfwdSrv` | |
| `InputProofs` | proofs about `CharMap`, `SplitQuoted` and `Options` | |
| `SessionProofs`, `CommandsProofs`, `LifecycleProofs`, `FfwdProofs` | proofs about the module of that name | |
| `LeastElement` | a non-empty set of naturals has a least element; the proofs use it | |

`Lifecycle` EXTENDS `Term`, which EXTENDS `Termios`: the library's actions are steps
of the program that calls it. `Session` stands alone: what a command does to the
settings of the port does not come back to the loop. `Ffwd` stands alone, too: it knows
of `loop()` only where it uses the two connections and how it ends. `Session` takes it that ppcom
has its two connections and that the message socket has room, and `Lifecycle` that the server's thread does not abort the
process; `Ffwd` says when that is not so. What `RunCmd` shows of a whole command - the port and the
table are as before, the terminal is raw again, or the call that failed is the reason - is what `Lifecycle`
takes as one step of a child and of the program (`Transfer`, then `BackToRaw`), and `Session` as a command that leaves the port in blocking mode and may have taken what it received. `TransferAbs`
writes this down: a child puts the terminal back, only the program it becomes may set the port, and ppcom makes the terminal raw
again. `RunCmd` implements it, `Stage` being the mapping of the places of the two processes. `Lifecycle` allows any change
of the terminal while the child is there, more than `TransferAbs`, and none of the port: what it says of the port is about one that no program sets
but ppcom.

`MCTerm`, `MCTermios` and `MCProcesses` hold several modules that share nothing. A behaviour is in
one of their scenes and only that part moves, so that a run costs the sum of its parts and not the product.

### Termios

A settings record keeps what the library touches: the input flags IXON and
IXOFF, the control flags of parity, stop bits, flow control, CLOCAL and HUPCL, the
character size, the speed, and one field for all that `cfmakeraw()` changes
besides. `Setters` starts from every value of that record, as a terminal may be found,
and makes one call. `SetterSetsItsOwn`: the matching getter reads back what was
set, and no other getter changes its answer. `SetAllReadsBack`:
after `term_set()` all getters give its arguments, whatever the terminal had before.

### Term

One action is one call, with its early returns (`Unmanaged`, `Refused`), the failures of
`tcgetattr`, `tcsetattr`, `tcflush` and `tcdrain` at the place where they come,
and the value returned. `term_lib_init()` fails when `atexit(3)` does. `dev` is what the device would report; `Adopt` maps
the settings asked for to those that the device takes (a device without RTS/CTS drops that flag);
`OutsideChange` is another program that sets the device. `first` is a history
variable: the settings found when a descriptor was added.

`Strict` restricts the client to what `ppcom.cpp` does: `term_set()` on a new
descriptor only while the table is empty or with valid arguments, and no
replacement by a descriptor that is managed already. With `Strict = FALSE`, TLC
finds `FailedCallChangesNothing` violated in `MCTerm.cfg`: `term_set()` keeps in `ni`
the 0 that `term_add()` returns instead of the slot it filled (`term.cpp:1305`), so a
refused argument frees slot 0 whatever slot was taken. `term.h:527-528` promises that the
new descriptor is removed.

- `UniqueFds`: no descriptor in two slots.
- `OrigKept`: the original settings change in HUPCL only, whatever is called and whatever
  fails. It is checked where it counts, under the calls of `Lifecycle`, and proved for any.
- `CurrTellsDevice`: while the current settings of every descriptor are the device's, a call that
  succeeds, or changes nothing, keeps them so, also where the device does not take all that it is asked for.
- `ExitRestores`: `exit(3)` puts back every device that is managed, HUPCL apart (checked under the
  calls of `Lifecycle`).
- `FailedCallChangesNothing`: what `term.h` says of calls that fail.
- `ImplementsMap`: the table refines `TermAbs`; a slot is an implementation
  detail, whichever order slots are freed and taken in.

### Session

`pc` is the place in one turn of `loop()`: the test of `sig_exit`, the call of
`select()`, then the handlers in the order of the code: standard input byte by
byte (with the prompts a command opens), the port, the write to the port, the control
socket. What `select()` reported is kept in `ready`, as the descriptor sets
are, so that a later handler acts on what was true before the earlier ones
ran. Of the port that need not be true any more: a settings key discards what the port received
with the output (`tcflush(TCIOFLUSH)`, which may fail), and a transfer program may read it. `ReadPort` then finds
nothing; in the blocking mode that a transfer leaves, it waits (`Starved`). `do_command` has one disjunct for each kind of command: those that leave the loop, those
that set the port and empty the queue (baudrate up and down, flow, parity,
data bits, stop bits), local echo, those with a prompt (hex, baudrate, file name),
and those that do not touch the loop's state (status, help, DTR, RTS, break).
The maps `OutMap`, `EchoMap` and `InMap` are constants; a byte mapped to
nothing fails the assertion of `do_map()` and aborts the program. A byte in
a hex prompt stands for the byte its digits denote, and whether hex or baudrate are
valid is a choice. A line from the control socket ends with a newline or before a zero byte. `tty_write_sz`, which follows the baudrate, is the constant `WriteSize`.

The environment types bytes, ends the input, sends from the port and the
control socket, and stops and resumes the flow, each within a bound named in the
constants; a signal comes at most once, since the handler ignores the second.
`Fallible` names the calls that may fail.

- `QueueInBounds`, `RefusedOnlyWhenFull`, `PortGetsWhatWasAccepted`: the queue
  never exceeds its buffer nor the buffer its limit; a byte is refused only at
  that limit; what was written followed by what is queued is what was accepted
  under the present settings, mapped, in order. The histories `due` and `sent` start anew
  when a settings command empties the queue.
- `KeysTakeEffect`: stated over the whole sequence of bytes typed, by parity of the
  escapes before each; the code decides byte by byte with a state that outlives
  a read.
- `EofDrains` and `EofEnds`: the end of the input ends the program, not before all is
  written, and unless the peer stops the flow for ever, or stays silent for ever while ppcom
  reads from it what it lost (`Starved`).
- `KillEndsOrWaits`: a signal ends the program but in four cases, which the property
  names. One that comes after the test of `sig_exit` and before `select()`, or before
  a prompt, waits there for the next input; and after a transfer, which leaves the port
  in blocking mode, a write waits for the peer, and so does a read whose input was flushed
  or taken since `select()` reported it. EINTR restarts both.

### Commands

What the user asked for (`opts`, `dtr_up`, `rts_up`), what the library has pending and believes (`nexttermios`, `currtermios`),
the size computed from the rate (`sized`), and what the port has (`device`, `line`). `main()` sets the lines,
configures the port and sets the lines again, as `open_port()` and `main()` do; from then on a key
is one action with every library call that it makes, none of which is checked in the code: the settings keys, both
toggles, the pulse of DTR, `show_status()`, and the baudrate prompt with what it may give. A device call may
fail; a device may refuse a setting without an error (`Stubborn`), move its lines when it is
configured (`Resets`), and be used by others (`Shared`). The history `lost` names the lines, and the rate, that went wrong
behind ppcom's back, and when they are known again.

- `SettingsCatchUp`: after an apply that worked, the port has every setting that was asked for and that
  it does not refuse, those of earlier commands that failed included. A command that fails is
  not forgotten: the next one applies it too.
- `LinesAgree`: what C-v, C-t and C-g show of DTR and RTS, from the start on, but for the lines in `lost`. A port that moves
  its lines when it is configured does no harm at the start, since they are set again.
- `WriteSizeFits`: the chunk written to the port goes by the rate the port has, but after a change that failed
  or that others made.

### Lifecycle

`pc` names the next call of `main()`, of a command, or of `cleanup()`. `Try` is a
call whose failure is fatal, `Ignore` one whose result is not looked at; the
library's action gives the value returned and the table and devices after it. `how` is why the
process ends, which decides whether `cleanup()` drains (`DrainAsked`). `stopped` and
`outq` are the peer and the output that the operating system still holds: a
drain, and the close of the port, block while it cannot leave (`Drains`).
`FlushWorks` says whether the driver's `tcflush()` discards that output, and
`CleanupWorks` that no call made while cleaning up fails to set a terminal (where it does, nothing can be
promised). `Mishaps` are the failures outside of the library: opening, memory, the loop, an assertion.

- `StdinRestored`: the user's terminal is as it was found, whatever ended ppcom
  and whatever a transfer program did to it.
- `PortRestored`, `PortKept`: the port is as it was found, or as it was last,
  by `--noreset` and the quit key.
- `HangupAsDocumented`: the modem lines are dropped iff the manual says so.
- `ExitReached`: once ppcom is on its way out, for whatever reason, it ends. How it gets on its way is
  the loop's matter (`Session`, `Ffwd`). The property names what it excepts: with `--noinit` the option says
  "no flow control" whatever the port has, the fake flush is left out, and a
  stopped peer holds the close (`HeldByPeer`); and the drain at the end of the input, which the peer
  may hold and `term_drain()` restarts on EINTR (`HeldInDrain`). Outside of its run, whose calls do not fail, there
  is a third: a change of the flow control that failed, or that the device refused, also leaves the option and the port apart.

An abort (a failed assertion, or the server's thread, see `Ffwd`) is not an exit: nothing is
restored then, and the properties do not speak of it.

### RunCmd

ppcom and its child, a system call at a time: the action of SIGINT and the mask, `fork()`, the wait, and what is put back; in the
child the removal of the terminal and of the port from its copy of the table, the wiring of its standard input and
output, the splitting of the command, the handlers, the mask, `execvp()`, or `exit(3)` with the library's handler on the copied table.
`Deliver` is what the kernel does with signals: one that is blocked waits, one that is ignored is dropped, ppcom's
handler passes the first on as a TERM to the process group. `Interrupt` is C-c on a terminal that is not raw,
which goes to both, `Kill` anyone's `kill(1)`. The program may set both terminals and look after its signals itself; it need not end.

- `BackAsBefore`: what a command leaves of ppcom's signals, the terminal and the port, whatever failed or ended the child.
- `ProgramStartsClean`: how the program starts, though a signal may come at every step.
- `KillEndsCommand`: a signal ends a command, except one handled between the ignoring of SIGINT and the fork, which
  is not passed on (`early`), and a program that looks after TERM.

### UucpLock

`uucp_lock()` in steps: read the file, wait and remove a stale one, create, write the number; `cleanup()`, at the end
or after a refusal, unlinks the file if it has the name. A process may be killed between any two. The file is known by
its maker, since a number is written into what was created and not into a later file of the same name. `Proc` is a
symmetric set of any size.

- `OneHolder`: two processes never both hold the lock, but after one of two races, which the history `overlap` names: a
  process creates the file while another that found the old one stale is about to remove it, or takes a file
  whose maker has not written its number yet for a dead process's.
- `LeftLockIsTaken`: a process that is alone is not refused over what a dead one left, unless it left it
  empty (`torn`): then the number is whatever the buffer held.

### SplitQuoted and Options

In `SplitQuoted` a user writes a command, piece by piece: a character, an escape, a quote, a delimiter, a joined line, a last
backslash. A step is one piece; `lex`, the state of `split_quoted()`'s loop, reads its one or two characters (`Read`), and `meant`
takes from it what `split.h` says of the piece: the words that are complete, the one that was begun, and the quotes it is within. A
piece is the header's notion, not the code's: within double quotes a backslash and an `a` are two characters of the word, outside of
them they are one. `Extra` is the second call that `run_cmd()` makes, of the file name that was typed or of the line that was edited: it goes on after
the arguments of the first. `SplitFollowsHeader`: at every moment what `split_quoted()` would return, if the string ended there, is
`Meaning`: an error, or the arguments, as many as there is room for and each cut to its length, with the warnings
for those that were cut and those that were dropped.

In `Options` a command line is one argument after the other as `getopt_long()` gives them; `given` is the line as it was typed, `got`
what `parse_args()` made of it. `OptionsFollowManual` compares the options with those of the manual at every moment: the last of an option's
arguments counts, wherever it is, and the first that is wrong ends the program. The manual's side has tables of its own, written from
`ppcom.1.md` (`Documented`, `DocumentedDefault`; the default rate is in the repository's `README.md`), and shares with the code's side only the
names of the options. Three things are excepted by name, since the code contradicts the manual there (see below): the escape character
when none is given and the log file's name when one is given (`Differs`), and a command line that a
log file's name was copied over (`got.lost`). The manual lists no `s` for `--flow` and no letters for `--stopbits`; for the latter the comment in
`parse_args()` does: a letter sets the parity and one stop bit.

### CharMap

`parse_map` adds one mapping at a time, so that the run sees every set of the 14
mappings; `MapByte` maps each of 9 bytes at the edges of the classes the code
distinguishes (8, 9, 10, 13, 31, 32, 126, 127, 128). `do_map` tests the character
first and then the flags in the code's order, one row of them for each kind of character. `MapFollowsManual` compares it with
the manual's list of mappings and its rule that the first that applies is
applied. One of its mutants drops the cast to unsigned char that the comparison with 0x20 depends on.

### Ffwd

Two threads. `main` is the place of the one that runs `loop()`: `ffwd::init()` (`startSrv`, then
`setup_socket` twice), the loop, `writen_ni()` to the message socket (`Forward`, one `write()`
at a time), `ffwd::exit()`, the destruction of the local `ffwd`, `cleanup()`. `srv` is the place of the
detached thread: `epoll_wait()`, the callbacks for the events it returned (`NextEvent`), and within one
the `write()` to each client in turn (`Send`). A connection has two bounded byte sequences, as a
TCP socket has, with room `CapSrv` and `CapCli`; a write to a full one waits. Descriptors of the server are
numbers, the lowest free one is given next, so that a number that was not removed from a list
or from the callbacks comes back with another connection. A byte is the number of a byte of the
port, the client that said it, or a byte of a buffer that was never initialised, which is what
a callback broadcasts after an end of file. `deadly_handler` is the TERM or INT, with the
second TERM that the server's thread may take.

- `TablesAgree`: the servers' lists, the callbacks and the open descriptors.
- `PortsApart`: a client hears the others of its own port and the serial port, never
  itself, so that only clients of the control port can type.
- `HeardInOrder`: each client of the message port hears what the port says in order, once and without
  a gap, across short writes of both threads; a zero byte cuts what follows it in the same read.
- `ForwardEnds`: `loop()` gets to the end of a write to the message socket, a signal or not, unless it stays there
  for good while the server waits for a socket that is not read. TLC shows three of them to be possible: a client that
  does not read; ppcom's own message socket, which nobody reads, once
  clients of that port talk; and its control socket, while `loop()` writes to the message socket.
- `ExitIsClean` is violated.

`Taken` is a second ppcom that has the ports: `start()` fails unnoticed and `addSt()` aborts
the process. `Fails` is `socket()` or `connect()` failing in `setup_socket()`, which then returns 1: `msgfd` is the standard
output, to which the port's bytes go a second time (`ToStdout`). The clients act from `init()` to the end of the loop.

### FfwdSrv

One thread and any clients of two ports: `WaitForEvents`, the callbacks of what it reported in any order, and one `write()` at
a time to `targets`, the numbers of every client that was ever accepted at the other port: the server closes the
descriptor of a client that has gone and takes it from no list. A write to a closed number fails unnoticed, one to a number that
was given again reaches another client, and one to a client that has just gone raises SIGPIPE.

- `HearsTheOtherPort`: a connection hears what clients of the other port said since it was accepted, in order and
  once, unless it has the number of an older one (`reused`). After an end of file it may hear junk.

## The runs

| Run | Bounds | Shows |
|---|---|---|
| `settings_maps` | every settings record over two speeds; every set of mappings, 9 bytes; a command and a file name of 4 pieces together, room for 1 argument of 2 characters; command lines of 3 arguments | the setters and getters agree; the mapping, the splitting and the options are as documented |
| `term` | 2 slots, 3 descriptors, one not a tty, a device without RTS/CTS, every call may fail; 3 keys, every call may fail, a rate the device refuses, 3 wishes for the lines, others on the port | the table is a map, no descriptor twice, failed calls change nothing; settings, lines and write size |
| `session_keys` | 5 bytes of 4 kinds, reads of 1 or 2 | keys and end of input |
| `session_queue` | 4 bytes of 4 kinds, one of which maps to two bytes, one to no echo, and one ends a string; 1 from the port, 1 from the socket; buffer 2, limit 4; failing calls, `tcflush()` included | the queue |
| `session_live` | 3 bytes of 3 kinds typed, 1 from the port, one queued at the start, a transfer, 1 stop of the flow, a signal; without `--exit-after` | the end of the input and a signal end the program, but for the named waits |
| `session_fatal` | 5 bytes of 2 kinds | violation: a settings key is taken for a failed write |
| `lifecycle_faults` | 2 devices of 2 settings, 8 combinations of options, any device call, `atexit(3)` and any mishap | both terminals end as they should |
| `lifecycle_flow` | `tcflush()` that does not discard, a peer that stops, 8 combinations of options, no failing call | ppcom, once on its way out, ends |
| `char_map_ignore` | 3 bytes | violation: a byte to be ignored aborts ppcom |
| `ffwd` | one client of each port, 2 connections, 1 message, 3 bytes from the port, 2 bytes of room to the server and 1 back, one zero byte, either of ppcom's connections failing, a signal | the forwarding |
| `ffwd_exit` | 2 bytes from the port | violation: the exit command aborts ppcom |
| `processes` | 3 processes and a file from before; 2 transfers, 3 signals, fork, setattr, split and exec may fail; 1 and 2 clients of the stand-alone server's ports, 2 messages, 3 connections | the lock; a transfer, and that it implements `TransferAbs`; the stand-alone server |

Two slots and three descriptors are enough for a slot to be freed below, at and
above another one and for the table to be full. A buffer that starts at two and
ends at four bytes grows once, which is what the code does at each size; reads
of two bytes put a command and what follows it into one read and let an escape
be the last byte of one. With five bytes an escape can be data, prefix or
doubled and be followed by data. In `Lifecycle` the two line settings differ in
HUPCL and in flow control, the two things that cleanup depends on; the option
sets have each of `--noinit`, `--noreset`, `--hangup`, `--exit` and flow control on and off.

In `ffwd` two connections are enough for a descriptor's number to go from one port to the other;
three bytes fill the socket to the server and leave one, so that both threads meet a
short write and both can be held up. A client connects once ppcom's own connections are
accepted (`Early = FALSE`); before, nothing is forwarded.

Three processes are the least with which a lock that one removes can be another's that took it from a third; with two
transfers a failed fork can be followed by another, which inherits what the first left; three signals are one to handle, one to pass on and one that
comes after. Three connections give a number to a second client after the first has gone. Three keys are one that
fails, one that repairs it, and one in between; four pieces are two quotes with something in them and something behind, or a first
argument, a delimiter, and a second one that is dropped; a third character of an argument is cut.

Some runs use a VIEW: `MCView` of `MCTerm` leaves out what a freed slot held, `MCQueueView` what no later
step and no property of the run reads, and `MCView` of `MCFfwd` the written buffer and, from `cleanup()`
on, everything but what decides how the process ends. `MCView` of `MCProcesses` forgets the stand-alone server once it has ended.

Deadlock is not checked where the program or the library's client may stop: after
the end, and when the bounded environment has nothing more to offer.

### Fairness

`FairSpec` (Session) assumes that the single thread of `loop()` runs when it can
(`WF_vars(Loop)`): waiting in `select()`, in a prompt and in a blocking read or write
is not being able to. Nothing is assumed of the user, the device, the peer and the
clients, so `EofEnds` allows a peer that stops for ever.

`FairLife` (Lifecycle) assumes strong fairness of the steps of `cleanup()` and `exit(3)` only (`SF_lvars(Ending)`): a call
that blocks returns when what it waits for is possible again and again, since
the kernel wakes the caller and the output leaves while the peer lets it. Nothing is assumed of the start, of the
loop, which need not leave on a signal (`KillEndsOrWaits`), of the transfer program, and of the peer.

`FairRunSpec` (RunCmd) assumes that ppcom and its child run when they can (`WF_vars(Parent)`, `WF_vars(ChildStep)`);
`waitpid()` cannot while there is a child that has not ended. The program is not in it: it need never end.

`FairSpec` (Ffwd) assumes that the server's thread runs when it can (`WF_vars(Server)`), and that of `loop()` while it writes to the
message socket (`WF_vars(Forward)`), which the kernel's scheduler gives; a thread that waits in a `write()`
to a full socket cannot. Nothing is assumed of `loop()` elsewhere, where the user, the terminal or the port may hold it up, signal or not,
nor of the clients: one may stop reading for ever.

## The proofs

`TermProofs` proves for every number of slots, set of descriptors, set of
settings and device (`TermAssumption`: what a device adopts, it adopts
unchanged a second time, HUPCL is always adopted, and the settings a device starts
with are its own):

- `TypeCorrect`: `Spec => [](TypeOK /\ Placed)`. `Placed` says that a slot that
  is in use holds a member of FD, which typing alone does not give: the
  table is zeroed before `term_lib_init()`, and 0 is a descriptor.
- `OriginalKept`: `Spec => []OrigKept`. The inductive invariant is the type
  invariant with `OrigKept`; the step that matters is `term_apply`, which writes
  the original settings, and there HUPCL is all that moves (`KeepHangupMoves`).
- `EachOnce`: under `Strict`, `Spec => []UniqueFds`. A descriptor enters a slot only
  in `term_add`, `term_set` and `term_replace`, each after `term_find()` did not
  find it (`FindSlot`, `FreeSlot`).

- `SettersKeepApart`: `SetterSpec => SetterSetsItsOwn`, and `SettingsReadBack`: `SetterSpec => []SetAllReadsBack`,
  for any set of speeds. The first part of the module has the lemmas that these, the table's proofs and `CommandsProofs` cite: the type
  of what a setter yields, which fields and flags it writes, and what each getter depends on.
- `FailuresAreUndone`: under `Strict`, a call that fails leaves no descriptor in the table that was not there and
  no settings structure other than it was (`FailedCallChangesNothing`). `FailedStep` goes through the calls; in
  `term_set()` it uses that, for ppcom's calls, the slot filled last is the one that is freed.
- `DevicesPutBack`: `ExitRestores`, when only flushes, drains, modem calls and `atexit(3)` fail and no other program sets the device. The
  handler writes the original settings, and they are the first ones in all but HUPCL (`OrigKept`);
  that their HUPCL is the device's is `OneHangup`, which every call keeps that applies anything.
- `GettersTellTheTruth`: `CurrTellsDevice`, with any failing calls, if no other program sets the device. That a slot's settings are
  read back needs that what the device has is what it takes (`Settled`), and that no other slot is of the same device (`UniqueFds`).
- `TableIsMap`: under `Strict`, `Spec => ImplementsMap`, the refinement. `PortIs` gives the map's entry of a
  managed descriptor from its one slot; `EntryMoves`, `EntryJoins` and `EntryLeaves` say what a change of one slot is
  to the map; each call has a lemma that it is the abstract call or a stutter.

The library's search for the lowest slot is CHOOSE; `LowestSlot` and
`HighestSlot` prove that the slot exists, from the well-foundedness of `<` on the naturals.

`SessionProofs` proves for any bytes, keys, maps, sizes and bounds, and any set of failing calls,
from `SessionAssumption` (no mapped byte is longer than `M_MAXMAP`, which is
no more than `TTY_Q_SZ_MIN`; the init string fits; the prompt's end is not one of
its editing keys): `TypeCorrect`, `QueueStaysInBounds`, `AcceptedIsSent` and
`EndOfInputDrains`. None of them is inductive alone. `LoopInv` has five parts:

- `QueueInv`: the bounds of the queue and the order of what it holds. That the
  buffer is never smaller than `TTY_Q_SZ_MIN` makes doubling once enough
  (`DoublingIsEnough`).
- `BytesInv`: what was read and not handled, what waits to be read, and the prompt's line are
  sequences of bytes; the queue's part needs it, because those bytes are pushed.
- `HistoryInv`: the histories of what was handled.
- `ControlInv`: the place, the flags and the bounds of the environment.
- `PlaceInv`: what is known at a place of the turn. The loop waits only when
  it has handled all it read; what `select()` reported of standard input is still there when its
  handler runs; standard input is closed only at its end and when empty. `EofDrains`
  needs all three. Of the port there is nothing of the kind: its input may be gone when `ReadPort` runs.

Each action has a step in the proof of each part; the steps are the lemmas
`QueueStep`, `BytesStep`, `HistoryStep`, `ControlStep` and those of `PlaceInv`.

`KeysActAsTyped` proves `KeysTakeEffect`, a statement about every prefix of what was typed. `KeyInv` adds to it that the state in
which the code handles the next byte is the parity of the escapes the handled bytes end with (`EscapesAtEnd`), and what
happened to each escaped byte so far; one byte more lengthens that run of escapes by one or ends it.

`RefusesOnlyWhenFull` proves `RefusedOnlyWhenFull` from `LoopInv` and `LimitInv`: where there is a limit, the buffer doubled some number of times
is the limit. It needs that of the two sizes of the source (`ReachesLimit`, 32768 is 256 doubled seven times): with a limit that doubling steps over
the buffer would stop short of it and refuse a byte that it could hold. It also assumes that `realloc()` does not fail, since
`tty_q_push()` then refuses the byte, too. The build sets `TTY_Q_SZ` to 0, no limit, and then no byte is refused.

`LifecycleProofs` proves, from `LifecycleAssumption`:

- `LifeUsesTheLibrary`: every step of `Life` is a step of `Term`'s `Spec` or leaves the
  library alone, so that what `TermProofs` proves of the library holds in the program
  (`OriginalsOutliveTheSession`). It needs that the options keep their type, that the
  arguments of `term_set()` at the start are valid, and that nothing is called after
  `exit(3)` (`LifeInv`).
- `TerminalPutBack`: `StdinRestored`. `StdinInv` says that while standard input is managed its
  original settings are exactly those found, and that they equal the next ones in HUPCL:
  the only calls made for it are add, raw and apply, and `term_apply()`, which copies
  HUPCL into the original settings, therefore changes nothing there. While it is not
  managed, nothing touches it.
- `HandlerPutsBack`: `ExitRestores` of the whole program, from `DevicesPutBack` and `LifeUsesTheLibrary`, under the same assumptions.
- `PortPutBack`: `PortRestored`, and `HangupFollowsManual`: `HangupAsDocumented`. The first settings in
  the port's slot are those found (`FoundInv`); what `cleanup()` sets of HUPCL gets
  into the next settings, then into the device and the original settings because its
  apply succeeds, and `exit(3)` or the close then acts on it (`HangupInv`). That nothing else
  changed the original settings is `OrigKept`; that erasing the slot really
  forgets the port is `UniqueFds`.
- `PortKeptByNoreset`: `PortKept`. The apply in `cleanup()` is there to set HUPCL, and it brings into force all
  that is pending. `PendingInv` says that wherever `cleanup()` may begin, what is pending is what the port
  has, so that HUPCL is all that changes, and that at `exit(3)` the port is no longer in the table.

`TerminalPutBack` assumes `CleanupWorks`: where the calls of `cleanup()` fail nothing can be put
back. `HandlerPutsBack` allows `atexit(3)` to fail, too: main() then ends before it adds a
descriptor. The theorems on the port also assume `Strict` (no call with arguments that
ppcom does not use, as `UniqueFds` does) and that the driver takes its own settings back with HUPCL on or off: `TakesHangup`,
of the settings found, which are put back, or `TakesAnyHangup`, of any it has, since `PortKept` is about whatever the
port ends with. HUPCL is a flag that the terminal layer of the system acts on at the close, not one that a device
may lack. `PortKeptByNoreset` assumes besides that only flushes, drains and `atexit(3)` fail (`SettingWorks`). That is no accident of the proof: an
apply that fails, at the start or of a key, or one not reached because a modem call before it failed, leaves its settings pending, and the
apply of `cleanup()` then brings them into force, so that `PortKept` is false;
the run that checks it has no failing calls for that reason.

`CommandsProofs` proves `CommandsCatchUp`, `LinesAsShown` and `WritesFitRate` from `PortAssumption`: no port at the rate 0, which hangs
up, neither found nor set by others; options of the right kind; and a port that does not refuse to change its flow control. `KeyInv` says that what was asked for is pending
in the library (`SettingsInv`), which `SetsItsOwn` keeps since a setter moves no other setting and `StartReads` begins since `term_set()`
sets them all; that the lines shown are, from the second setting of the lines on, those the port has, or lost (`LinesInv`); and that the pending rate is the port's
while the size fits (`SizeInv`), since a key for another setting applies the pending rate, too. `Applies` says once what
`term_apply()` leaves, however it ends, and `NextRates` that the keys step to a rate of the table that is not 0.

`ProcessProofs` proves of `UucpLock`, for any set of processes, from `LockAssumption` (the number in the old file is
none of theirs), `AtMostOneHolder` and `LoneProcessLocks`. `OneHolder` alone is not inductive, since a process
that is about to write does not yet stand in the file. `LockInv` adds that the holder made the file that is
there and that one maker at most has passed the creation (`HolderMadeIt`, `MakerPassed`), that an empty file
has a maker that is about to write or was killed (`EmptyIsTorn`), and that what a process found stale was so,
and nobody's that is alive, unless the readers overlapped (`StaleIsStale`).

It proves of `RunCmd`, for any failing calls and any numbers of commands and signals `CommandLeavesNoTrace` and
`ProgramFindsItsPlace`. `RunInv` says where there is a child (`ChildInv`), what ppcom's mask, actions and `old_action`
are at each of its places (`SignalInv`), that without a child the terminal is raw (`TerminalInv`), that only the program changes
the port (`PortInv`), and what the child has done at each of its places (`WayInv`). `CommandIsTransfer` is the refinement, `ImplementsTransfer`: the
fork begins a transfer, however a signal falls it moves nothing or ends the child (`SignalIsEnd`), and the exit of a child that found no program to run
undoes nothing, because its copy of the table is empty by then. What a signal may do to the child, end
it and nothing else, is said once by the lemmas on `Deliver`.

And of `FfwdSrv`, for any finite sets of clients and any bounds, `ClientsHearOthers`: `HearsTheOtherPort`. `SrvInv` says
that a number that is open is one connection's and its callback is that of the connection's port (`NumbersInv`); that a connection with a number that nobody had before
is once in its own port's list and never in the other's (`ListsInv`); and that while the buffer is being written, each such client
of the other port has been told all that was said since it came, or all but the buffer if its number is still among the targets
(`SinceInv`, `HeardInv`). The lists only grow, so a number given again may be in both, which is why the property excepts it.

`InputProofs` proves what the run `settings_maps` checks of what the user writes:

- `MapAsDocumented`: `MapFollowsManual`, for all bytes, where the run takes nine. The code tests the character
  and then flags, the manual lists mappings and says that the first that applies is taken. For each of the eight classes of characters
  that the code tells apart, the manual's mappings that apply to it are, in the manual's order, the flags that the code tests (`RowsFollow`);
  the first that is set is then the same (`FirstIs`), and what it maps to is the same text (`RowTexts`, `HexIs`).
- `SplittingFollowsHeader`: `SplitFollowsHeader`, for commands of any length and any room, from `SplitAssumption` (no character is of two
  kinds). What the lexer has lost cannot be read back from it, so the property is not inductive. `SplitInv` says that
  the lexer's state is the one of the quotes that what was written is within (`Agrees`), that its arguments are the first `ArgvSz` of
  the words so far and its buffer the first `MaxArg` characters of the one begun, and that its flags say of each word whether it was cut or
  dropped; or that the last piece was a backslash before nothing. `Saves`, `Pushes` and `Ends` are what `save()`, `push()` and the end of the
  string do to that; `Delimits`, `Outsides`, `Quoted`, `Opens` and `Closes` say it of each piece that can be written.
- `ParsingFollowsManual`: `OptionsFollowManual`, for command lines of any length, from `OptionsAssumption`. `OptInv` says that
  each setting has the value that the code takes from the latest argument that gives it, or the code's default (`ValueAppend`: one more argument gives its own settings
  and leaves the others); `TablesDocumented`, `TakenIs` and `ValueAsked` say that but for `Differs` this is the manual's value, that a wrong argument is the last one, since nothing is read after it (`WrongAppend`), and how it ended the program. `--exit` and
  the pairs that exclude each other are looked at once at the end: `SwitchValue` says that a switch is set exactly when it was given.

`FfwdProofs` proves for any finite sets of clients, any room, size of a read and bounds (`FfwdAssumption`) `FfwdTypes`,
`TablesAlwaysAgree`, `PortsStayApart` and `AlwaysHeardInOrder`. `FfwdInv` is their invariant:

- `DescriptorsInv`: a number is one connection's, in the list of its port once and in no other, with that port's callback;
  numbers of no connection are in no list. That a new one can be found is the pigeonhole lemma `FreeFd`.
- `OwnInv`, `QuietInv`: until `ffwd::init()` has made ppcom's own two connections, nothing is on its way in them or pending for them;
  nothing is on its way to a client that has gone or is not accepted yet.
- `TargetsInv`: what the server's thread has still to write to has no number twice, and each is that of an accepted connection.
- `SpeakersInv`: each byte on its way to the server is its sender's (`SpokenInv`); the targets may hear every byte of the
  buffer, and what is still to be written is the end of it (`BufferInv`). `PortsApart` follows.
- `PortInv`, `OrderInv`: what `loop()` has still to write and what is on its way to the server are the last bytes of the port,
  in order; the buffer has a run of the port's bytes, or none at all (`RunInv`); and each accepted client is ready for the next
  one of them that it will be written, which is in the buffer while the client is a target and in the socket otherwise (`Ready`).

`Without`, the list less one member, is a recursive function there: the prover knows nothing of the library's SelectSeq.

Every safety property that a passing run checks is a theorem. Only model-checked is liveness (`ForwardEnds`, `EofEnds`, `KillEndsOrWaits`,
`ExitReached`, `KillEndsCommand`): it is proved from fairness, and ENABLED is out of the prover's reach. What the three
runs with a violation show is that a property does not hold.

## Disagreements between the code and its documentation

Three have a run that expects the violation; `PROJECT.json` has the quotations.

- The exit command may abort ppcom before it has put the port and the terminal back: the
  server's thread outlives the epoll descriptor, and what its next wait throws is not
  caught (`ffwd_exit`).
- A settings key handled while the queue is not empty may end the program
  with "write to port failed" (`session_fatal`).
- `igncr` and `ignlf` do not ignore a byte: the empty result fails the assertion of
  `do_map()`, and ppcom aborts, with assertions compiled in (`char_map_ignore`).

Others are named as the exceptions of properties that otherwise hold:

- `term_set()` on a new descriptor frees slot 0 instead of the slot it took when an
  argument is refused (`Strict`, `term.cpp:1305`). ppcom itself only calls it on an empty table;
- `loop()` and the server's thread may wait for each other, or for a client, for ever, and a
  signal does not end that (`ForwardEnds`, `ppcom.cpp:1570`);
- when ppcom cannot connect to its own server, `setup_socket()` returns 1, which `init()` takes for a descriptor: the port's bytes
  are written to the standard output a second time, `loop()` selects and may read it as the control socket, and `ffwd::exit()`
  closes it (`setup_socket`, `ffwd.cpp:174`). `Ffwd` has the second copy; what is read from a standard output is not modelled;
- a second TERM that the handler sends may abort ppcom instead of ending it (`deadly_handler`,
  `ppcom.cpp:1658`), as does a second ppcom on the same machine (`startSrv`, `ffwd.cpp:85`);
- after a client's end of file the others are sent an uninitialised buffer, which from the control
  port is typed (`EpollCallback`, `ffwd.cpp:24`);
- a signal between the test of `sig_exit` and `select()`, or before a prompt, goes
  unnoticed until the next input (`KillEndsOrWaits`, `ppcom.cpp:1468`);
- after a transfer the port is in blocking mode, and a write on a stopped port is
  not ended by a signal (`KillEndsOrWaits`, `ppcom.cpp:1599`); nor is the read of a port whose input was flushed by a settings
  key, or taken by a transfer, in the turn that was to read it, and neither does the end of the input end
  that (`EofEnds`, `KillEndsOrWaits`, `ppcom.cpp:1557`);
- with `--noinit` the fake flush goes by the option and not by the port's flow
  control (`HeldByPeer`, `ppcom.cpp:679`);
- a drain restarts on EINTR and ignores a signal (`ExitReached`, `HeldInDrain`, `term.cpp:1606`);
- a failed `fork()` puts the mask back and leaves SIGINT ignored from then on (`BackAsBefore`, `ppcom.cpp:1102`);
- a signal that ppcom handles before the fork does not reach the program that it then starts (`KillEndsCommand`);
- two processes that find the same stale lock may both remove and create one; an empty file is read as whatever was in the
  buffer; and `cleanup()` unlinks the lock before the exit handler has put the port back (`OneHolder`, `ppcom.cpp:355`);
- a pulse of DTR that fails half-way leaves the line low and shown as it was (`LinesAgree`);
- a change of the rate that failed and is completed by a later key leaves the write size (`WriteSizeFits`);
- `--logfile NAME` without "_date" in it leaves the name empty: the log cannot be opened and ppcom ends
  (`Differs`, `ppcom.cpp:2012`, where the manual, `ppcom.1.md:341`, asks for nothing of the name); with "_date" the longer name, with the time,
  is copied over the arguments that follow (`got.lost`, `ppcom.cpp:2027`);
- without `--escape` the escape character is C-q where the manual says C-a (`Differs`, `ppcom.cpp:1789`);
- the function characters are plain ones, `x` for exit and `q` for quit, where the manual says C-x and C-q (`NORKEY`,
  `ppcom.cpp:117-138`). `Session` takes the keys as a constant, so that no property depends on it;
- the stand-alone server writes to the numbers of clients that have gone, and what its buffer held after
  an end of file; it ends with an exception when a port is taken or a wait is interrupted (`FfwdSrv`).

## Plan

Done: every part of the table above that has state of its own, but for those listed under "Not modelled".
What would come next is the end of ppcom with `Ffwd` and `Lifecycle` composed, so that `StdinRestored` can be stated with the server's abort.

## Not modelled

- `flock()`, of `USE_FLOCK`: one kernel call; `UUCP_LOCK_DIR` is modelled although neither is compiled in by CMake.
- The pipe and fifo classes of libffwd: the stand-alone server makes the objects and does not use them.
- linenoise, vendored and not compiled by CMake; the termios2 and BSD shims for custom baudrates, which translate one
  structure into another; the demonstration clients `ppcom_cli` and `ffwd_cli`.
- Usage, help, status and error texts, the escapes shown for control characters, and the build files.

The build modelled is that of `build_ppcom.sh`: assertions on, no linenoise.
