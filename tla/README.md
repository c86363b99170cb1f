# cheops-ng: a TLA+ verification project

cheops-ng maps and monitors a network.  An *agent* (`cheops-agent`) pings,
scans and traces hosts; *clients* (the GTK GUI, a shell) connect to it over a
UNIX or IPv4 socket, send it requests and get replies.  This directory holds
TLA+ modules of the agent, of the GUI and of the DNS resolver the GUI is linked
with, the TLC configurations that check them on small instances, and TLAPS
proofs of what the agent's modules, the resolver and most of the GUI's promise
for every instance.  Every
definition is taken from the C code; `PROJECT.json` names the lines of each one
under `map`.

Contents

1. [The system](#1-the-system)
2. [Modules and how they correspond to the code](#2-modules-and-how-they-correspond-to-the-code)
3. [Runs and bounds](#3-runs-and-bounds)
4. [Fairness](#4-fairness)
5. [Sensitivity](#5-sensitivity)
6. [What the models show of the code](#6-what-the-models-show-of-the-code)
7. [Proofs](#7-proofs)
8. [What is not modelled, and why](#8-what-is-not-modelled-and-why)
9. [Plan](#9-plan)
10. [How to run it](#10-how-to-run-it)

## 1. The system

### How the agent works

The agent is one process with one main thread and, for nmap, a scanner thread.
The main thread is an event loop (`cheops-main.c`): compute how long the first
timer leaves (`cheops_sched_wait`), `poll()` that long, call back every
descriptor with an event (`cheops_io_wait`), then every timer that is due
(`cheops_sched_runq`).  Everything else is a callback of that loop:

```
   clients                    main thread of the agent                 network
  ---------   bytes    +--------------------------------+
  GUI, shell --------> | handle_agent      [Framing]    |
                       |   | whole events               |
                       |   v                            |
                       | handler of the request [Agents]|
                       |   |        |        |          |
                       |   |        |        +- probes  |  TCP connect
                       |   |        |         [Probe] --+---------->
                       |   |        +- pings [Discover] |
                       |   |           traces [MapTrace]|  ICMP
                       |   |             ^              +---------->
                       |   v             | answers      |<----------
                       | scan queue      +--------------|
                       |   |        ^                   |
              reply    |   |        | osscan_timer      |
  <--------- event_send|   v        |  [OsScan]         |
                       +---+--------+-------------------+
                           v        |
                       scanner thread: nmap [ScanReports]
       all of it on:   descriptors [IoTable]   timers [Sched]
```

A request that takes time keeps the pointer of the `struct agent` that asked;
the answer is written with `event_send`, which looks the pointer up in the list
of agents.  State is shared by pointer between a descriptor callback and a
timer (probes, traces, discovery), and between the two threads (scans).
Nothing is persistent: there is no recovery after a crash.

### How the GUI works

The GUI is one GTK main loop; `gui-io.c` and `gui-sched.c` give it the interface
of the agent's descriptors and timers.  The user asks for something
(`gui-handlers.c`), perhaps after a name lookup (`gui-dns.c`, adns); the replies
of the agent create and change the objects of a page (`gui-viewspace.c`,
`gui-canvas.c`).  A handler that waits for a lookup or for a dialog runs the GTK
loop itself, and other handlers run inside of it:

```
   user --> menu, dialog --> [Requests] --- request --> agent
                                ^   |                     |
                  lookups [Adns]+   |  inner GTK loop     | reply
                                    v                     v
   page: hosts, groups, links  <----+---------- handlers of replies
         [Canvas]                               [Requests] [HostInfo] [ScanReports]
   settings: services, pixmaps, scripts [Settings]   scan options [ScanOptions]
   commands in threads of their own [Commands]       configuration file
```

What the GUI keeps across a restart is its configuration file: pages with hosts,
groups and links, the lists of the settings dialog and the options.

### Inventory of components

The agent:

| component | source | state | operations | what makes it correct | status |
|---|---|---|---|---|---|
| Timer queue, main loop | `sched.c`, `cheops-main.c` | `schedq`, `eventcnt`, `schedcnt`, cache of structures; where the loop is | add, del, wait, runq | it is a set of timers with exact deadlines; the loop never sleeps past one nor spins; every timer runs | `Sched`, `Timers` |
| Descriptor table | `io.c` | `fds[]`, `ior[]`, `fdcnt`, `maxfdcnt`, the ids | add, remove, grow, shrink, wait | an id leads to its owner's entry although entries move; the arrays are large enough; every ready descriptor is served | `IoTable` |
| Connection framing | `event.c` | `buffer`, `write_ptr`, `expected_length` of a connection | `handle_agent` | events come out whole, once, in order, however reads split or join them | `Framing` |
| Connection list, authentication | `event.c`, `cheops-agent.c` | `agents`, flags, ids; requests under way | accept, dispatch, login, destroy, `event_send`, exit on a signal | no freed memory is used or freed again; nobody is served before a login; replies do not reach somebody else while the asker is there | `Agents` |
| OS scan | `agent-osscan.c` | `os_detect_q`, its counter and semaphore, three mutexes, `ebuf_os`, `agent_to_send` | enqueue, scanner loop, reply, timer | replies whole, in order, to the asker, once | `OsScan` |
| nmap reports | `agent-nmapxml.c`, `agent-osscan.c` | the receive buffer a request is read from, `ebuf_os` a reply is written to | command line, parser, reply | nmap is run as asked; what is shown is what nmap printed | `ScanOptions`, `ScanReports` |
| Route tracing | `agent-map.c` | `mrq`, `timeout_installed` | start, sweep, answers | the links of a trace are the path; every trace ends | `MapTrace` |
| Probes | `probe.c`, `agent-probe.c` | one `probe_data` shared by two descriptors and a timer | `get_version`, send, receive, timeout | whoever comes first takes the others back before it frees | `Probe` |
| Discovery | `agent-discover.c`, `cache.c`, `agent-settings.c` | `pingQ`, cache of hosts, retries | request, `ping_send`, receive | every host is pinged, replies name the right request, sweeps end | `Discover` |
| Start-up, errors | `cheops-agent.c`, `cerror.c` | command line, table of handlers | | | no state of its own |
| Agent DNS | `agent-adns.c` | | | | compiled out |

The GUI and the rest:

| component | source | state | what makes it correct | status |
|---|---|---|---|---|
| Requests and replies | `gui-handlers.c`, `cheops-osscan.c` | requests that wait for one or two lookups, the cache of service names | a late reply reaches the page that asked, if it still exists, and the host it is about | `Requests`, `HostInfo`, `ScanOptions`, `ScanReports` |
| Name lookups | `gui-dns.c` | list of lookups, its timer, a cache of names | one answer each, in spite of re-entry through `gtk_main_iteration` | `Requests` |
| Pages | `gui-viewspace.c` | pages with their objects | `is_valid_net_page` protects every use after a delay | `Requests`, `Canvas` |
| Canvas | `gui-canvas.c` | hosts, groups of merged hosts, links, icons, properties windows | merging and unmerging keep chains, primaries and links consistent; windows and objects stay together | `Canvas`, `HostGroups`, `HostInfo` |
| Services | `gui-service.c`, `script.c` | lists of services and scripts, list of running commands with its mutex | each list is a table; the threads leave the list whole | `EntryLists`, `Commands`, `Settings`, `Tables` |
| Windows, configuration | `cheops-gui.c`, `gui-settings.c`, `gui-config.c`, `gui-pixmap.c` | rows of the settings dialog, options and flags, the file | Edit and Delete hit the row that is meant; what is read is what was saved | `Settings`, `ScanOptions`, `Canvas` |
| Event loop | `gui-io.c`, `gui-sched.c` | GTK's | a timeout is not entered while it runs | in `Requests`, `HostInfo` |
| adns | `adns-1.0/` | queries in four queues, children, one TCP connection | queues consistent; the caller sleeps only when there is nothing to do; every query ends | `Adns` |
| Monitoring | `gui-monitoring.c`, `cheops-monitoring.c` | lists of sessions | | unfinished, compiled out |
| Address utilities | `ip_utils.c`, `misc.c` | none | range and netmask arithmetic | ranges in `Requests` |
| Shell client | `cheops-sh*.c` | | one request at a time | not modelled |
| Logging | `logger.c` | | | output only |

### What is hard about this code

* *One structure, several callbacks.*  A descriptor callback, a timer and a
  reply handler share memory that the first of them may free; ids and addresses
  are kept across returns to the loop and used again later (`Agents`,
  `IoTable`, `Sched`, `Probe`).
* *Memory that is used again.*  `malloc` returns the address of a destroyed
  agent for the next one, and `event_send` knows agents by address (`Agents`);
  the same happens to probes, requests, pages, hosts and the ids of descriptors
  (`Probe`, `Discover`, `Requests`, `HostInfo`, `IoTable`).
* *Two threads and one buffer.*  The scanner writes the reply that the main
  thread sends, and the main thread takes it with a `trylock` every 800 ms
  (`OsScan`); every command of the GUI is a thread on one list (`Commands`).
* *A loop inside a handler.*  Dialogs and lookups run GTK's loop, so a handler
  goes on in a world that other handlers have changed (`Requests`, `HostInfo`).
* *Pointers among pointers.*  Chains of merged hosts with links that are drawn to
  the primaries (`Canvas`); queries with children in four queues (`Adns`).
* *A byte stream that is cut anywhere* (`Framing`), *and buffers that keep what was
  in them* (`ScanOptions`, `ScanReports`).
* *A network that loses, delays, reorders and doubles* (`MapTrace`, `Discover`).
* *Widths and truncation*: `timeval` carries, an integer division of a negative
  difference, unsigned counters and differences (`Sched`, `IoTable`, `Framing`,
  `Discover`).
* *What the screen shows and what the code goes by*: row numbers, highlighting, the
  list a click works on (`Settings`, `Canvas`).

`PROJECT.json` lists each of these under `hazards`, with its line and the
properties that would catch it.

## 2. Modules and how they correspond to the code

Each component has a module (state, actions, properties) and an `MC` module with
its small instance; the modules that are proved about are taken up, one or two at a
time, by a `Proofs` module.  Properties
stand at the end of the component's module, each with the code it is about.
Modules that are composed, or proved about together, name their parts after
themselves (`AgentsInit`, `DiscoverSpec`, `InfoNext`, `IoSpec`, `ProbeTypeOK`).
Actions bear the names of the functions they model.

### Sched and Timers (`sched.c`, `cheops-main.c`)

| variable | code |
|---|---|
| `schedq`, `eventcnt`, `schedcnt`, `schedccnt` | the variables of `sched.c`; the linked list is a sequence |
| `now` | `gettimeofday()` |
| `current`, `pc`, `sleep` | the running entry, where `cheops_main` is, the wait it passed to `poll()` and when it was computed |
| `dead` | history: ids that were deleted or returned 0 |

`cheops_sched_add` and `cheops_sched_del` happen inside any callback;
`SleepUntilHead`, `PollReady`/`PollTimeout`, `IoDone`, `RunHead`,
`RunAgain`/`RunOnce` and `RunqDone` are the loop.  Time passes between any two
steps (`Tick`), so a timer may become due in the middle of another's callback.
Times are seconds and microseconds with the code's field-by-field comparison:
`sched_settime` leaves `tv_usec = 1000000` alone, `cheops_sched_wait` truncates
towards zero and `RunLimit` adds its millisecond without a carry.

`Timers` is what the callers are promised: a set of pending events with exact
deadlines on one clock, of which the soonest runs, at most a millisecond early.
`Sched` implements it: the refinement mapping reads the queue as a set and each
`timeval` as a number (`ImplementsTimers`, checked and proved).

### IoTable (`io.c`)

| variable | code |
|---|---|
| `table` | `fds[]` and `ior[]`, the first `fdcnt` entries |
| `cell` | the `int` behind each id (`0`: the address is free) |
| `held` | the id that the owner of a descriptor keeps |
| `maxfdcnt` | unsigned, modulo `Wrap`; `Room` is the size of the arrays |
| `x`, `busy`, `removing` | the loop variable of `cheops_io_wait`, `current_ioc`, `remove_current_ioc` |
| `ready` | descriptors with an event |

`io_shrink` moves the last entry into the hole and repairs its `int`.  A
callback may add entries, may remove its own (`RemoveSelf` only sets the note)
and may return 0; other entries are removed by timers, outside the loop, as
all callers in `src/` do.  A freed `int` may be allocated again at once.

### Framing (`event.c`, `handle_agent`)

The bytes of a connection are offsets of a stream; `ends` says where each event
ends, `base` is the offset of `buffer[0]`, `wp` is `write_ptr - buffer`.
`ReadFirst` and `ReadMore` are the two branches of the read, with any number of
bytes from one to what has arrived and fits; `Dispatch` is one turn of
`goto again`; `Return` goes back to `poll()`; `BufferFull`, `Destroy` and the
disjunct of `Advance` that sets `pc` to `"removed"` are the ways it ends.
`Length` yields any value when the length field is not at the front or not
complete: reading it then is reading whatever the buffer holds.

### Agents (`event.c`, the signal handler of `cheops-agent.c`)

A cell is an address of a `struct agent`; `mem` says which connection it is in
use for, `loggedIn` is the flag in that memory (it survives `free`), `id` the
entry of the descriptor table, `polled` the connections in that table.
`Accept`, `Request`, `Login`, `TooLarge`, `Notice` + `Destroy`
(`event_destroy_agent` in its two halves), `event_send` and `myexit` are the
operations; a signal may come between the halves.  A `pending` request keeps
the cell, as the request structures of all handlers do.  `event_cleanup` destroys
what is left in the list; an agent whose id went with too large an event has
`cheops_io_remove` read that freed id, so `myexit` then leaves open how much of the
list, the memory and the descriptor table is taken apart.  `asker`, `served`,
`proven`, `sent` are history.

### OsScan (`agent-osscan.c`)

`queue`, `outstanding` and `sem` are the list, its counter and the semaphore;
`spc` is where the scanner thread is and `mpc` where the main thread is;
`buffer`, `to`, `taken` and `writer` are `ebuf_os`, `agent_to_send`,
`os_read_mutex` and `os_write_mutex`.  One action per step that the other
thread can see: the request is in the list before the semaphore is posted, the
buffer is filled in two steps, `agent_to_send` is set and the read mutex
unlocked outside every mutex.  `ScanFails` is a scan without a result, of which
nobody is told; `NoAddress` is a report without an IPv4 address, over which
`inet_addr(NULL)` ends the agent (`AgentEnded`).  A request whose `np` is `NULL` is dropped
by `enqueue_osscan` and changes nothing.  `rushed` is history: a reply was built while the one before
was still waiting.

### ScanOptions and ScanReports (the way of a scan through both programs)

`ScanOptions` follows the options: check buttons, combos and the ports of the
settings dialog, the flags derived from them (`apply_the_setting`: the flags a
setting is about, `FlagsOf`, give way to those the options ask for, `SetBy`), the file
(`write_options`, `read_options`, the parts of the two functions for the
configuration file that are about options), the request of the GUI, the receive buffer of the agent, nmap's command line.  The
buffer is never cleared and the request ends with the last character of the
ports, so what stands behind it is what another request left, or the first bytes
of the next.  `asked` records what the command was asked for with, `longest`
the longest text that has been there.

`ScanReports` follows the answer: a document of nmap (a root node and at most one
host), what `parseNmapScan` makes of it, the reply as cells of memory in `ebuf_os`,
which keeps what the last reply left there, `TakeOption` in the GUI, the cache of service
names and the menu.  A cell is the fixed part of an option, a character or a NUL.  The
loops over hosts, ports and options are one operator, `Thread`.  An
attribute that a node has not is `None` and changes nothing: an address without
`addr`, an uptime without `seconds`, of which the agent then reports nothing.

### MapTrace (`agent-map.c`)

`trace` holds every request ever started (those in `mrq` are in the list), with
`ttl`, `retries`, the last hop and the links sent.  `start_mapping`,
`map_timeout` with its sweep over at most `MAP_TIMEOUT_MAX` late requests,
`TimerEnds`, `TimeExceeded`, `DestUnreach` and `EchoReply` (the cases of `handle_map`) are the
code; `DestUnreach` may come from any host at any time, since the code asks neither
whether the packet that was refused was one of a trace nor how far the trace has got.
`Path`, `net`, `Lose`, `Kept` and `OpenSocket` are the network and the
discovery that opens the socket the answers arrive on.  A sweep may be late by
any amount (`Late` only marks a request).  `disturbed` is history: hosts for
which two probes, two requests or a doubled answer can be confused.

### Probe (`probe.c`, `agent-probe.c`)

`pd` is what the `struct probe_data` at each address holds (also after it was
freed), `used` the addresses that are allocated, `table` and `timers` what is
registered with that address as data, `ud` the requests whose user data is
allocated.  `get_version`, `send_cb`, `recieve_cb` and `timeout_cb` are the
functions of these names, with what they call: `Removed` is `cheops_io_remove`
by id, and an id that was freed may lead to somebody else's entry.  `Refuse` is
a request that ends in `get_version`.  Whether and when the host answers is
free, so an answer and the timeout of one turn of the loop come in any order.

### Discover (`agent-discover.c`, `cache.c`, `agent-settings.c`)

`pingQ` says what each `struct ping_q` holds, `timers` which calls of `ping_send`
are scheduled, `Cache` and `ping_retries` are the globals.  `ping_send` is one
turn: an echo request, or a reply from the cache, and the delay of the next call;
`ping_send_done` is the turn that ends a sweep, with the delay until the next one
as the code computes it.  The echo carries the address of the structure and an
answer is matched by it, so memory used again is a request that gets another's
answer.  An answer may come at any later time, any number of times.  `asked`,
`tried`, `found`, `answered` and `stranded` are history.

### Requests (`gui-handlers.c`, `gui-dns.c`, `gui-viewspace.c`)

`structs` are the `struct discover_dns` that wait for names, `dns_query_list` and
`dns_timer_int` the lookups and their timer, `stack` the handlers inside of which
a GTK loop runs, `open` the pages and `objects` and `links` what is on them, `sent`
the requests the agent has still to answer, each with the address of its page.
`handle_map_icmp_reply` is a sequence of steps (`MapFirstEnd`, `MapSecondEnd`,
`MapLink`), because every host it adds may start lookups;
`NameForNothing` is a reverse lookup that names an object whose memory is free, after which
nothing is said of the program (`misnamed`); `dns_timer_answer`,
`dns_timer_fail` and the two answers to its dialog are the ends of a lookup.
`Network` and `NetSize` stand for what `ip_utils.c` computes of an address and its
mask.

### HostInfo (`gui-handlers.c`, `gui-canvas.c`, `gui-pixmap.c`)

`hosts` holds what is known of each host (system, services, icon, its window),
`windows` the properties windows with the pages of their notebooks, `menu` the open
menu, `handlers` the handlers that run: a host whose system has no pixmap opens a
dialog in the middle of `page_object_display`, and `reverse_lookup_cb`
(`ShowNamed`), replies (`ShowDiscovered` and those under their own names)
and the rest go on inside of it.  `lookups` are the reverse lookups under way, each
with the object it was begun for (`ShowDiscovered`, `LookUpNames`); when one ends,
`ShowNamed` looks into that object whether or not it was deleted: the memory may
serve another host by then, or be free, where it still says what it said or does
not any more.  What is known carries the address it is about
(`of`), which is how `InfoBelongs` can tell.  `broken` and `misused` are history:
where freed memory was used and what the user had done.

### Canvas and HostGroups (`gui-canvas.c`, `gui-viewspace.c`, `gui-config.c`)

`np` is a page with its pointers: `merge` (the next of a chain), `merge_primary`,
the list of links of each host, the ends of each link as hosts and as what they
are drawn to.  The operators before the actions are the functions that the
operations call one after the other (`page_object_merge`, `page_object_unmerge`,
`page_object_link_destroy` and so on), from one state of the page to the next, so
an action is the whole handler.  `plink` is the list an operation works on, `highlighted` what the user
sees.  `Restart` saves the page and reads it back.

`HostGroups` has no pointers: for each host the member its group is shown as, and
the pairs that are linked.  `Canvas` implements it (`ImplementsHostGroups`).

### EntryLists, Commands, Settings and Tables

`EntryLists` has the operations that `gui-service.c`, `gui-pixmap.c` and `script.c`
share in form: find, add, change, remove, with what each list does when the key is
there already.  Lists are sequences of addresses; what a function finds by going
through a list from the head is the place with the least number that fits
(`FirstHolder`, `PlaceOf`), and lines that are added one after another are a recursive
function (`AddAll`).  `Settings` adds the dialog (`rows`, `row_number`, `high`, the row
GTK shows), the lookups that extend a list while the dialog is open, and saving,
opening, quitting and starting; its `file` is what the list part of the
configuration file holds.  `Commands` is the list of running commands: `pc` of
each thread, the mutex, the pointers read and written one at a time; `Pointers` is
what they lead through from the head and `ThreadList` what `thread_list` is that way.  Its
steps (`CommandsNext`) are the disjunct `Command` of `Settings`' next step.  `Tables` is a table from keys to values and
its saved copy; `Settings` implements it for each of the three lists
(`ImplementsTables`).  `Preferences` puts `Settings` and `ScanOptions` together: all
that the settings dialog edits, and `SettingsAreObeyed` of both.

### Adns (`adns-1.0/src`)

`ads` is the library: queries with their states, queues, parents and children,
retries, and the TCP connection.  A call of the library is one action, written as
operators from one state to the next under the names of the C functions
(`adns__query_send`, `tcp_events`, `adns__query_fail`, ...).  What the sockets do
during a call is chosen when it begins (`Sockets`): which writes fail, how many
connects are refused at once, and whether after those one is made or none (`down`:
there is no socket for it, or all servers go on refusing).  `smashed` says that the pointer to the receive
buffer has been written over.  `aborted` names the assertion
that failed, the memory that was misused or the loop that does not end.  A loop of the code that goes through
a queue, the children of a query or the servers is a `Thread`, one operator applied
again and again, and one round of the loop has a name of its own (`TryServer`,
`OneTimedOut`, `GiveUpNext`, `TcpEvent`).  Of the clock a query knows only whether its
timeout is over (`late`).  The one instant at which `now` equals the timeout is left out: both
passes of the code then find the query not late, the wait is computed as 0, and the
caller comes back to do nothing.

### How the modules fit together

`Sched` and `IoTable` are the two halves of the main loop.  What the others
need of them is one liveness property each: that a descriptor with data is
called back (`EveryEventServed`, used for the fairness of `Framing`'s reads) and
that a timer runs (`EveryEventRuns`, used for the fairness of `OsScan`'s timer,
`MapTrace`'s sweep, `Probe`'s timeout and `Discover`'s `ping_send`).  `Probe`
also uses that ids of timers are never used again (`IdsNameOneEvent`), and gives
back what `IoTable` assumes of callbacks: inside the loop none removes an entry
but its own (last part of `CallbacksAreLive`).  `Framing` is one
connection of `Agents`: its `Dispatch` is a `Request` or `Login` there, its end
`"removed"` is `TooLarge`, `"destroyed"` is `Notice`.  `OsScan`, `MapTrace`,
`Probe` and `Discover` are kinds of `pending` work in `Agents`; all keep the
agent's address.  Each is checked against its own environment, because their
product would be far larger than what the properties need.

`Requests` and `HostInfo` look at the same handlers of the GUI from two sides: which
page and object a reply reaches, and what it does to a host that is shown.  They
share no variable, so `MCRequests` checks them in one run: `part` says which of the
two a behaviour is of, and `MCNext` takes its steps.  `MCOsScan` does the same with
`OsScan`, which says when the reply of a scan leaves and for whom, and `ScanReports`,
which says what is in it and what becomes of that in the GUI; the fairness is that of
the scans.  So does `MCSettings` with `Preferences`, whose two parts,
`Settings` and `ScanOptions`, share no variable either: in each of its behaviours one
of them takes all the steps, since every order of the steps of both would multiply
the states and add nothing to what either may do.  Every action of each part fires when the part runs
by itself.  `Settings` composes `EntryLists` and `Commands` by `EXTENDS`.
`Canvas` takes the objects and links that `Requests` creates and works on them;
`PagesHoldHosts` of `Requests` is what lets `Canvas` name an object by its host.
`Requests` sees of `Adns` what `adns.h` promises, a lookup that ends with an answer
or a failure, which is `EveryQueryEnds`.

## 3. Runs and bounds

All runs pass.

| run | distinct states | shows |
|---|---|---|
| `sched` | 155,462 | the queue implements a set of timers; the wait; every timer runs |
| `io_table` | 53,944 | ids, entries, the size of the arrays, every event is served |
| `framing` | 6,492 | whole events, in order, none kept back unless split |
| `osscan` | 3,760 | wake-ups, whole replies, the right client, every scan is answered; what is shown is what nmap printed |
| `agents` | 256,402 | memory, logins, replies |
| `map_trace` | 203,738 | connected and true paths, every trace ends |
| `probe` | 36,252 | no callback outlives its data, one end for each probe |
| `discover` | 152,956 | true replies, no address left out, every request ends |
| `requests` | about 1,281,100 | lookups, pages, windows and what is shown of a host |
| `canvas` | 33,824 | the pointers implement groups and links |
| `adns` | 15,031 | queues, waiting, every query ends |
| `settings` | 146,969 | the lists implement tables; what the user set is what is done |

What the properties say.  Where one has a premise ("as long as", "unless"), the
premise is a behaviour of the code that breaks it, found by TLC; section 6 has
the list.

* **sched.**  `ImplementsTimers`: with deadlines that are not normalised the queue
  is still a set of events with exact deadlines; a callback starts less than a
  millisecond early and never before one that is due sooner; an id names one
  event for ever, so a late `cheops_sched_del` is harmless.  `WaitMatchesHead`:
  the truncated wait ends less than a millisecond after any deadline, and a wait
  of 0 always finds a timer to run, so the loop neither sleeps too long nor spins.
  `EveryEventRuns`: no timer is starved.
* **io_table.**  `IdsLeadHome` is the promise of `doc/IO.txt`.  `EntriesAreHeld`:
  nobody is called back who gave the id away.  `ArraysLargeEnough` holds although
  the test for growing is inverted: the unsigned start value makes the first add
  grow, and each later add grows again when there is room.  `EveryEventServed`:
  an entry that was moved past the loop variable is served in a later pass.
* **framing.**  `InStep`: the front of the buffer is always the start of the next
  event.  `HandsOutWholeEvents` and `EveryEventHandled` hold unless the handler
  once returned with more than the length but less than the event in the buffer
  (`split`).
* **osscan.**  `WakeUpsMatchRequests`: list, counter and semaphore agree at every
  point where one is ahead.  `RepliesAreWhole`.  `RepliesReachAsker` and
  `EveryScanAnswered` hold until a scan ends before the reply of the last one was
  sent (`rushed`): there is one buffer and nobody looks whether it is in use; and
  `EveryScanAnswered` until the agent ends (`AgentEnded`).
  `ReportsAreTrue`: what is shown is what nmap printed: the reply is found again
  option by option in memory that older replies have used.
* **agents.**  `ListIsAllocated`: no double free and no callback with freed data,
  with a signal at any point, and the agent that is being destroyed still has its
  id; the freed id of an agent that sent too large an event is used on exit only.
  `ServedAfterLogin`: the flag of an earlier client in
  the same memory is of no use.  `RepliesOfTheLiving`: a reply may reach another
  client, but only after the one that asked has hung up.
* **map_trace.**  `LinksFormPath` holds whatever the network does;
  `UndisturbedPathIsTrue` says when the path is also the true one, and that a host that
  refuses a packet cuts it short: the last link then leads from the last hop that was
  found to the host.
  `EveryTraceEnds` needs no answer at all, only the timer that ends itself and is
  installed again.
* **probe.**  `CallbacksAreLive`: whatever is registered has allocated data that
  knows it, and a probe under way has all it needs to end.  `OneOutcome`: an
  answer or the timeout, never both, and never meant for a later probe in the
  same memory.  `EveryProbeEnds` is about probes with a timeout: one of 0 ms gets
  no timer.
* **discover.**  `RepliesAreTrue`: a reply names an address of the asker's range from
  which an answer came, through memory used again and cache entries of others.
  `EveryAddressTried`: a request that is over has pinged or reported its whole
  range, whatever became of `ping_retries` meanwhile.  `EveryRequestEnds`, unless
  the delay of its next call was computed as 0 (`stranded`).
* **requests.**  `LookupsAreHeld`: the structure of a waiting request has exactly one
  lookup that will hand it on, and lookups have a timer, through nested loops and
  dialogs.  `PagesAreTrue`: objects belong to open pages, one for each host, links
  join objects of one page, and an object bears the name of its own host.
  `WindowsAreTrue`: objects, windows and menu stay together, what is shown of a
  host was answered or typed for it, and freed memory is used in three situations
  only.
* **canvas.**  `PointersAgree`: groups are chains that end, every member knows its
  primary, a link is in the lists of exactly what it is drawn to, and no two hosts
  have two links.
  `ImplementsHostGroups`: every operation does to the groups and links, as sets,
  what it says; saving and loading keeps two members of a group.  `BreaksOnlyWhere`:
  freed memory is touched in three situations only.
* **adns.**  `Consistent`: the table of states and queues in `internal.h`, the
  assertions of `check.c` but one, for parents, children and the shared connection.
  `WaitMatchesWork`: the function that tells the caller how long to sleep and the
  one that does the work agree.  `AbortsOnlyWhere`: five situations end the program, or
  keep it in one call for ever.  `EveryQueryEnds`, unless the program is aborted, or
  a server answers by TCP again and again that its answer is truncated
  (`TruncatedByTCP`).
* **settings.**  `ImplementsTables`: through edits, replaced entries, lookups while the
  dialog is open, files and restarts each list is a table.  `SettingsAreObeyed`:
  the row whose number the code keeps is the one that is highlighted, except over
  an Add or from one dialog to the next; and nmap is run as the options say, except
  for two flags after a file was opened and for the bytes of a longer earlier
  request.  `ThreadsKeepTheList`: the list of running commands stays whole as long
  as no mutex was initialized while it was held.

Bounds, and why they are enough:

* `Sched`: two milliseconds in a second and two microseconds in a millisecond
  (1000 and 1000 in the code), delays of 1 to 3 ms, three adds, two seconds, a
  cache of one (`MaxCache`).  Every carry, the deadline of exactly a full second,
  negative and positive truncation and the slack across the second's end occur
  within these few ticks; three entries give an insertion before, between and
  behind others.  The proofs cover every scale.
* `IoTable`: three owners, three addresses: the smallest instance in which a
  removal moves an entry that is neither the removed nor the running one, and
  in which ids are allocated again.  `Wrap = 32` stands for 2^32, `GrowBy` is 3
  (512 in the code), and `MaxRoom = 15` bounds the memory.
* `Framing`: a length field of two bytes, a buffer of seven, events of 3, 5, 7
  and 8 bytes, three of them: several in one read, a length that is split, an
  event that fills the buffer and one that does not fit.  `Wrap = 32`.
* `OsScan`: two clients, three requests (`MaxScans`): two replies that run into
  each other and a third request in the queue.
* `Agents`: two addresses for three connections, two requests, passwords
  required: an address is used again while a request of its last owner is under
  way.
* `MapTrace`: one host behind a router, one directly connected, two pages, two
  traces, `MAP_MAX` 3 (60 in the code), one retry (3), a sweep of one (5), one
  doubled answer: two requests for one host and for two, each with a retry, an
  answer that overtakes, a sweep that leaves a late request for the next one.
* `Probe`: two structures for three requests and four ids: both kinds of memory
  are used again while an earlier probe is still open.
* `Discover`: three addresses, one of them a broadcast address, a cache of one
  (`MaxCache`), two structures, two requests (`MaxReqs`) with overlapping ranges, of which
  one forces pings, retries 0 or 1, a timeout of three steps of the clock
  between sweeps and an interval of two between pings: the sweep may be shorter
  than, as long as and longer than the timeout.
* `Requests`: a name and two addresses, one page that may be closed and opened
  again in the same memory, two structures, two lookups (`MaxLookups`), two
  requests (`MaxRequests`), two handlers inside one another (`MaxNest`), one
  message under way (`MaxSent`): a lookup inside the dialog of another, a reply for
  a page that was closed or is another.  That links join objects of one page says little
  with a single page; there it is the proof, which is for any pages, that counts.
* `HostInfo`: two hosts, two windows, one system without a pixmap, one service, two
  edits of the user (`MaxEdits`), one request or lookup
  under way (`MaxAsked`).
* `ScanReports`: eight documents of no to four ports with and without service,
  version and owner, in every order, and 16 cells of room, of which the largest
  needs more.
* `Canvas`: four hosts and two links, of which five are on the page at a time
  (`MaxOnPage`), and three operations of the user (`MaxEdits`): four hosts with a
  link, so that two groups can be merged and a chain has a middle, and three hosts
  with two links, of which a merge makes two between the same pair, one to be dropped.
* `Adns`: three queries, one of which may be the parent of the others, two servers
  (`nservers`), two tries by UDP (15 in the code), five behaviours of the sockets
  (`MCSockets`), one name that a search has left.  How often an answer is truncated
  has no bound.
* `Settings`: one port and two strings of which one contains the other, two values,
  four structures, two threads, three edits (`MaxEdits`; two for services, whose
  keys are more; three were run by hand).
* `ScanOptions`: three settings that differ in every option, ports of none to two
  characters, a buffer of four bytes with two contents at first, two kinds of
  other requests.

`CHECK_DEADLOCK FALSE` stands where the system may really stop for want of
work: all requests are made (`OsScan`, `MapTrace`, `Probe`, `Requests`, `Canvas`),
the connection is over (`Framing`), the agent has exited (`Agents`), the program
was aborted (`Adns`).

## 4. Fairness

Safety is checked without it.  The liveness properties use `FairSpec` (`FairIoSpec`
in `IoTable`; in `Adns`, whose `Spec` states it, it is only there for
`EveryQueryEnds`):

* `Sched`: the clock runs and the loop takes its steps; a callback returns, with
  0 or not.  Nothing promises that a descriptor is ready, and nothing keeps
  descriptors from being ready for ever: `poll()` still returns, and the timers
  come after every round of callbacks.
* `IoTable`: the main loop polls again and again and callbacks return.
* `Framing`: data that has arrived makes `poll()` return (`EveryEventServed`).
  No client has to send or close.
* `OsScan`: both threads take their steps; nmap ends, with or without a result.
  The timer is strongly fair, because it may find the main loop in the middle of
  a request each time but fires every 800 ms; so are the two users of the write
  mutex, which passes to and fro between the threads and which neither keeps.
* `MapTrace`: time passes (a probe becomes late) and the timer runs.  No answer
  ever has to arrive.
* `Probe`: the timer runs.  The host need not accept, send or answer.
* `Discover`: the clock runs and the timers that are due are called.  No host has
  to answer.
* `Adns`: the timeout of a query passes (`Late`), and a caller that is told not to
  sleep calls `adns_processtimeouts` (`WokenByTimeout`), which `dns_timer` does.  No
  server has to answer and no socket to become writeable.

`Agents`, `Requests`, `Canvas` and `Settings` state safety, step properties and
refinements only: what the user does next is never owed.

## 5. Sensitivity

A property that no change of the code can break says nothing about the code.
In front of some definitions stands a second one, marked `Wrong:`, which is the
same operation with a plausible bug: a guard dropped, an off-by-one, an order
swapped, a flag not reset.  No action uses it.  `PROJECT.json` lists under
`mutants`, for every property of every run, which definition to replace
by which wrong one so that TLC finds the property violated in the same run.

## 6. What the models show of the code

Where code and comments disagree, the modules follow the code:

1. `src/io.c:112`.  The comment in the growing branch says "We don't have enough
   space for this entry"; the branch is taken when there is room.  The arrays are
   large enough none the less (`ArraysLargeEnough`, proved).
2. `src/event.c:366`.  `sizeof(h->len) - (a->write_ptr - a->buffer)` is unsigned;
   once more than four bytes are in the buffer it wraps, and `expected_length`
   becomes 0 although the length has arrived.  The comment (`src/event.c:312`) says
   that 0 means "dont have length yet".  An event that is split behind its length
   is then not handed out although all of it has arrived (`split` of `Framing`).
3. `src/event.c:1038`.  `chk_agent` compares addresses.  Its comment (line 953),
   "Check to be sure this agent really exists", holds for the address
   and not for the client: the reply to a client that has gone is written to a
   later one in the same memory (`RepliesOfTheLiving` says when).
4. `src/agent-map.c:332`.  Under the comment "See if this is the right place and
   the right time" stands `(ttl = mr->ttl)`, which assigns.  An answer of the first
   hop that arrives twice becomes the second link too (`disturbed` of `MapTrace`).
5. `src/gui-canvas.h:83`.  `net_page_delete_page_object` is said to "delete all
   highlighted page_objects"; it deletes those of `plink`, and after another primary
   was chosen the former one is in `plink` without being highlighted
   (`BreaksOnlyWhere` of `Canvas`).
6. `src/gui-canvas.c:1882`.  "there can only be one page_object selected that can
   show the service list": the submenu of a merged host shows its services too, and
   they are run against the primary (`HostInfo`).
7. `src/agent-map.c:370`.  The case of ICMP_DEST_UNREACH runs on into that of the echo
   reply, whose comment, "See if this is the right place and the right time", stands
   over the same assignment: a host that refuses any packet of ours is the end of every
   trace to it (`cut` of `MapTrace`).
8. `src/adns-1.0/src/check.c:126` asserts that a query has had no more tries over
   TCP than there are servers, and one; connects that are refused while others are
   submitted count too, so `Tries` of `Adns` leaves this one out.

What the premises of the properties stand for.  Each is something the code does,
reached by TLC in the run named:

* *osscan.*  Two scans that end within one period of the timer leave one reply, to
  the client of the second.  In `ScanReports`: ports that nmap calls unfiltered
  are shown as unknown (`agent-nmapxml.c:111` compares with a misspelt word); a
  document without an IPv4 address, or one with more to say than the buffer
  holds, ends the agent; the menu of services takes the first name a port was
  heard with, also an empty one, and asks for the UDP name because it compares the
  protocol with 6.
* *probe, discover.*  A timeout of 0 ms, and a sweep that ends exactly at its
  interval, ask for a timer in 0 ms, which `cheops_sched_add` refuses: the probe of
  a silent host, and the request, stay for ever.
* *map_trace.*  A host that refuses a packet is linked to the last hop that was found,
  over hops nobody has seen.
* *agents.*  After too large an event the agent stays in the list with an id that is
  freed (`event.c:340`), which `event_cleanup` hands to `cheops_io_remove` when the
  program ends: the entry of another connection may be removed, or the program may end there.
* *requests.*  A mask that is none leaves its structure without a lookup.  The addresses of a
  range are compared in network byte order (`gui-handlers.c:327`), so whether its ends are
  swapped has nothing to do with which is the larger; of a range that is the wrong way
  round the agent finds nothing (`agent-discover.c:197`).  A host
  that is deleted while its name is looked up is named none the less
  (`gui-handlers.c:442`): its freed memory is read, its name freed again, and it is shown.
  In `HostInfo`: `icon_file_name` is freed before the dialog for a missing pixmap
  opens, and a second display of the host frees it again; of two properties windows
  of one host the first to be closed reads and destroys the second; a window that
  the window manager closes leaves its pointer behind; a window that was
  open before a reply of a scan writes the older name back; closing an untouched window of a
  host without a system sets an empty one; `handle_probe_reply` loses a new service
  that does not go to the head of its list.
* *canvas.*  Closing a page with a group goes on to an object that the group's
  deletion freed; a link between two members of one group is destroyed twice; of
  a group of three or more the file keeps the last member.
* *adns.*  A search that goes on after an answer by TCP fails the assertion of
  `transmit.c:229`; giving up one child that waits for TCP takes its sibling along,
  which the loop of `event.c:227` had kept; a failing system finishes
  queued queries without unlinking them.  What a server sends before the first request is
  read over the pointer to the receive buffer (`event.c:445`), so the next connection
  reads to wherever that points, unless the byte is the one that was there.  When there is no
  socket for a query that goes by TCP, or all servers refuse it at once, `tcp_events` stays in its
  loop and the call does not return.  A server that truncates its answers by TCP too has the query start
  anew each time, with tries and timeout (`reply.c:342`).
* *settings.*  An Add above the highlighted row, and a row number kept from the last
  dialog, make Edit and Delete hit another row or none; an Add under a key that
  exists makes two rows of one structure; an edit to a key that exists drops an
  entry; services that were edited are stored under protocol 6 or 17 and not found
  under 1 or 2 until the next start; the flags for RPC and identd follow the
  option of the OS scan (`gui-settings.c:277`) and, when a file is read, its former value;
  opening a file does not apply the flags; the agent reads the ports of a request on
  into what a longer one left behind; every command initializes the mutex of the running
  commands again.

## 7. Proofs

TLAPS proves the following for all values of the constants that satisfy the
module's named assumption (`SchedAssumption`, `IoAssumption`,
`FramingAssumption`, `AgentsAssumption`, `OsScanAssumption`, `MapAssumption`,
`DiscoverAssumption`, `ProbeAssumption`, `RequestsAssumption`,
`CommandsAssumption`, `HostInfoAssumption`, `SettingsAssumption`,
`ScanOptionsAssumption`, `AdnsAssumption`, `ScanReportsAssumption`), so for any number
of clients, hosts, requests, windows, threads, nested handlers, strings, edits,
queries, servers or documents.
Fairness is used in none of them.

| proofs | module | properties proved | the strengthening that makes them inductive |
|---|---|---|---|
| `MainLoopProofs` | `Sched` | `TypeOK`, `SoonestFirst`, `IdsNameOneEvent`, `WaitMatchesHead`, `ImplementsTimers` | the first three together: an id of an entry inserted by `schedule()` is new because all live and dead ids are below `eventcnt` |
| `MainLoopProofs` | `IoTable` | `IoTypeOK`, `IdsLeadHome`, `EntriesAreHeld`, `CurrentSlotStays`, `ArraysLargeEnough` | `IndexInCell` (the `int` behind an entry's id is the entry's index), `HeldInTable`, `NoteIsCurrent`, and `RoomToSpare`: three entries of room for each one in use |
| `ConnectionProofs` | `Framing` | `TypeOK`, `InStep`, `HandsOutWholeEvents`, `RefusesOnlyTooLarge`, `ExitOnlyAfterSplit` | `StreamGrows` (starts of events differ) and `Progress` (what each value of `expected_length` says about the bytes held) |
| `ConnectionProofs` | `Agents` | `AgentsTypeOK`, `ListIsAllocated`, `PolledAreListed`, `ServedAfterLogin`, `RepliesOfTheLiving` | `LoginsAreProven` (a flag that is set in memory in use was earned by its connection), `DyingHasHungUp`, `AskersKeepTheirMemory` (a request's cell belongs to its asker, or the asker has hung up) |
| `ScanProofs` | `OsScan` | `TypeOK`, `WakeUpsMatchRequests`, `RepliesAreWhole`, `RepliesInOrder`, `RepliesReachAsker` | `Control` and `BufferIsReady` (who may use the buffer, and what it holds then), `ScansInOrder` (sent, buffer, job, queue are in this order), `ReplyIsCurrent` (what a reply that waits is about as long as nothing was rushed) |
| `MapProofs` | `MapTrace` | `TypeOK`, `TimerWatches`, `LinksFormPath`, `UndisturbedPathIsTrue` | `NetInv` (the network is a bag of answers, replies come from hosts); `GoesOnFromLast` (a request in the list continues where its links end); `HostInv` (for an undisturbed host: one request, at most one answer under way, and it is for the hop that is probed) |
| `MapProofs` | `Discover` | `DiscoverTypeOK`, `RepliesAreTrue`, `EveryAddressTried` | `TimersAreOfLive` and `LiveAreAsked` (a structure has one timer at most and the range of one request), `CacheIsTrue`, `PassedAreSettled` (whatever a sweep has passed is pinged, reported or a broadcast address) |
| `ScanProofs` | `Probe` | `ProbeTypeOK`, `CallbacksAreLive`, `OneOutcome` | `UsedAreOpen` and `OneCellEach` (a structure in use is about one open request, and no two are about the same), `NoneYet` |
| `ScanProofs` | `ScanReports` | `ReportsAreTrue` | `ReportsInv`: the memory keeps its length, a reply that waits holds the options of its document, each at its place (`Encoded`), and what is shown is what they say (`ShownOf`) |
| `GuiProofs` | `Requests` | `TypeOK`, `LookupsAreHeld`, `PagesAreTrue` | `Together` (each structure has one keeper, a lookup or the dialog of one; a lookup asks for the name its callback takes the answer for; `dns_timer` holds a lookup that is still in the list and never runs inside of itself), `CacheBelongs` |
| `GuiProofs` | `Commands` | `ThreadsKeepTheList` | `OneInSection` (the mutex), `Owned` (what is allocated and not freed), `WalkRemembered` (nothing comes between the search and the unlinking), `LinkPoints` |
| `HostInfoProofs` | `HostInfo` | `InfoTypeOK`, `WindowsAreTrue` | `Sound` (what every running handler, the menu, the group flags and the icons rely on), `LookupsKnown` (the object of a lookup is there, or one was deleted under its lookup), `EntriesBelong` (what a window would save is about the host it was opened for) |
| `SettingsProofs` | `Settings` | `ImplementsTables` | `ListsInv`: `ListOK` (the list is of different structures, exactly those in use, under different keys) and `FileOK` (the file is lines of the list, under different keys) |
| `SettingsProofs` | `Preferences` | `SettingsAreObeyed` | `DialogInv` (`ListsInv`, the types of the dialog, and both parts of `DialogIsTrue`: what is highlighted and what the rows show need each other) and `ScanInv` (`GuiFlags`, `BufferOK` and `Reached`, `RequestIsAsAsked`: the flags at each stage of their way, and how far the receive buffer has been written) |
| `AdnsProofs` | `Adns` | `AdnsTypeOK`, `Consistent`, `WaitMatchesWork`, `AbortsOnlyWhere` | `AdnsInv`, that is `Whole` with no exceptions: `Queued`, `Family`, `Tried` (a query in `udpw` has had a try and is not to go by TCP) and `Wired`; and that nothing has gone wrong (`bad`).  A child is an address query, and an address query has no children, so that a family has two generations |

The type invariants, `SoonestFirst`, `IdsNameOneEvent`, `CurrentSlotStays`,
`RefusesOnlyTooLarge`, `ExitOnlyAfterSplit`, `RepliesInOrder`, `PolledAreListed`,
`TimerWatches` and the form of the lists (`SettingsAreWellFormed`) are proved for every instance and listed in no run, because
other properties of the runs rest on them.

How the arguments go.

* `Sched`.  `SOONER` is a strict weak order on deadlines, normalised or not.
  Inserting in front of the first later entry keeps an ordered queue ordered
  (lemmas about `InsertAt` and `RemoveAt` have the index arithmetic); removing
  any entry does.  For the wait, lemmas on the truncating division come first.
  For the refinement the queue is mapped to the set of its entries: that ids are
  different makes an insertion an added element and a removal a removed one, and
  the order of the queue makes its head an element that is due soonest.
* `IoTable`.  An id is right because the `int` behind it holds the index of its
  entry; `io_shrink` repairs the one `int` whose entry moves.  An address in use
  as an id holds an index other than 0, so it is not allocated again.  The room
  starts as `2^32 - 1 + 1 = 0`; the first add makes it `GrowBy`, and as there is
  always room for three times the entries in use, the inverted test lets every
  later add grow as well.  That needs `GrowBy >= 3` (512 in the code), which
  `IoAssumption` states.
* `Framing`.  `SizeSubtraction` is the unsigned subtraction of `event.c:366`: it
  gives the right answer as long as no more than the length is held, and the
  answer "unknown" for ever after.  The invariant follows the reads with that
  case distinction, and `split` is exactly its second case.
* `OsScan`.  Four layers, each inductive relative to the one before.
* `Agents`.  The connection that a cell is in use for identifies the client; the
  list, the descriptor table and the dying cell partition the connections that
  have memory.
* `MapTrace`.  The true path is an invariant per host: as long as a host is not
  disturbed it has one request, and the only answer under way is for the hop
  that is probed next.  The action that disturbs a host falsifies the premise,
  so nothing is claimed of it afterwards.
* `Probe`.  Both ends of a probe are one lemma, `EndKeeps`: all entries and the
  timer with its data go, and nothing else.  That `recieve_cb` and `timeout_cb`
  do this although they go by ids follows because ids in the table are different
  (`IdsAreOwn`, `OwnHaveIds`) and timers have their request's number
  (`TimersAreOwn`).

* `ScanReports`.  The document is turned round twice, once by the parser and once by the
  GUI, and goes through memory in between.  `WritePorts` follows the agent: each option
  begins where the one before ended, nothing that is written later disturbs it
  (`Kept`: memory in front of `opt` stays; `Written` may overwrite what an older reply
  left behind it), and the length of the whole is `Size`.  The GUI finds an option by adding
  lengths, and the owner by the length of the service it read; `ReplyRead` says that both come
  out where the agent wrote (`StringFound`: a string ends at the first NUL, and
  texts have none).  `ScanReportsAssumption` says of documents that there is at most one
  host, and that no port is in the state "UNfilitered", which the parser knows and nmap
  does not.  It asks nothing of the lengths, and of `Room` only that it is not 0.
* `Discover`.  The cursor of a sweep goes through the range in order, so what is
  below `Place` is settled, and a request ends only when its last sweep has come to
  the end of the range.  An answer is matched by the address of the structure; that
  the reply is true nevertheless rests on the test of the range, which the
  structure's present request shares with its asker (`LiveAreAsked`).  That delays
  are never above the timeout is part of the type invariant, and the reason why it
  needs `Interval <= Timeout`.
* `Requests`.  A structure of `struct discover_dns` is handed from a lookup to the
  next one, and for the time of a dialog to the frame that shows it.  `Together` takes
  the list, the stack and the structures as parameters, and the set of structures it
  speaks for: in the middle of a handler one structure has no keeper, and the
  lemmas say which operation takes it out of the set and which puts it back.  That a
  reply puts a host on the page under its own name rests on `QueryFits`: what a
  lookup asks for is what its callback takes the answer for.
* `Commands`.  The list is the first `Cardinality(Listed)` pointers from the head
  (`Exactly`); lemmas say what prepending a structure and taking one out do to them.
  The second needs that the predecessor the search found is still the one, which is
  `WalkRemembered`, and that is what the mutex is for: the hypothesis that no call
  initialized it while it was held is the premise of the property.
* `HostInfo`.  `Sound` is about what a handler still has to do when it goes on after
  a dialog, in a world that others have changed: the hosts it is to show exist, those
  it is to delete are heads of different groups, and at most the outermost handler
  is the user's.  From this it follows that nothing deletes a host under a handler's feet.
  That a group's flag is wrong only for hosts still to be shown (`FlagsSound`) makes
  the menu, which takes what is highlighted, work on heads only; that the name
  of an icon is freed only under the dialog that asks for one (`IconsSound`) makes
  "shown again" the one way to free it twice.  `WindowsServe` alone is not inductive: a
  window that is closed writes its entries back, so they must belong to the host
  (`EntriesBelong`).

* `Settings`, lists.  The refinement mapping reads the entries of a list as a table
  from keys to values, which is a function because keys differ.  Lemmas say of each
  operation of `EntryLists` what it does to list, memory and table
  (`PutAdds`, `ChangeChanges`, `UnlinkDrops`, `ScriptChanges`, and so on): one key of the table is
  set, one is dropped, or both at once when an edit changes the key.  `MemoryLeft` is the pigeonhole principle: a
  list has no more entries than keys, which `SettingsAssumption` keeps below the
  structures there are; an addition needs one that is free.  The lists that come from a
  file are added line by line (`AddAll`); that the list then holds exactly the file's keys with
  their values is shown for every number of lines by the
  least number for which it failed (`AddAllBuilds`).
* `Settings`, dialog.  The rows are different entries of the list until something the
  dialog does not see replaces one (`clash`), and the row number is the highlighted row's until
  one is added above it (`stale`).  Edit takes a row out, changes the list and puts a
  row back; `RowTakenOut`, `RowPutBack` and `RowEdited` say what that does to
  the rows, to what is highlighted and to the row number.
* `ScanOptions`.  Each flag is set by one setting, so applying all of them gives the
  flags of the options whatever was set before; reading a file
  applies the two flags that follow another option before that option is read, which
  is the exception in the invariant.  What the agent reads is the ports
  as far as `longest` says that nothing longer was in the buffer (`PortsAreRead`).
* `Adns`.  In the middle of a call some queries are out of their queue, or have
  children that are gone, or wait for TCP without having been sent.  `Whole` has four
  sets of exceptions: queries that are in no queue, whose state and children disagree,
  whose list of children is out of date, and that may be unsent although the connection
  is up.  A lemma for each operation says which exceptions it makes
  and which it ends: unlinking makes three, linking again ends two, the cancelling of a
  child makes one at its parent.  `Good`, with one query in progress, is what the
  C functions hand to each other, and `Ready`, with none, what a call begins and ends
  with.  What happens to the connection changes no queue and no
  family (`Shaped`), and only has to keep `Wired`.  That a loop
  keeps what each round keeps is shown with the states it goes through (`Trace`) and the
  induction `UpTo`; there is one fact about the function inside `Thread` for each operator
  that is used with it (`CancelThread`, `SendThread`, ...).  A call that ends
  the program is followed by `Nothing`, so all that is needed of it is `Ended`.

  For `AbortsOnlyWhere` every lemma also says what becomes of `bad`.  That `tcp_events`
  steps on freed memory is noticed rounds after the call began, when queries have been
  failed and connects tried in between; it is traced back with `Fading` (a
  query may end, but none begins to wait for TCP or to be late, changes its parent or
  loses a try), so two siblings that wait for TCP then waited when the call began
  (`BrothersBefore`), and with `Spares`, which says whom the end of a query takes along.
  `WaitMatchesWork` needs the converse of `Fading` in one place: where there is something to
  do, something must have changed when all rounds are over.  The first late query of
  a queue is not late any more (`LateGone`), and none becomes late again; a connection
  that is gone is remade or given up in the next round and rests there
  (`GoneEvent`, `TraceRests`); if it is connecting again, as it was, the queries that wait for it
  have had one try more (`PastEvents`).

Model-checked only, and why:

* All liveness (`EveryEventRuns`, `EveryEventServed`, `EveryEventHandled`,
  `EveryScanAnswered`, `EveryTraceEnds`, `EveryProbeEnds`, `EveryRequestEnds`,
  `EveryQueryEnds`): fairness needs `ENABLED`, which the installed prover does not
  support.
* `PointersAgree`, `BreaksOnlyWhere` and `ImplementsHostGroups` of `Canvas`: an
  operation is a fold of other operations over the members of a chain or the links
  of a host; what a fold of the community modules does to a state is shown by
  induction over the sequence, and the provers cannot instantiate the induction
  theorem or the fold.

Where a proof needs induction over a number it takes the least counterexample
(`LeastNat`), for instance that the pointers of `Commands`' list are a sequence,
and one only, or that the rounds of a loop of `Adns` keep an invariant, and the
states of `Thread` in `ScanReports` (`UpTo`).

## 8. What is not modelled, and why

* *Memory of timer entries.*  `cheops_sched_del` neither caches nor frees the
  entry it unlinks; `Sched` counts what the code counts.
* *How many timers a pass runs* (`sched.c:293`): that depends on how fast callbacks
  are, which nothing bounds.
* *Failing allocations* (`malloc`, `realloc` in `io.c`, `event.c`, adns): the code
  returns errors that its callers mostly ignore.  `cheops_io_change` has no
  caller.
* *The client side of `event.c`* (`event_request_agent`, SSL) and
  `event_create_agent`: they run once, at start-up.
* *What is lost for good*: the user data of an answered probe (`Probe` shows it in
  `ud`), the socket of a failed connect, the structure of a report, properties
  libxml returns.
* *The UDP probes of `agent-map.c`* and *`agent-adns.c`*: compiled out.
  *Monitoring* (`gui-monitoring.c`, `cheops-monitoring.c`) is unfinished, left out
  by the build (`USING_MONITORING`), and the agent has no handler for it.
* *The receive buffer under a handler that runs GTK.*  In the GUI another reply may be
  read from the connection while the handler of one waits in a dialog (`event.c:402`), and lands in the same
  buffer.  `Requests` and `HostInfo` let the handlers nest, and `Framing` has the
  buffer of a connection whose handlers return; what the inner read makes of
  the bytes behind the outer event is in neither.
* *ICMP about the packets of others*: a TIME_EXCEEDED that quotes no probe of ours.
* *Layout and drawing*: positions of objects, notebooks, pictures, help; the dialogs
  that only collect text; how a command line is put together from `%i`, `%p`, `%u`.
* *The options of the GUI other than those of the OS scan and of discovery*: each is
  a value that one handler reads.
* *Names and records* in adns (`types.c`, `parse.c`, `reply.c` behind the decision
  what an answer means), its configuration (`setup.c`), the sorting of addresses.
* *Checksums, packets, formatting of addresses* (`ip_utils.c`, `misc.c`), *logging*,
  the *shell client*: conversions and output, or one request at a time.

The two hazards without a property are at `sched.c:293` and `event.c:402`; the
reasons are those above.

## 9. Plan

| module | about | status |
|---|---|---|
| `Sched`, `Timers` | timers and the main loop | checked, proved, refinement proved |
| `IoTable` | descriptors | checked, proved |
| `Framing` | one connection's byte stream | checked, proved |
| `OsScan` | scanner thread | checked, proved |
| `Agents` | connections, logins, replies by address | checked, proved |
| `MapTrace` | traces | checked, proved |
| `Probe` | one structure, two descriptors, one timer | checked, proved |
| `Discover` | pings, retries, cache | checked, proved |
| `ScanOptions`, `Preferences` | a scan from the dialog to nmap | checked, proved |
| `ScanReports` | a scan from nmap to the menu | checked, proved |
| `Requests`, `HostInfo` | GUI: requests, lookups, pages, windows | checked, proved |
| `Canvas`, `HostGroups` | GUI: groups and links | checked, refinement checked |
| `Commands` | GUI: threads on one list | checked, proved |
| `EntryLists`, `Settings`, `Tables` | GUI: lists, dialog, file | checked, proved, refinement proved |
| `Adns` | resolver | checked, proved |

What is left, in order of what it would add:

* the step simulation for `Canvas` and `HostGroups`, with the chains written as
  functions from places to hosts, or as recursive functions like `Thread` of `ScanReports`,
  beginning with lemmas on merging two chains;
* further abstract specifications: a connection as a FIFO of events (`Framing`
  implements it as long as no event is split behind its length), a one-place
  mailbox between two threads (`OsScan`: what it loses is what was rushed), a request that is
  open until it ends once (`Probe`, `Discover`);
* the client side of `event.c`, and the shell, whose option to force a discovery
  stays set;
* the arithmetic of networks and ranges (`ip_utils.c`) against a reference
  definition.

## 10. How to run it

In this directory:

```
tlc -workers 2 -config MCSched.cfg MCSched      # any run: its cfg, its module
tlapm MainLoopProofs.tla                        # any proof module
```

Every run ends with no error.  The longest (`adns`, `canvas`, `requests`) take two
to three minutes, the others one or less; the longest proofs (`HostInfoProofs`,
`GuiProofs`, `MapProofs`, `ScanProofs`, `SettingsProofs`, `AdnsProofs`) take two to seven minutes.
