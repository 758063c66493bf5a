# XINU with demand paging: a TLA+ verification project

The system is the PC port of XINU, a small operating system for one i386
processor, with demand paging added to it. This directory holds TLA+ modules
translated from its C and assembly sources, TLC configurations that check them
on small instances, and TLAPS proofs that hold for every instance.

`src/TMP/` is a second copy of the tree; everything below is about the first.

## 1. The system: inventory

| component | source | state it keeps | operations | how it touches the others |
|---|---|---|---|---|
| list primitives | `sys/queue.c insert.c insertd.c getitem.c newqueue.c`, `h/q.h` | `q[]`: linked entries, one per process, plus heads and tails | enqueue, dequeue, insert (by key), insertd (by increment), getfirst, getlast | every list of processes is one of these |
| scheduler | `sys/resched.c ready.c resume.c suspend.c chprio.c ctxsw.S` | `proctab[].pstate, pprio`, ready list, `currpid`, `preempt` | resched, ready, resume, suspend, chprio | called by everything that blocks or readies a process |
| processes | `sys/create.c kill.c setnok.c userret.c` | `numproc`, `nextproc`, `pnxtkin`, stacks | create, kill, setnok | takes stacks from the heap, a directory from the frames, sends to the next of kin |
| semaphores | `sys/screate.c wait.c signal.c signaln.c sdelete.c sreset.c` | `semaph[]` (state, count, queue), `psem`, `pwaitret` | one per file | blocks and readies through the scheduler; drivers signal from interrupts |
| messages | `sys/send.c receive.c recvclr.c recvtim.c` | a one-place mailbox per process | one per file | send readies receivers and takes timed ones off the sleep queue |
| clock | `sys/clkint.S clkinit.c sleep*.c unsleep.c wakeup.c` | `clockq` (increments), `slnempty`, `sltop`, `preempt` | sleep, sleep10/100/1000, unsleep, wakeup, the interrupt | interrupts everything; preempts |
| kernel heap | `sys/getmem.c freemem.c getstk.c` | `memlist`, a list of free blocks by address | getmem, freemem, getstk, freestk | process stacks, buffer pools, queues |
| virtual heap | `paging/vgetmem.c vfreemem.c` | headers in the process's own pages; the list's head, `vmemlist`, is never set and so is the word at address 0, for everyone | the same algorithms on a list in virtual memory | `vcreate` starts the list; it lives in pages that fault |
| backing stores | `paging/bsm.c get_bs.c release_bs.c xm.c read_bs.c write_bs.c` | `bsm_tab[8]`, `proctab[].store, vhpno`, the stores' pages | get_bs, release_bs, xmmap, xmunmap, lookup, map, unmap | page faults read them, replacement writes them |
| frames and page tables | `paging/frame.c pfint.c pfintr.S control_reg.c policy.c`, `allocate_pd` in `sys/create.c` | `frm_tab[255]`, `frmq`, `head`, page directories and tables, CR2, CR3 | the page fault, get_frm, free_frm, SC and AGING | create takes a frame; pfint kills |
| vcreate | `paging/vcreate.c` | none of its own | vcreate | create, the store map and the process's fields together |
| buffer pools | `sys/mkpool.c getbuf.c freebuf.c poolinit.c` | pools of equal buffers: a list of free ones, a semaphore that counts them | mkpool, getbuf, nbgetbuf, freebuf | heap, semaphores |
| generic queues | `sys/gpq.c` | arrays ordered by priority, a mutex or disabled interrupts | newq, enq, deq, headq, seeq, freeq, lenq | heap, semaphores |
| terminal input | `tty/ttyiin.c ttyread.c ttycntl.c ttynew.c`, `com/comiin.c` | input ring, its semaphore, the end-of-file flag, what the screen shows | the input interrupt with its editing keys, read, getc, control | signals readers from the interrupt, echoes through the serial driver |
| serial output | `com/comintr.c comint.S comoutput.c cominit.c`, `sys/kputc.c` | a ring for each line, the UARTs' registers | computc, comsputc (kprintf), the interrupt | its semaphore comes from start-up; characters received go to the terminal, which echoes through computc |
| terminal output | `tty/ttywrite.c ttyputc.c` | - | write, putc | hands characters to computc |
| start-up | `sys/initialize.c i386.c evec.c clkinit.c startup.S` | everything's first values; the semaphore table before it is set up | sysinit, nulluser, the monitor's restart | drivers create semaphores before the table is marked free |
| boot monitor | `mon/monitor.c monboot.c montimer.c monbootp.c montftp.c monudp.c monip.c monarp.c monnet.c` | `mon_boot_state`, a timer, the transfer's block and byte counts, an ARP table | the commands, the boot's state loop, the clock and Ethernet interrupts | its loop and its interrupts share every variable; servers and other hosts are outside |
| Ethernet drivers, configuration, library, PCI | `mon/mon3com.c ethinit.c ...`, `config/`, `lib/libxc/`, `sys/pci*` | - | - | not part of the kernel's logic |

What is hard here:

* **Concurrency without locks.** Mutual exclusion is "interrupts are disabled",
  and it ends wherever `resched` is reached: a call such as `receive`, `recvtim`,
  `wakeup` or `kill` goes on after other processes have run, on state it read
  before. `kill` is the extreme case, its message to the next of kin can switch
  in the middle.
* **Shared representation.** One `qkey` per process serves the ready list (a
  priority), the sleep queue (an increment) and nothing (a semaphore queue), and
  the interrupt counts one of them down through a pointer.
* **Paging.** Three representations of "which page is where" (page tables, frame
  table, store map) are updated by hand; frames run out in the middle of the two
  allocations of one page fault; several variables are read before they are set.
* **Hardware that does not wait.** The serial driver reads one cause per
  interrupt while the UARTs go on, and its controller asks at edges only.
* **A network that loses, repeats and reorders**, with a boot loop that runs with
  interrupts enabled and is changed under its feet by two of them.

## 2. Modules

| module | models | state |
|---|---|---|
| `QLists` | list primitives | none, operators on sequences |
| `Sched` | scheduler | `sched` (pstate, pprio, qkey, ready list, currpid, preempt), `cont` |
| `Semaphores` (extends `Sched`) | semaphores, signals from drivers | `sstate semcnt semq nextsem psem pwaitret` |
| `Clock` (extends `Sched`) | sleeps, the clock interrupt | `clockq slnempty sltop` |
| `Messages` (extends `Clock`) | messages and timed receives | `mbox` |
| `Kernel` (extends `Semaphores`, `Messages`) | create, kill, setnok, and all of the above together | `numproc nextproc pnxtkin` |
| `SemaphoreSpec`, `AlarmSpec` | what semaphores and delays promise, abstractly | units and waiters; remaining ticks |
| `KernelProps` | invariants, action properties, refinements, liveness of `Kernel` | |
| `QListProofs`, `KernelProofs` | the proofs about `Kernel` | |
| `WaitingProofs` | more proofs about `Kernel`: semaphores' counts, messages, the clock's pointer, the refinement of `SemaphoreSpec` | |
| `Heap`, `HeapProps` | getmem, getstk, freemem, freestk | `memlist`, the blocks handed out |
| `VHeap` (extends `Heap` for its search) | vgetmem, vfreemem, vcreate's part in them, through whose directory a process reaches its heap, and what processes store in their blocks | `vhead header held cr3 resident`, history `mixed` |
| `HeapProofs` | the proofs about `Heap` and `VHeap` | |
| `Pools` | mkpool, getbuf, nbgetbuf, freebuf | `nbpools bpnext bpmaxused word sem`, and `pc reg` of each process |
| `Gpq` (extends `Pools`) | enq and deq of a generic queue | `q_type q_count q_elt q_key` |
| `Buffers` (extends `Gpq`), `BufferProps` | processes that pass a pool's buffers through a queue | |
| `BufferProofs` | the proofs about `Buffers` | |
| `PriorityLines` | what pools and a queue promise, abstractly | a line for each priority; who holds what |
| `Terminal`, `TerminalProps` | ttyiin and its editing, ttyread, TTC_NEXTC | `tty_istart tty_icount tty_in tty_eof tty_isema lastc screen pc len` |
| `LineBuffer` | what terminal input promises, abstractly | a text and the last key |
| `BackingStores` | the store map and its calls | `bsm_tab proctab` |
| `Frames` (extends `BackingStores`) | frames, tables, get_frm, free_frm, the two policies | `ram` |
| `Paging` (extends `Frames`) | page faults, context switches, create, vcreate, kill | `live currpid cr3 cr2 pending` |
| `PagingProps`, `PagingProofs` | properties of `Paging`, and their proofs | |
| `Startup` | sysinit's early screates, marking the table, restarts | `stage sstate nextsem held` |
| `Serial` (extends `Startup`) | the rings, computc, comintr, kprintf's polled output; the UARTs and the interrupt controller | `com uart serving`, history `owed overrun clash` |
| `SerialProps`, `SerialProofs` | properties of both, and their proofs | |
| `MonArp` | the ARP table and mon_netwrite, as operators on a table and a network | |
| `Netboot` (extends `MonArp`) | the boot loop, its two interrupts, the network and the servers | `pc mon_boot_state mon_boot_try timer`, the transfer, `net session`, history `silenced` |
| `Transfer` | what loading a file promises, abstractly | the blocks in memory, the outcome |
| `NetbootProps`, `NetbootProofs` | properties of `Netboot`, and their proofs | |
| `MC_*` | instances for TLC | |

### From code to actions

* **Steps.** Every system call runs with interrupts disabled, so a call is one
  action up to the point where it reaches `resched`. If work remains after that
  (`receive` takes the message, `kill` frees the victim, `wakeup` goes on in the
  interrupt handler) the rest is a second action, recorded in `cont[p]`, that
  process p does when it runs again. The loops of `signaln`, `sdelete`, `sreset` and `wakeup`
  are one action per turn, so that the state in the middle is visible.
* **Refused calls** (`SYSERR`, nothing changed) are stuttering steps. Where a
  refusal does change something (`create` with a priority below 1 moves
  `nextproc`) it is an action.
* **Lists** are sequences of process ids; keys are a function. The sentinels are
  the "no such entry" cases of a scan.
* **`sched` is one record** because `resched`, `ready`, `insert` and `dequeue`
  call each other: an operator takes a record and returns one, and a routine is
  the composition of its calls in the code's order.
* **Interrupts** occur when the current process is in its own code
  (`Interruptible`): the processor defers them in a system call.
* **Steps that run with interrupts enabled** are actions of their own: in
  `Pools` the wait, the reckoning of `inuse`, its comparison, its storing and the
  taking of a buffer; in `Gpq` the test of the count, the entry, the body and the
  exit; in `Terminal` the test for the end of the file and the wait. There a
  semaphore is a count and a queue, as `Semaphores` has it, and any process that
  is not in a queue may be the next to step: processes of one priority under
  preemption.
* **Characters** are classes (`"a"`, `"space"`, `"eof"`) named for a member; what
  differs between classes is the kind of word they belong to and the cells they
  take on the screen. The screen is the cells of its current line.
* **The boot loop** (`Netboot`) runs with interrupts enabled: each of its stores is
  an action, each interrupt handler is one. `mon_boot_state` is not volatile:
  `rereads` says whether the compiled loop loads it every time, and is chosen at
  the start. A packet is a kind, a host, a session (a port) and a block number; the
  network is a set of packets, from which any may be delivered, again and again,
  or dropped.
* **`comintr`** reads the cause and serves it in two actions, because the UARTs
  work on in between; `computc` and the rest run with interrupts disabled and are
  one. A UART is what its registers and its interrupt line show; the controller
  remembers a request when the line rises.
* **Uninitialised memory** is a choice: the index `bsm_lookup` uses before it
  sets it (`LimitIndex`), the scan position of `get_AGE_frame`, and what the word
  before `frmq` holds when it is first read (`StrayWords`; `ram.stray`). That word
  is read once: `get_SC_frame` then writes -1 there (`frame.c:146-147`).
* **`ram`** is one record for the same reason as `sched`: `get_frm` may write a
  page back and free a page table in the middle of `pfint`.

## 3. What is checked

Every property has a mutant: a plausible bug in one definition that makes TLC
find it violated, kept beside the definition it mutates (`X_What` beside `X`).

### Processes, semaphores, messages, clock (`MC_Kernel_*.cfg`)

| run | instance | properties |
|---|---|---|
| `kin` | 3 user slots, 1 priority; create, resume, receive, kill, setnok, clock | `ListsMatchStates` while kills switch in the middle of themselves and slots are reused |
| `sem` | 3 user slots, 2 priorities, 1 semaphore, counts to 2; every semaphore call, device signals, kill, suspend, chprio | `TypeOK`, `HighestPriorityRuns`, `SemCountMatchesQueue`, `ImplementsSemaphores` (refines `SemaphoreSpec`) |
| `msg` | 3 user slots, delays 1 and 2, two messages | `ReceiveFindsMessage`, `ClockPointsAtFirst`, `MessageKept`, `ImplementsAlarm` (refines `AlarmSpec`) |
| `wake` | 2 user slots, 2 priorities, quantum 2, delays 1 and 2, fairness | `RoundRobin`, `SleeperWakes`, `TimedReceiveEnds` |

Bounds: three user processes are enough for a list to have a middle entry and
for a call to concern a caller, a target and a bystander; two priorities give
equals and unequals; `MaxCount` bounds counts, `MinNumproc` the kills that
discount a process twice (`kill` discounts before it knows the victim will die).
`Calls` selects the system calls of an instance so that each question gets the
largest state space that matters to it. The runs' parameters differ; the module
is the same. `wake` has two user processes, the fewest that can share the
processor, because temporal checking is the dearest.

Fairness (`FairSpec`): weak fairness of completing a call, since a process with
the processor executes, and strong fairness of the tick, since the interrupt
controller keeps the request while interrupts are disabled and serves it each
time they are enabled.

Where the code falls short outside these instances: with a delay of 0, a process
that calls `recvtim(0)` once per tick keeps every sleeper asleep, because the
tick that wakes it is lost for the increments behind it (`sys/recvtim.c:25`);
`numproc` stays too low for ever when a killer is itself killed between its
message to the next of kin and the rest of its `kill` (`sys/kill.c:27`); and a
`create` refused for its priority has already taken a stack (`sys/create.c:38`).

### Heaps (`MC_Heap_heap.cfg`)

`heap` checks both heaps, which have no memory in common: a behaviour uses one
or the other (`MC_Heap`).

*Kernel heap.* Stacks a multiple of 8 bytes long, a region below the hole at 640K
and one above it of an odd number of words: the free list is ordered and
`Coalesced`, no word is free and in use or in use twice (`NoOverlap`), none is
lost (`NothingLost`). With a stack 4 bytes longer than a multiple of 8,
`NoOverlap` fails: `getstk` rounds a length to 4 bytes and `freestk`
(`h/mem.h:29`) to 8, so 4 bytes below the stack are freed with it.

*Virtual heaps.* Two processes, heaps of three headers' length. The list of free
blocks lies in the memory that is handed out, a new heap in a store that still
holds an old one, and processes store what reads as a header: no block, one
header's length, or one that leads back to the start of the heap (`ReadsAs`).
`PrivateHeap`: a process is not given memory it has, and its list never leads into
memory it has. The repository's README (line 289) and vgetmem's comment promise
each process a heap of its own, without a condition. The code keeps that promise
only while both of the following hold (`mixed` is false), and the property says so:

* *One heap at a time.* `vmemlist` is not set anywhere, so `vcreate.c:49` writes
  the head at address 0, and a second `vcreate` while another heap lives takes
  the first process's list away from it.
* *Each process under its own directory.* `vgetmem.c:27` follows the list through
  the directory in CR3. `create`, `resched` (`resched.c:86`) and `kill` do not
  load it, only the fault handler does (`pfint.c:129`). A process that vcreate
  starts after another has ended runs on under the dead one's directory, whose
  pages are still there, and reads that process's list in place of the header that
  `vcreate.c:50-52` wrote in its own store. If the dead process stored a word
  that reads as the address of its own first block, one block is handed out twice.

In the model a process reaches the memory of `Seen(p)`: of the process in CR3 if
that one's heap page is present, else, by the fault this brings, its own
(`Reaches`). A process may fault on another page at any time (`Faults`), which
loads CR3 too. Bounds: a heap is one page and no page is replaced; once heaps are
mixed the processes only end (`VNext`), and when all have, heaps are private
again. A name in `VProc` is used again only when CR3 no longer holds its former
directory. Which store `kill` releases (the killer's, and none on a suicide,
`kill.c:46`, `59`) is modelled in `Paging`; `VHeap` starts from any contents of a
store and so needs to know nothing of it.

### Buffer pools and queues (`MC_Buffers_buf.cfg`)

`buf`: two senders and one receiver, one pool of two buffers, a queue of two
places and two priorities, both kinds of mutex. No buffer is lost or has two
owners (`BuffersConserved`), the list and the semaphore agree up to the steps
that are on their way (`TakersFindBuffer`), the queue's count stays in range
(part of `BuffersTypeOK`: it is what two processes in `enq` or `deq` would
break), the whole refines `PriorityLines`, and with fair scheduling
and processes that pass buffers on, a `getbuf` ends (`GetbufEnds`). Two senders
contend for each buffer. The instance stays within what the code supports:

* *One receiver.* `deq` tests the count before it enters; two receivers that
  both pass the test on the last element take it twice and leave the count at -1,
  the case `gpq.c:58` says "shouldn't happen". `enq` overfills the arrays in the
  same way unless there is a place for every buffer.
* *Pools get their semaphore.* `mkpool` does not test what `screate` returns
  (`mkpool.c`), and neither does the model: `Mkpool` always has one.
* *One pool.* With two pools whose buffers enter one queue at different
  priorities the queue starves the lower one, and a `getbuf` need not end.

### Terminal input (`MC_Terminal_tty.cfg`)

`tty`: a ring of 3, eight keys, two processes that read 2 characters or peek.
`ImplementsLineBuffer`: the ring is `LineBuffer`'s text, wherever it wraps.
`ScreenShowsLine`: every key but reprint keeps the screen in step with the line.
`LineAnnounced`: a finished line is announced until a read is too short.

`MaxCells` bounds the screen's line, not the ring. A ring of 3 holds a word of
two characters beside a line's end and wraps in every position. The processes
are symmetric. Known and modelled but not stated: `ttyread` of one character
(`ttygetc`) takes a line's only signal with its first character, so the second
`ttygetc` waits although the line is there (`ttyread.c:31`, `41`); two line ends
before the woken reader runs leave a signal too many, and the next read returns
nothing (`ttyiin.c:54`); `reprint` starts one place too far (`ttyiin.c:188`); an
end-of-file character typed between ttyread's test and its clearing of the flag
is forgotten (`ttyread.c:22`). The serial line is taken to keep up with the echo.

### Start-up and serial output (`MC_Serial_ser.cfg`)

`ser`: the semaphore table (2 entries, 2 processes) and two lines with rings of
two places; newlines are written to the first line, characters come in on it
(`Heard`), and kprintf writes to it (`Console`).

| property | what it says |
|---|---|
| `SemsOwned` | the drivers create their semaphores before the table is marked free, and get none, because cleared memory is not `SFREE`; so no process is ever given a semaphore that a driver uses, after any number of restarts |
| `OutputInOrder` | the ring holds what was accepted and not sent, in order, until it is written over (the semaphore that should hold writers back is -1) - and again once it has run empty |
| `OutputDriven` | characters in a ring have the transmit interrupt enabled and something on its way that will send them, unless the line is stuck |
| `StuckByClash` | a line gets stuck - high, its edge used, nobody looking - only where two causes were pending at one time: `comintr` serves one and returns |
| `OutputMoves` | when no more comes in and kprintf is silent, every ring moves on, unless its line is stuck |

Bounds: `Reach` stops a ring that one more call would overrun by twice its size,
from where on `computc` writes past `com_buf` over its own counters. `Apart` and
`AtRest` separate the two halves of the state: lines are used while no process
has a semaphore, semaphores while the lines rest; neither reads the other. `Calls`
stop at a clash for the same reason. Two places are enough for a ring to wrap, to
be full and to be written over by a newline's two characters.

Fairness: start-up goes on and what `comintr` has begun is served (weak); a
request that is raised again and again is taken (strong: the controller keeps
it while interrupts are disabled, but an edge can be undone by a polled
access); a register in use gets empty (weak: hardware). `OutputMoves` supposes
that from some time on no character comes in, kprintf is silent and nobody
restarts the system; without that a polled write can take the register away each
time it is free.

### Boot over the network (`MC_Netboot_boot.cfg`)

`boot`: a file of 2 blocks, 2 sessions of the TFTP server, 2 packets on the wire
at a time, an ARP table of one entry for two hosts (so entries are given away),
one repetition of a request.

| property | what it says |
|---|---|
| `ArpFunctional` | no host has two entries, and a packet waits only in its own host's entry |
| `TimerRuns` | while the loop waits a timer runs, unless a block out of step stopped it (`montftp.c:57`) |
| `PhaseForward` | no late BOOTP reply takes the boot back from TFTP, no late block revives a failed boot |
| `BlocksInStep` | the expected block is the one after those in memory whenever a block can come in |
| `ImplementsTransfer` | the boot refines `Transfer`: memory holds a prefix of the file, and the boot is done when it is complete |
| `BootEnds` | once no more packets come in, every boot ends, unless the last block heard was out of step, or the loop was compiled to read the state once (`monboot.c:35`) |

Two sessions and two blocks are the least for a block of an old session to arrive
in a new one, first and last; the wire's bound loses packets, which the network
may do anyway. A table of one entry cannot hold a host twice; that part of
`ArpFunctional` is shown by the proof, for tables of any size.

`BlocksInStep` and `ImplementsTransfer` speak of the blocks, not of the byte count
beside them (`mon_tftp_bytes`, in the model with its place in the loop): a block
that arrives between the stores at `monboot.c:78` and `79` is counted and the count
then set to 0, with the block in memory. It matters to the timer alone, which then
starts the request again (`montimer.c:19`) where it would repeat the
acknowledgement; the transfer starts over and is still a prefix of the file.
`TimerRuns` and `BootEnds` except the timer that `montftp.c:57` leaves stopped and
the loop that reads its state once: in these two cases a boot may not end, and the
properties say that there is no third.

Fairness: the loop goes on and seconds pass (weak); nothing is asked of the
network or the servers. Deadlock is not checked: a loop that reads its state once,
with no timer and no packet, stops, and so does the system it has started.

### Paging (`MC_Paging_*.cfg`)

| run | properties |
|---|---|
| `pg_roomy` | with frames to spare (`MinFree`): `ResidentRecorded`, `RefcntIsPresent`: tables, frame table and counts agree for each live process under interleaved faults, kills and slot reuse; `LookupFindsMapped`: an owner's id stands only in a mapped entry of the store map |
| `pg_tight` | frames run out: second chance keeps directories and the tables that processes use in memory (`TablesResident`, which admits the loss of global table 0) and saves what it replaces (`EvictedPageSaved`) |
| `pg_cr3` (violated) | `PrivateSpace`: CR3 is not switched with the process |

Bounds: two user processes and the null process; two stores of one or two
pages; one (`pg_roomy`) or two (`pg_tight`) global tables of 20 entries for four of
1024; 8 frames for 255: after the global tables and three directories, as many as
two faults need, or fewer. In `pg_roomy`, `create` and `pfint` stop when fewer than
`MinFree` frames are free; in `pg_tight` they never stop. What is particular to
`pg_tight`:

* *One window for each process* (`TightMaps`, from page 41 and from page 40): a
  replaced page is written where the process's last mapping points
  (`frame.c:233`), which with two windows need not be where it belongs.
* *Pages 40 and 41*, from which `vpno / NFRAMES` is 5, no entry of a table, while
  `vpno / 20` is 2: as in the code for pages 4096 to 16383, where the two are 16
  to 64 and 4 to 15 (`frame.c:230`). From 16384 on `vpno / 255` can be the entry of
  a table in use, and for the pages from 0x40000 that `sys/main.c:9` uses it is
  1028 and more, outside the directory. Neither case is covered.
* *The stray word is 0* when it is first read, as in cleared memory (`frame.c:146`;
  the other value, -1, adds nothing, since the scan may also leave `head` at -1).
  The first time the scan runs off the links, `head` becomes 0, and
  the next allocation, the second of the same fault for instance, gives away
  global table 0. So the promise of the repository's README (line 147), "page
  tables are always resident in memory", is not kept for that table, and
  `TablesResident` leaves it out. It has `GLOBALS = 2` so that there is another one
  to speak of. Every directory maps the kernel through these tables; once one is
  gone nothing that runs is modelled (`KernelMapped`, a bound on every action).

Deadlock is not checked for paging: a process whose directory could not be
allocated, or that is alone and has nothing left to call, stops.

Which process runs is left open in `Paging` (any live process, whenever
interrupts are enabled): the scheduler is `Kernel`'s subject and nothing in
paging depends on its order. Accessed and dirty bits, the TLB and physical
memory outside frames and stores are abstracted away; a wrong directory index
that leads there changes nothing in the model.

The model follows the code in more places where it differs from the
repository's description of paging; no run states these: a replaced page's entry
stays present, because `free_frm` divides by `NFRAMES` where the tables' size is
meant (`frame.c:230`), which is why `ResidentRecorded` is a property of
`pg_roomy`; `kill` frees neither
frames nor mappings (`sys/kill.c:59`); `create` returns a process without a
directory when no frame is left (`sys/create.c:127`); a page stays present after
the lookup that refuses it (`pfint.c:116`); `get_AGE_frame` starts at a variable
nothing set (`frame.c:159`); `get_bs` of a mapped store changes its window and
not its owner (`get_bs.c:28`); `xmunmap` writes the wrong memory to the store
(`bsm.c:154`).

## 4. What is proved

Each theorem holds for every value of the constants its modules' ASSUMEs admit.

### The process manager, for all `NPROC`, `NSEM`, `QUANTUM`, priorities, delays, messages and counts

| theorem | states |
|---|---|
| `TypeCorrect`, `ListsAlwaysMatch`, `HighestAlwaysRuns` (`KernelProofs`) | `[]TypeOK`, `[]ListsMatchStates`, `[]HighestPriorityRuns` |
| `CountsAlwaysMatch` (`WaitingProofs`) | `[]SemCountMatchesQueue` |
| `ReceiversAlwaysFind`, `MessagesKept` | `[]ReceiveFindsMessage`, `MessageKept` |
| `ClockAlwaysPoints` | `[]ClockPointsAtFirst` |
| `SemaphoresImplemented` | `Spec => ImplementsSemaphores`: every step is a step of `SemaphoreSpec` or a stutter |

The inductive invariant `IInv` adds to the first three what they rest on: the
ready list is sorted by key and its keys are the priorities of its processes
(else the last of the list need not be the highest); the null process is ready
or current, so the list is never empty when `resched` takes
from it; `cont` holds only continuations whose process can be in them; `sltop`
names the first of `clockq` when `slnempty` is set (else the interrupt would
count down the key of a ready process and unsort the ready list); and the
semaphore queues hold their waiters. `QListProofs` has the facts about
insertion, deletion and scanning of sequences; `KernelProofs` has those about
`Ready`, `Unready`, `Resched` and `Block` as operators on the `sched` record, and
then one lemma per action. `Highest` is claimed only outside the
loops of calls that ready several processes before they reschedule.

The others each add a part that is inductive relative to `IInv`:

* `CountInv`: a semaphore's count says how long its queue is, except for the one
  that `sdelete` or `sreset` is emptying; which one that is, and whether it is in
  use, is part of the invariant, because the loop ends by making the count match.
* `MsgInv`: it speaks of `View(sched)`, where ready and current are one state, so
  that rescheduling changes nothing in it. `ReceiveFindsMessage` has this form:
  the process in the middle of `receive` either waits or has its message.
* `KeysInv`: every increment on `clockq` is a natural number, but for the first
  one while `wakeup` is at work. It needs what the scheduler leaves alone (the
  keys of blocked processes, `SameBlocked`), that `insertd` splits one increment
  in two (`InsertdNatKeys`, from the sum of the increments up to each entry) and
  that `unsleep` hands one over (`UnsleepNatKeys`).
* `SemaphoresImplemented` is a step simulation from `IInv`, `CountInv` and
  `SignalnInv` (a `signaln` in the middle of its loop works on a semaphore in use).
  `SemaphoreSpec` speaks of units, waiters and which processes exist, so the steps
  that leave the semaphore table alone (`Quiet`) change at most which processes
  exist. The rest are one turn of a loop or one wait, signal or deletion each, and
  `CountInv` turns the code's one number, positive or negative, into the
  specification's units and waiters.

### The kernel heap, for every memory, every set of sizes and any number of blocks (`HeapProofs`)

`FreeListCoalesced`, `BlocksDisjoint` and `NoWordLost`: `EvenStacks` implies
`[]Coalesced`, `[]NoOverlap` and `[]NothingLost`. `EvenStacks` says that stacks
are an even number of words long: without it `freestk` frees a word that is not
the stack's, and `NoOverlap` is false. The invariant `IInv` says of the free list
that its blocks are in order with gaps between them (`Ordered`), and of the free
and held blocks, as sets, that they do not overlap, that what is held has the
length that `freemem` will be given, and that together they have every word
(`BlocksOK`). The order is what `freemem`'s search needs to find the two
neighbours; that held and free blocks are apart is why it refuses nothing that
was handed out (`FreememJoins`); and that `BlocksOK` does not speak of positions
lets two lemmas, `TakeKeeps` and `JoinKeeps`, carry the words through a split
and a join, whatever the list does (`RemoveBlock`, `ShrinkBlock`, `SpliceBlock`).

### The virtual heaps, for every length of heap, any sizes, stores and processes (`HeapProofs`)

`HeapsPrivate`: `VSpec => []PrivateHeap`, with no hypothesis; `PrivateHeap` itself
speaks of the times when no two processes have a heap and each has reached for its
own through its own directory (`mixed` is false). The list is not a variable: it
is what the process reads, from the head that all share and in its own memory,
where the headers of free blocks, blocks in use and what was there before lie side
by side. The invariant `VInv` says that there is a sequence of blocks, in order
and apart (`Ordered`, the kernel heap's), within the heap and apart from every
block in use, that this memory spells out (`Reads`). `ChainIsList` is what makes
it useful: the walk along the list ends, after no more steps than the heap has
headers, and has seen that sequence. Then `vgetmem` and `vfreemem` are the kernel
heap's operations on it (`RemoveBlock`, `SpliceBlock` and `BlockJoins` are used by
both heaps), `RemoveReads` and `SpliceReads` say that their two stores make memory
spell out the result, and what a process stores in its blocks is where no header
of the list is.

### Start-up and serial output, for all sizes of the table and the rings, and any number of lines (`SerialProofs`)

* `SemsAlwaysOwned`: `[]SemsOwned`. Before the table is marked no entry is free,
  so no driver has a semaphore; afterwards `screate` gives away only what nobody
  has, and a restart begins with a table in which nothing is free.
* `OutputAlwaysDriven`: `[]OutputDriven`, and `StuckOnlyByClash`:
  `[]StuckByClash`. The invariant `LineInv`: a UART's interrupt line is the
  disjunction of its causes and a request is never older than the line
  (`Wired`); a ring with characters has the transmit interrupt enabled and its
  cause pending, in service, or to come (`Sent`); and as long as no two causes
  were pending at one time, at most one is (`Single`) and a line that is high
  without a request is the one being served (`Quietly`).
* `OutputAlwaysInOrder`: `[]OutputInOrder`. Its invariant (`RingOK`, beside
  `LineInv`) has the ring's counters within its bounds and, until it is written
  over, the characters from its start on, modulo its length, as those owed.

### The boot over the network, for every file, ARP table and number of sessions (`NetbootProofs`)

* `BootTyped`, `ArpAlwaysFunctional`, `BlocksAlwaysInStep`, `TimerAlwaysRuns`:
  the type invariant and `[]ArpFunctional`, `[]BlocksInStep`, `[]TimerRuns`.
* `PhasesGoForward`: `Spec => PhaseForward`, an action property.
* `TransferImplemented`: `Spec => ImplementsTransfer`, that every step is a step
  of `Transfer` or a stutter. The invariant `Blocks`: while a request is being
  set up (`Setting`) the expected block is 0, which no server sends, and memory is
  empty, so a late block changes nothing; and whenever the state says that a
  request is out and the loop is past the stores, the expected block is the one
  after those in memory.

### Demand paging, for any number of processes, stores, frames and pages (`PagingProofs`)

| theorem | states | hypothesis |
|---|---|---|
| `StoreMapConsistent` | `[]LookupFindsMapped` | none |
| `RefcntCounts` | `[]RefcntIsPresent` | `Regime` |
| `TablesStay` | `[]TablesResident` | `SecondChance` |
| `InvertedTableAgrees` | `[]ResidentRecorded` | `Spare` |

`Regime` is one of two. `Spare`: `create` and `pfint` find two frames free
(`MinFree >= 2`); nothing is replaced. `SecondChance`: frames may run out, the
policy is SC, and two conditions hold that the code does not ensure, which is why
they are hypotheses and named:

* `StrayGlobal`: the word before `frmq`, which becomes `head` (`frame.c:146`),
  reads at first as no frame or as the frame of a global table. 0, which it is in
  cleared memory, is such a value; the frame of a directory would not be.
* `PagesApart`: `free_frm`'s index, a page number divided by `NFRAMES`
  (`frame.c:230`), meets an entry of the directory that no page of a process uses.
  With 255 frames and tables of 1024 that is so for the pages from 4096 to 16383,
  and not for those of `sys/main.c:9`.

`TablesStay` is stated under `SecondChance` alone, the regime in which something
can be lost; it says nothing of the global table the stray word names.
`pg_roomy` and `pg_tight` are instances of the one and the other.

The invariant `IInv` describes the frames (`Shape`): a directory is a frame of
its process, and the entries of it that are set lead to tables of that process;
what is free or holds a page counts nothing, a table counts its present entries;
and replacement starts from a frame that holds a page of a process, or from the
global table that the stray word named (`QueueOK`). Each allocation is split
in two: `FrameTaken` says that `get_frm`, with or without replacement, returns a
frame that was free, held a page or is that table, and that nothing in the queue
refers to any more (`Takable`), and leaves the shape; `DirectoryKeepsShape`,
`TableKeepsShape` and `PageKeepsShape` say that filling such a frame keeps it.
That two allocations follow each other in one fault, the second with the `head`
that the first left, is then two uses of the same lemmas. `RInv` adds, with
frames to spare, that no table stands in two places of a directory and that
present pages are on record (`OneEntry`, `Recorded`); it fails when frames run
out, because a replaced page's entry stays present.

### Buffer pools and a queue, for any number of pools, buffers, senders and priorities (`BufferProofs`)

| theorem | states |
|---|---|
| `BuffersTyped` | `[]BuffersTypeOK`, the range of the queue's count included |
| `TakersAlwaysFindBuffer` | `[]TakersFindBuffer` |
| `BuffersAlwaysConserved` | `[]BuffersConserved` |

All three assume `Room`, a place in the queue for every buffer of every pool
(`NBPOOLS * NumBufs <= QMAX`), and `SingleReceiver`. Both are what `enq` and `deq`
need of their callers: they test the count before they have the mutex, and
without either condition the count leaves its range (see the run `buf`). Under
them the test is still good after any delay, for two reasons the proof makes
explicit. `enq`: the caller still has its buffer, so those in the queue are
fewer than all. `deq`: nobody else takes from the queue, so an element seen
before the wait is there after it.

The invariant `BInv`:

* `OwnOK`: a buffer is with one process or once in the queue's arrays, and while
  it is in use its first word names its pool, which `freebuf` relies on.
* `PlaceOK`: what a process has at each point of the code. Past `enq`'s test it
  has a buffer; past `deq`'s test it is the receiver and the queue is not empty.
* `PoolOK`: the links from `bpnext` run through exactly the buffers of the pool
  that are not in use, each once (`ListOf`), and their number is the semaphore's
  count, plus the length of its queue, plus the processes on their way (`Owed`):
  those past `getbuf`'s wait that have not taken yet and those that have put a
  buffer back and not signalled. With `SemOK`, that a negative count is the length
  of the queue, this gives `TakersFindBuffer`: a process on its way finds one.

The list is stated as a sequence, so that taking and putting back are `Tail` and
an insertion in front. That `Chain`, a recursive function of the links, is this
sequence (`ChainIsFree`) is shown once, entry by entry. As a buffer is freed its
word changes from the pool's number to a link; every step that writes a word
therefore needs `OwnOK` (nobody else uses it) to keep `PoolOK`.

### Only model-checked

Liveness (`RoundRobin`, `SleeperWakes`, `TimedReceiveEnds`, `GetbufEnds`,
`OutputMoves`, `BootEnds`): temporal reasoning under fairness is beyond the
prover. `EvictedPageSaved`, which holds for particular windows (`TightMaps`). The
refinements of `AlarmSpec` (it sums increments along a sequence, an induction
over data), `PriorityLines` and `LineBuffer`; and the terminal's properties.

## 5. What is left

* The step simulations of `PriorityLines` and `LineBuffer`.
* Accessed bits, to state second chance's order; the entries of a page table past
  the 255th, which `initialize_pt` does not clear (`paging/pfint.c:17`); windows
  that fill their store and the page past its end that `bsm_map`'s test admits
  (`paging/bsm.c:86`); pages from 16384 on when frames run out, where `free_frm`'s
  index is another table's entry or outside the directory (`paging/frame.c:230`).
* `Gpq`: headq, seeq, freeq and several queues. `getbuf`'s `inuse`
  (`sys/getbuf.c:25`) is modelled and nothing is stated about it.
* `comflush`, and `ttywrite`'s cooked form.

## 6. Not modelled

* `src/TMP/` is a duplicate of the tree, half of all lines: it is compared with
  nothing. `config/` is a build-time generator, most of it written by lex and
  yacc; `lib/libxc/` a C library of strings, formatting and arithmetic;
  `Test_Cases/` holds test programs, read for what they expect. Together with the
  two halves of PCI discovery (`sys/pci.c`, `mon/monpci.c`: BIOS calls) these are
  most of the source, so the part of the lines that is modelled is small and the
  part of the kernel's own logic is not.
* `mon/`: the formats and checksums of packets, the Ethernet cards' drivers
  (`mon3com.c`, `eth*.c`: what the boot needs of them is `Netboot`'s sending and
  receiving), and `mongpq.c`, a copy of `gpq.c`.
* Terminal output: `ttywrite` hands characters to `computc` one by one. In raw
  mode it writes each character twice (`tty/ttywrite.c:29-44`), which is plain in
  the text and needs no model.
* What `computc` does once it has left `com_buf` (`Reach`): it writes over its
  own counters and then over whatever follows.
* `mark.c`: `poolinit` is its only caller and calls it with interrupts disabled.
* `startup.S` and the sizing of memory at start-up.
