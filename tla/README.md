# pktizr in TLA+

pktizr is a command-line packet generator: it walks through a list of target
addresses and ports, asks a Lua script for a packet for each of them, transmits
it at a limited rate, and hands every frame it captures to the same script. This
directory models the program in TLA+, checks small instances with TLC and proves
the central safety properties with TLAPS for instances of any size.

## The system

Three threads share one `struct pktizr_args` (`pktizr.h`):

| thread | code | what it does |
|---|---|---|
| main | `main`, `START_THREAD`, `status_line` | opens the device, resolves the gateway, starts the two others and waits for their signal, samples the progress counters, waits `--wait` seconds, sets `done`, joins, closes |
| recv | `recv_cb` | captures a frame, decodes it, calls the script's `recv()`, releases the frame |
| loop | `loop_cb` | waits for a token, sends the oldest queued packet if there is one, otherwise asks `loop()` for the next probe and sends that |

They interact through the flags `stop` (set by the signal handler), `args->stop`
and `args->done`; through the counters `pkt_count`, `pkt_probe`, `pkt_sent` and
`pkt_recv`, which are plain integers; and through the send queue of `queue.h`, a
lock-free list into which any thread's script enqueues with `pkt.send()` and from
which only the transmit loop dequeues.

### Inventory

| part | state | operations | what is hard about it |
|---|---|---|---|
| send queue (`queue.h`) | list links, tail pointer | enqueue, dequeue | every interleaving of the two halves of an enqueue with a dequeue; node memory is freed and reused |
| threads (`pktizr.c`) | flags, counters, thread positions | start-up handshake, receive loop, transmit loop, status line, signals, shutdown | lost wake-ups, stale samples, flags cleared too early, threads that must notice `done` |
| script host (`script.c`) | two Lua states | load, `loop()`, `recv()`, `pkt.send()` | a script may skip, send, reject or fail at each call |
| packet objects (`pkt.c`, `script.c`) | reference counts, lists of layers | new, pack, unpack, free, collect | counts shared by two threads without synchronisation |
| ranges (`ranges.c`) | sorted list of intervals | add, count, pick | overlaps, 32-bit sums, index arithmetic with `--count` |
| shuffle (`shuffle.c`) | two factors and a seed | init, shuffle, unshuffle | bijection at the edges of the range, word overflow |
| rate limiter (`bucket.c`) | tokens, timestamp | init, consume | fractional tokens, the cap, idle periods |
| device (`netdev_sock.c`) | two rings shared with the kernel | get_buf, inject, capture, release | slots skipped on errors, frames never released |
| gateway resolution (`resolv.c`) | tries, start time | resolv_addr_to_mac | retries, a timeout racing a reply |
| codecs (`pkt_*.c`) | none | pack, unpack, checksum | the grammar of layers, lengths |
| cookies (`pkt_cookie.c`) | a seed | cookie16, cookie32 | wrap-around in the scripts' comparison |
| start-up queries, messages, options | `args` | ioctl, netlink, getopt | fields that no option sets stay uninitialised |

## The modules

| module | models | kind |
|---|---|---|
| `Fifo` | what the send queue promises: an atomic first-in first-out queue | abstract specification |
| `Queue` | `queue.h`, one step per load, store and atomic operation on shared memory | detailed specification |
| `MCQueue` | instance of `Queue` | TLC |
| `QueueProofs` | theorems about `Queue`, among them that it implements `Fifo` | TLAPS |
| `Pktizr` | the three threads of `pktizr.c`, the calls of `script.c` they make, signals | composition; uses `Fifo` as its queue |
| `MCPktizr` | instances of `Pktizr` | TLC |
| `PktizrProofs` | theorems about `Pktizr` | TLAPS |

Definitions named in a comment as "Mutant" are wrong variants of the definition
that follows them. They are not part of any specification; with one of them in
place of the original the property it is meant for is violated, which shows that
the property depends on that line of the code.

### Queue

`next` holds the link of every packet node and of the sentinel `q->node`, `p` the
tail pointer. A producer is between its exchange of `q->p` and its store of the
link when `epc` is `"link"`; `dpc` says where the consumer is in `queue_dequeue`.
`owner` says what a node is: `"free"` memory, `"new"` from `pkt_new` and private
to a script, `"queued"`, or `"taken"` by the transmit loop. `PktNew` clears
`next`; `queue_enqueue` does not, so `EnqExchange` leaves it as it finds it.
`Release` is the moment the transmit loop has sent the packet and dropped its
reference; the memory may then come back from `pkt_new`. `queue` and `result` are
history variables; they are the refinement mapping to `Fifo`. An
enqueue takes effect at the exchange, a dequeue at its return, and a dequeue that
returns NULL at its load of `q->p`.

The transmit loop is a producer too (a script may call `pkt.send()` in `loop()`),
but never in the middle of its own dequeue.

Two things are assumed. Memory is sequentially consistent: `uatomic_xchg` and
`uatomic_cmpxchg` are full barriers, the remaining accesses are volatile and
ordered on the strongly ordered machines the program is built for. And no script
gives the same packet object to `pkt.send()` twice, not even after it was
transmitted: a script keeps a reference to what it sends (`script.c:543`), a packet
that had a successor when it was dequeued still points at it, and nothing but
`pkt_new` clears that link. `scripts/http.lua:75` keeps to this rule ("We can't
reuse pkt_ip4 and pkt_tcp again"), though for the weaker reason that they "might
still be in the send queue".

### Pktizr

`mpc` is main's position and `pc` that of the two threads. The actions follow the
code in order: `Create`, `CondWait`, `Wakeup` (`START_THREAD`), then
`StatusEnter`, `SampleSent`, `SampleProbe`, `CheckStop`, `ResetStop`,
`WaitSecond` (`status_line`), then `SetDone`, `JoinRecv`, `JoinLoop`, `Close`;
`RecvLoad` to `Release` for `recv_cb`; `LoopLoad` to `CountProbe` for `loop_cb`.
One action ends wherever the next statement reads or writes something another
thread can change. The critical section in which a thread signals its start is one
action, since it holds the mutex throughout.

`START_THREAD` ignores the result of `pthread_create`, so `Create` may leave the
thread uncreated. main then waits for ever for a signal nobody sends: the states
`Hung`, which with the ends of the process are the only ones where no step need
follow (`Stopped`).

A script is everything its calls may do: `ScriptLoop` returns nil for the probes
in `Skips` and a packet for the others, `ScriptRecv` accepts or rejects, and
`ScriptSend` is one `pkt.send()`, of which there may be any number while a script
is loaded and during each call. `Fail` is an error in any of them, in naming the
thread or in a system call of the device, after which the process exits at once.
`handed`, `submitted` and `given` are history variables: the probes passed to
`pkt_send`, the packets passed to `pkt.send()`, and those of them that `loop_cb`
passed on to `pkt_send`. `sent_old` is `status_line`'s last sample of `pkt_sent`.
Counters start with arbitrary contents
(`Garbage`), as `args` comes from `malloc`. A termination signal before
`setup_signals` kills the process.

Message formatting, the arithmetic of the rate shown on the status line (but not
the samples it subtracts) and the contents of packets are left out. `LoopInit` is not enabled when there are no probes, because
`shuffle_init` does not return then.

## What TLC checks

| run | instance | result |
|---|---|---|
| `queue` (`MCQueue.cfg`) | 3 nodes, 2 producers, one of them the consumer | holds |
| `threads` (`MCPktizr.cfg`) | 2 probes, none skipped, 2 frames, 1 signal, 1 second of wait, 1 packet | holds |
| `threads_skips` (`MCPktizrSkips.cfg`) | 2 probes, the first skipped, 1 frame, 1 signal, 2 packets | holds |
| `wait_after_skips` (`MCPktizrSkipsWait.cfg`) | 2 probes, the first skipped, 1 packet | violated, see below |
| `wait_after_signal` (`MCPktizrSignalWait.cfg`) | 2 probes, 1 signal, 1 packet | violated, see below |

`queue` checks that a producer never stores its link into a packet that was
already dequeued (`LinkTargetAlive`), that the consumer only spins on a link
another thread is about to store (`SpinHasWriter`), that the list implements
`Fifo` (`IsFifo`), that a dequeue always returns and that every packet enqueued is
dequeued (`DequeueReturns`, `EveryPacketDequeued`), and the inductive invariant
`IInv` of the proofs. All of it is for scripts that send no packet object twice.
Three nodes are enough for a queue of two with a third
packet in the hands of the consumer or of a producer, and for every node to be
reused; two producers can both be between their two steps.

`threads` checks that status_line starts only when both threads are set up
(`StatusAfterStart`), that the unsigned difference of its samples of `pkt_sent`
never wraps around (`RateNeverWraps`), that a scan it takes for complete has handed every probe to
`pkt_send` (`CompleteMeansAllSent`), that an undisturbed normal exit means a
complete scan and a full wait (`QuietExitComplete`), that the device is closed
last (`ClosedAfterUse`), that the program ends (`Terminates`) and, as deadlock is
checked in every run, that no state but the end is stuck. `Terminates` holds for
finitely many frames and packets, and when both threads could be created: queued
packets go before new probes, so a script that sends a packet for every token
keeps `loop_cb` from its next probe for as long as it does so.

`threads_skips` checks for a script that skips a target that a signal still ends
the program (`SignalEndsProgram`) and that every packet a script passes to
`pkt.send()` is in the end passed to `pkt_send`, unless main sets `done` or the
process ends first, or there is no transmit loop (`SubmittedIsGiven`). It does not
say that the packet reaches the wire: `pkt_send` gives up when `pkt_pack` fails,
and `loop_cb` ignores its result. A signal that arrives after `setup_signals` but
before `status_line` clears `stop` is lost, and `SignalEndsProgram` does not speak
of it.

Two probes are the least for which a sample can be stale with one probe out and
one to go, two packets for a call that sends twice and for one packet to be queued
while another is being sent. The bounds are constants: `MaxFrames` frames are
captured, `MaxSignals` signals delivered, and scripts send each of `Packets` at
most once, at any of their calls.

### Fairness

Each thread is weakly fair: the kernel schedules a thread that can run. For the
queue, a producer between its two steps takes the second one, and the transmit
loop goes on calling `queue_dequeue`; no fairness is assumed of starting an
enqueue. For the threads it includes that a script's calls return, that
`netdev_capture` has a timeout (10 ms in `netdev_sock.c`), that `bucket_consume`
waits for one token at most and that the device frees its transmit buffers.
Signals and frames need never come, and a script need never send: `ScriptSend` is
left out of the fairness of the thread that runs it.

### Where the program departs from its documentation

`docs/pktizr.rst:41` says of `--wait`: "Wait the given amount of seconds after the
scan is complete".

* When `loop()` returns nil for a target, as `scripts/targets.lua` always does,
  `loop_cb` does not count the probe (`pktizr.c:393`). `status_line` waits for
  the count to reach the total (`pktizr.c:440`), so the scan is never complete,
  the wait never starts and only a signal ends the program
  (`WaitFollowsScan`).
* After a signal `status_line` sets `args->stop` (`pktizr.c:444`) and clears it
  again seven lines below. `loop_cb` goes on to new targets during the wait
  (`WaitIsAfterScan`).

## What is proved

Everything proved holds for all values of the constants, from the assumptions
named `QueueAssumption` and `PktizrAssumption` next to the declarations.

**Queue** (`QueueProofs`): `Spec => []IInv`, and from it `LinkTargetAlive`,
`SpinHasWriter` and `Spec => IsFifo`, for any set of nodes and of producers. None
of these is inductive. `IInv` relates the linked list in memory to the abstract
sequence: the tail pointer is the last element; the link into each position is in
place, or is NULL and owed by exactly one producer whose `old_tail` is the node
before it, or is the sentinel's while the consumer keeps it detached; and what the
consumer's local variables say is still true when it uses them. The hard steps
are `DeqUnlink`, which shifts every position by one, and `EnqLink`, for which the
debts of different producers must be for different positions. The link of a node
fresh from `pkt_new` is NULL (`Fresh`), which is what an enqueue needs.

**Threads** (`PktizrProofs`): `Spec => []IInv`, `StatusAfterStart`,
`CompleteMeansAllSent`, `ClosedAfterUse`, `QuietExitComplete` and `RateNeverWraps`,
for any number of probes, skipped ones among them, and any number of frames and
signals. `IInv` adds the handshake (main holds the mutex from the creation of a
thread until it waits, so the thread cannot have signalled before), the relation
of `pkt_probe` to the probes taken (it is never ahead, and level with them only if
none was skipped), and that the samples in status_line are never ahead of their
counters. These theorems assume `~Spurious`: POSIX lets `pthread_cond_wait` return
without a signal, the code has no predicate to test, and with `Spurious = TRUE`
main may read `pkt_count` before it is set.

Only model-checked: all liveness properties, which need fairness.

## Plan

In this order:

1. `Ranges`: `range_list_add`, `count` and `pick` and the index arithmetic of
   `loop_cb` as functions, against the set of requested targets; every target
   probed, the number of times asked for.
2. `Shuffle`: the Feistel network over words of a small width with an arbitrary
   round function; a bijection on the range, `unshuffle` its inverse. To be proved
   for the round structure.
3. `Bucket`: the token bucket over a clock; no interval sees more packets than the
   rate allows. To be proved for any rate.
4. `NetdevSock`: the two rings and the kernel's end of them; frames are read once
   and in order, every slot comes back.
5. `Resolv`: the ARP exchange over a network that loses and delays, with
   `NetdevSock`'s capture and release.
6. `PktRef`: reference counts and ownership of packets between scripts, queue and
   threads, composed with the queue.
7. `Decode`: the grammar of `pkt_pack` and `pkt_unpack`.
8. Start-up and options, then the SYN scan scripts with cookies over a lossy
   network.

## What is not modelled

Byte layouts, checksums and the text of messages are conversions without state of
interest here. The pcap and PF_RING devices are wrappers around libraries. Route
and interface lookup is straight-line I/O at start-up. Uninitialised option
fields, reference counts, ranges, shuffling, rate limiting, the rings and ARP
retries are not modelled yet (see the plan). The data races on the plain flags and
counters are modelled as atomic reads and writes of a word, which is what the
compilers used make of them, since every loop that polls a flag calls functions
the compiler cannot see through.
