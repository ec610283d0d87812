------------------------------- MODULE Pktizr -------------------------------
(***************************************************************************)
(* The three threads of pktizr.c: main starts the receive thread (recv_cb) *)
(* and the transmit loop (loop_cb), watches the progress of the scan       *)
(* (status_line), waits for late replies, tells both threads to stop and   *)
(* joins them.  SIGHUP, SIGINT and SIGTERM only set a flag.                *)
(*                                                                         *)
(* The threads share args (the flags stop and done and the counters) and   *)
(* the send queue.  The queue is the atomic one of Fifo, which the list of *)
(* queue.h implements (Queue).  A script is whatever its calls may do:     *)
(* return a probe or nil from loop(), accept or reject a frame in recv(),  *)
(* send any number of packets from either or while it is loaded, or fail.  *)
(* As in Queue, no packet object is sent twice.                            *)
(***************************************************************************)
EXTENDS Integers, Sequences

CONSTANTS Total,       \* tot_cnt, the number of probes of the scan
          Skips,       \* the probes for which the script's loop() returns nil
          Wait,        \* args->wait, in seconds
          Packets,     \* bound: the packet objects that scripts may send
          NULL,
          Garbage,     \* what the counters may hold when args is malloc'ed
          Spurious,    \* may pthread_cond_wait return without a signal?
          MaxFrames,   \* bound: frames captured
          MaxSignals   \* bound: termination signals delivered

ASSUME PktizrAssumption ==
    /\ Total \in Nat
    /\ Skips \subseteq 0..(Total - 1)
    /\ Wait \in Nat
    /\ NULL \notin Packets
    /\ Garbage \subseteq Nat
    /\ Spurious \in BOOLEAN
    /\ MaxFrames \in Nat
    /\ MaxSignals \in Nat

Threads == {"recv", "loop"}

VARIABLES mpc,        \* where main is
          starting,   \* the thread START_THREAD is about
          pc,         \* where the two threads are
          locked,     \* the threads whose mutex main holds
          signalled,  \* the threads whose signal has woken main
          pkt_count,  \* args->pkt_count, pkt_probe, pkt_sent and pkt_recv
          pkt_probe,
          pkt_sent,
          pkt_recv,
          stop,       \* the flag the signal handler sets
          args_stop,  \* args->stop
          done,       \* args->done
          wait,       \* args->wait
          tot, probe, \* status_line: its copy of pkt_count, its last samples
          sent_old,   \* of pkt_probe and of pkt_sent
          i,          \* loop_cb: the next probe
          handed,     \* history: the probes given to pkt_send
          queue,      \* the send queue
          result,     \* loop_cb: the packet it dequeued
          submitted,  \* history: the packets given to pkt.send()
          given,      \* history: those of them given to pkt_send
          netdev,     \* "open" or "closed"
          exit,       \* "no", "normal" or "failure"
          frames, signals

mainVars == <<mpc, starting, tot, probe, sent_old, wait>>
flagVars == <<stop, args_stop, done>>
startVars == <<locked, signalled>>
loopVars == <<pkt_count, pkt_probe, pkt_sent, i, handed>>
queueVars == <<queue, result, submitted, given>>
envVars == <<frames, signals>>
vars == <<mainVars, flagVars, startVars, pc, loopVars, pkt_recv, queueVars,
          netdev, exit, envVars>>

SendQueue == INSTANCE Fifo WITH Nodes <- Packets

(* main has parsed its options, opened the device, resolved the gateway    *)
(* and called queue_init.                                                  *)
Init ==
    /\ mpc = "create" /\ starting = "recv"
    /\ pc = [t \in Threads |-> "none"]
    /\ locked = {} /\ signalled = {}
    /\ pkt_count \in Garbage /\ pkt_probe \in Garbage
    /\ pkt_sent \in Garbage /\ pkt_recv \in Garbage
    /\ stop = FALSE /\ args_stop = FALSE /\ done = FALSE
    /\ wait = Wait
    /\ tot = 0 /\ probe = 0 /\ sent_old = 0
    /\ i = 0 /\ handed = {}
    /\ SendQueue!Init /\ submitted = {} /\ given = {}
    /\ netdev = "open"
    /\ exit = "no"
    /\ frames = 0 /\ signals = 0

(* No thread takes a step once the process has exited.                     *)
Running == exit = "no"

(* What the steps of main's two phases and of each thread leave alone.     *)
StartOnly ==
    Running /\ UNCHANGED <<tot, probe, sent_old, wait, flagVars, loopVars, pkt_recv,
                           queueVars, netdev, exit, envVars>>
StatusOnly ==
    Running /\ UNCHANGED <<starting, startVars, pc, loopVars, pkt_recv, queueVars,
                           netdev, exit, envVars>>
RecvOnly ==
    Running /\ UNCHANGED <<mainVars, flagVars, startVars, loopVars, netdev, exit, signals>>
LoopOnly ==
    Running /\ UNCHANGED <<mainVars, flagVars, startVars, pkt_recv, netdev, exit, envVars>>

Goto(t, l) == pc' = [pc EXCEPT ![t] = l]

-----------------------------------------------------------------------------
(* START_THREAD in main.                                                   *)

(* Mutant: the thread is created before main holds the mutex.              *)
CreateUnlocked ==
    /\ mpc = "create"
    /\ Goto(starting, "load") \/ UNCHANGED pc
    /\ mpc' = "cond_wait"
    /\ StartOnly /\ UNCHANGED <<starting, startVars>>

(* Lock the mutex and create the thread.  Nothing tests whether            *)
(* pthread_create could.                                                   *)
Create ==
    /\ mpc = "create"
    /\ locked' = locked \cup {starting}
    /\ Goto(starting, "load") \/ UNCHANGED pc
    /\ mpc' = "cond_wait"
    /\ StartOnly /\ UNCHANGED <<starting, signalled>>

(* pthread_cond_wait releases the mutex and blocks.                        *)
CondWait ==
    /\ mpc = "cond_wait"
    /\ locked' = locked \ {starting}
    /\ mpc' = "blocked"
    /\ StartOnly /\ UNCHANGED <<starting, signalled, pc>>

(* Mutant: main does not wait for the thread's signal.                     *)
WakeupEarly ==
    /\ mpc = "blocked"
    /\ IF starting = "recv"
         THEN starting' = "loop" /\ mpc' = "create"
         ELSE mpc' = "enter" /\ UNCHANGED starting
    /\ StartOnly /\ UNCHANGED <<startVars, pc>>

(* It returns: on to the next thread, or to setup_signals and status_line. *)
Wakeup ==
    /\ mpc = "blocked"
    /\ starting \in signalled \/ Spurious
    /\ IF starting = "recv"
         THEN starting' = "loop" /\ mpc' = "create"
         ELSE mpc' = "enter" /\ UNCHANGED starting
    /\ StartOnly /\ UNCHANGED <<startVars, pc>>

-----------------------------------------------------------------------------
(* What both threads do.                                                   *)

(* fail_printf and sysf_printf: a script does not load or run or returns   *)
(* no packet, the thread cannot be named (before it signals its start), or *)
(* a system call of the device fails; the process exits.                   *)
Fail(t) ==
    /\ Running
    /\ pc[t] \in {"load", "signal", "capture", "recv", "send", "call", "probe"}
    /\ exit' = "failure"
    /\ UNCHANGED <<mainVars, flagVars, startVars, pc, loopVars, pkt_recv,
                   queueVars, netdev, envVars>>

(* pkt.send() in the thread's script, which may call it again and again:   *)
(* from the chunk that script_load runs, from recv() or from loop().       *)
ScriptSend(t) ==
    /\ Running
    /\ pc[t] \in {"load", "recv", "call"}
    /\ \E n \in Packets \ submitted :
         /\ SendQueue!Enqueue(n)
         /\ submitted' = submitted \cup {n}
    /\ UNCHANGED <<mainVars, flagVars, startVars, pc, loopVars, pkt_recv, given,
                   netdev, exit, envVars>>

(* Lock the mutex, signal the condition, unlock: wakes main if it waits.   *)
SignalStarted(t) ==
    /\ Running
    /\ pc[t] = "signal"
    /\ t \notin locked
    /\ signalled' = IF mpc = "blocked" /\ starting = t
                    THEN signalled \cup {t} ELSE signalled
    /\ Goto(t, "while")
    /\ UNCHANGED <<mainVars, flagVars, locked, loopVars, pkt_recv, queueVars,
                   netdev, exit, envVars>>

(* while (!args->done); script_close when it ends.                         *)
While(t, body) ==
    /\ Running
    /\ pc[t] = "while"
    /\ Goto(t, IF done THEN "ended" ELSE body)
    /\ UNCHANGED <<mainVars, flagVars, startVars, loopVars, pkt_recv, queueVars,
                   netdev, exit, envVars>>

-----------------------------------------------------------------------------
(* recv_cb.                                                                *)

(* script_load, then args->pkt_recv = 0 and pthread_setname_np.            *)
RecvLoad ==
    /\ pc["recv"] = "load"
    /\ pkt_recv' = 0
    /\ Goto("recv", "signal")
    /\ RecvOnly /\ UNCHANGED <<queueVars, frames>>

RecvWhile == While("recv", "capture")

(* netdev_capture gives up after its timeout.                              *)
CaptureNothing ==
    /\ pc["recv"] = "capture"
    /\ Goto("recv", "while")
    /\ RecvOnly /\ UNCHANGED <<pkt_recv, queueVars, frames>>

(* It returns a frame, which pkt_unpack decodes or not.                    *)
CaptureFrame ==
    /\ pc["recv"] = "capture"
    /\ frames < MaxFrames
    /\ frames' = frames + 1
    /\ \E l \in {"recv", "release"} : Goto("recv", l)
    /\ RecvOnly /\ UNCHANGED <<pkt_recv, queueVars>>

(* script_recv returns: a frame the script accepts is counted.             *)
ScriptRecv ==
    /\ pc["recv"] = "recv"
    /\ pkt_recv' \in {pkt_recv, pkt_recv + 1}
    /\ Goto("recv", "release")
    /\ RecvOnly /\ UNCHANGED <<queueVars, frames>>

(* netdev_release.                                                         *)
Release ==
    /\ pc["recv"] = "release"
    /\ Goto("recv", "while")
    /\ RecvOnly /\ UNCHANGED <<pkt_recv, queueVars, frames>>

Recv ==
    \/ RecvLoad
    \/ SignalStarted("recv")
    \/ RecvWhile
    \/ CaptureNothing
    \/ CaptureFrame
    \/ ScriptRecv
    \/ Release
    \/ Fail("recv")

-----------------------------------------------------------------------------
(* loop_cb.                                                                *)

(* script_load.                                                            *)
LoopLoad ==
    /\ pc["loop"] = "load"
    /\ Goto("loop", "init")
    /\ LoopOnly /\ UNCHANGED <<loopVars, queueVars>>

(* Count the probes and reset the counters.  shuffle_init does not return  *)
(* for an empty range: its search for a factor never ends.                 *)
LoopInit ==
    /\ pc["loop"] = "init"
    /\ Total > 0
    /\ pkt_count' = Total
    /\ pkt_probe' = 0
    /\ pkt_sent' = 0
    /\ Goto("loop", "signal")
    /\ LoopOnly /\ UNCHANGED <<i, handed, queueVars>>

(* The body starts with bucket_consume, which waits for the next token.    *)
LoopWhile == While("loop", "dequeue")

(* queue_dequeue.                                                          *)
Dequeue ==
    /\ pc["loop"] = "dequeue"
    /\ \/ SendQueue!Dequeue /\ Goto("loop", "send")
       \/ SendQueue!DequeueEmpty /\ Goto("loop", "script")
    /\ LoopOnly /\ UNCHANGED <<loopVars, submitted, given>>

(* pkt_send: neither injected nor counted when pkt_pack finds that the     *)
(* packet does not fit, which no caller notices.                           *)
PktSend == pkt_sent' \in {pkt_sent, pkt_sent + 1}

(* Mutant: the packet is freed without having been given to pkt_send.      *)
SendQueuedDrops ==
    /\ pc["loop"] = "send"
    /\ Goto("loop", "while")
    /\ LoopOnly /\ UNCHANGED <<loopVars, queueVars>>

(* Send a packet from the queue, then free it.                             *)
SendQueued ==
    /\ pc["loop"] = "send"
    /\ PktSend
    /\ given' = given \cup {result}
    /\ Goto("loop", "while")
    /\ LoopOnly /\ UNCHANGED <<pkt_count, pkt_probe, i, handed, queue, result, submitted>>

(* Mutant: a probe is also counted when it is taken.                       *)
NextProbeCounts ==
    /\ pc["loop"] = "script"
    /\ IF i >= Total \/ args_stop
         THEN Goto("loop", "while") /\ UNCHANGED <<i, pkt_probe>>
         ELSE Goto("loop", "call") /\ i' = i + 1 /\ pkt_probe' = pkt_probe + 1
    /\ LoopOnly /\ UNCHANGED <<pkt_count, pkt_sent, handed, queueVars>>

(* The queue was empty: take the next probe unless all are out or main     *)
(* said stop.                                                              *)
NextProbe ==
    /\ pc["loop"] = "script"
    /\ IF i >= Total \/ args_stop
         THEN Goto("loop", "while") /\ UNCHANGED i
         ELSE Goto("loop", "call") /\ i' = i + 1
    /\ LoopOnly /\ UNCHANGED <<pkt_count, pkt_probe, pkt_sent, handed, queueVars>>

(* script_loop for probe i - 1 returns.                                    *)
ScriptLoop ==
    /\ pc["loop"] = "call"
    /\ Goto("loop", IF i - 1 \in Skips THEN "while" ELSE "probe")
    /\ LoopOnly /\ UNCHANGED <<loopVars, queueVars>>

(* Send the probe.  The result of pkt_send is ignored.                     *)
SendProbe ==
    /\ pc["loop"] = "probe"
    /\ PktSend
    /\ handed' = handed \cup {i - 1}
    /\ Goto("loop", "count")
    /\ LoopOnly /\ UNCHANGED <<pkt_count, pkt_probe, i, queueVars>>

(* args->pkt_probe++, and pkt_free_all.                                    *)
CountProbe ==
    /\ pc["loop"] = "count"
    /\ pkt_probe' = pkt_probe + 1
    /\ Goto("loop", "while")
    /\ LoopOnly /\ UNCHANGED <<pkt_count, pkt_sent, i, handed, queueVars>>

Loop ==
    \/ LoopLoad
    \/ LoopInit
    \/ SignalStarted("loop")
    \/ LoopWhile
    \/ Dequeue
    \/ SendQueued
    \/ NextProbe
    \/ ScriptLoop
    \/ SendProbe
    \/ CountProbe
    \/ Fail("loop")

-----------------------------------------------------------------------------
(* status_line in main.                                                    *)

StatusEnter ==
    /\ mpc = "enter"
    /\ tot' = pkt_count
    /\ sent_old' = pkt_sent
    /\ stop' = FALSE
    /\ mpc' = "sample"
    /\ StatusOnly /\ UNCHANGED <<probe, wait, args_stop, done>>

(* Read pkt_sent, for the rate since the last sample.                      *)
SampleSent ==
    /\ mpc = "sample"
    /\ sent_old' = pkt_sent
    /\ mpc' = "progress"
    /\ StatusOnly /\ UNCHANGED <<tot, probe, wait, flagVars>>

(* Then pkt_probe; leave the loop when every probe is out.                 *)
SampleProbe ==
    /\ mpc = "progress"
    /\ probe' = pkt_probe
    /\ mpc' = IF pkt_probe = tot THEN "reset" ELSE "check"
    /\ StatusOnly /\ UNCHANGED <<tot, sent_old, wait, flagVars>>

(* Mutant: a signal stops the probes but not the sampling.                 *)
CheckStopNoBreak ==
    /\ mpc = "check"
    /\ args_stop' = (args_stop \/ stop)
    /\ mpc' = "sample"
    /\ StatusOnly /\ UNCHANGED <<tot, probe, sent_old, wait, stop, done>>

(* Mutant: the condition is inverted.                                      *)
CheckStopInverted ==
    /\ mpc = "check"
    /\ IF ~stop
         THEN args_stop' = TRUE /\ mpc' = "reset"
         ELSE mpc' = "sample" /\ UNCHANGED args_stop
    /\ StatusOnly /\ UNCHANGED <<tot, probe, sent_old, wait, stop, done>>

(* Leave it after a signal; otherwise sleep and sample again.              *)
CheckStop ==
    /\ mpc = "check"
    /\ IF stop
         THEN args_stop' = TRUE /\ mpc' = "reset"
         ELSE mpc' = "sample" /\ UNCHANGED args_stop
    /\ StatusOnly /\ UNCHANGED <<tot, probe, sent_old, wait, stop, done>>

(* args->stop = stop = false.                                              *)
ResetStop ==
    /\ mpc = "reset"
    /\ stop' = FALSE
    /\ args_stop' = FALSE
    /\ mpc' = "wait"
    /\ StatusOnly /\ UNCHANGED <<tot, probe, sent_old, wait, done>>

(* One second of the wait, or its end.                                     *)
WaitSecond ==
    /\ mpc = "wait"
    /\ IF wait > 0 /\ ~stop
         THEN wait' = wait - 1 /\ UNCHANGED <<mpc, args_stop>>
         ELSE args_stop' = TRUE /\ mpc' = "done" /\ UNCHANGED wait
    /\ StatusOnly /\ UNCHANGED <<tot, probe, sent_old, stop, done>>

-----------------------------------------------------------------------------
(* The end of main.                                                        *)

SetDone ==
    /\ mpc = "done"
    /\ done' = TRUE
    /\ mpc' = "join_recv"
    /\ StatusOnly /\ UNCHANGED <<tot, probe, sent_old, wait, stop, args_stop>>

JoinRecv ==
    /\ mpc = "join_recv"
    /\ pc["recv"] = "ended"
    /\ mpc' = "join_loop"
    /\ StatusOnly /\ UNCHANGED <<tot, probe, sent_old, wait, flagVars>>

(* Mutant: only the receive thread is joined.                              *)
JoinLoopSkipped ==
    /\ mpc = "join_loop"
    /\ mpc' = "close"
    /\ StatusOnly /\ UNCHANGED <<tot, probe, sent_old, wait, flagVars>>

JoinLoop ==
    /\ mpc = "join_loop"
    /\ pc["loop"] = "ended"
    /\ mpc' = "close"
    /\ StatusOnly /\ UNCHANGED <<tot, probe, sent_old, wait, flagVars>>

(* netdev_close, the range lists are freed, main returns.                  *)
Close ==
    /\ Running
    /\ mpc = "close"
    /\ netdev' = "closed"
    /\ exit' = "normal"
    /\ UNCHANGED <<mainVars, flagVars, startVars, pc, loopVars, pkt_recv,
                   queueVars, envVars>>

Main ==
    \/ Create
    \/ CondWait
    \/ Wakeup
    \/ StatusEnter
    \/ SampleSent
    \/ SampleProbe
    \/ CheckStop
    \/ ResetStop
    \/ WaitSecond
    \/ SetDone
    \/ JoinRecv
    \/ JoinLoop
    \/ Close

Startup == mpc \in {"create", "cond_wait", "blocked"}

(* A termination signal: handle_term_sig, or death before setup_signals.   *)
Signal ==
    /\ Running
    /\ signals < MaxSignals
    /\ signals' = signals + 1
    /\ IF Startup
         THEN exit' = "failure" /\ UNCHANGED stop
         ELSE stop' = TRUE /\ UNCHANGED exit
    /\ UNCHANGED <<mainVars, args_stop, done, startVars, pc, loopVars, pkt_recv,
                   queueVars, netdev, frames>>

(* pthread_create has failed, and main waits for a thread that does not    *)
(* exist.                                                                  *)
Hung == mpc = "blocked" /\ pc[starting] = "none"

(* No step is left.                                                        *)
Stopped == (~Running \/ Hung) /\ UNCHANGED vars

Next == Main \/ Recv \/ Loop \/ (\E t \in Threads : ScriptSend(t)) \/ Signal \/ Stopped

Spec == Init /\ [][Next]_vars

(* The kernel schedules every thread that can run.  A script's calls       *)
(* return, however often they call pkt.send() (Recv and Loop leave         *)
(* ScriptSend out), netdev_capture has a timeout, bucket_consume waits for *)
(* at most one token, and the device frees its transmit buffers.           *)
Fairness ==
    /\ WF_vars(Main)
    /\ WF_vars(Recv)
    /\ WF_vars(Loop)

FairSpec == Spec /\ Fairness

-----------------------------------------------------------------------------
Labels == {"none", "load", "init", "signal", "while", "ended",
           "capture", "recv", "release",
           "dequeue", "send", "script", "call", "probe", "count"}

VarsOK ==
    /\ mpc \in {"create", "cond_wait", "blocked", "enter", "sample", "progress", "check",
                "reset", "wait", "done", "join_recv", "join_loop", "close"}
    /\ starting \in Threads
    /\ pc \in [Threads -> Labels]
    /\ locked \subseteq Threads
    /\ signalled \subseteq Threads
    /\ pkt_count \in Nat /\ pkt_probe \in Nat /\ pkt_sent \in Nat /\ pkt_recv \in Nat
    /\ wait \in 0..Wait
    /\ tot \in Nat /\ probe \in Nat /\ sent_old \in Nat
    /\ i \in 0..Total
    /\ handed \subseteq 0..(Total - 1)
    /\ queue \in Seq(Packets)
    /\ result \in Packets \cup {NULL}
    /\ submitted \subseteq Packets /\ given \subseteq Packets \cup {NULL}
    /\ netdev \in {"open", "closed"}
    /\ exit \in {"no", "normal", "failure"}
    /\ frames \in 0..MaxFrames
    /\ signals \in 0..MaxSignals

FlagsOK == stop \in BOOLEAN /\ args_stop \in BOOLEAN /\ done \in BOOLEAN

TypeOK == VarsOK /\ FlagsOK

InScan == mpc \in {"sample", "progress", "check"}
AfterScan == mpc \in {"reset", "wait", "done", "join_recv", "join_loop", "close"}

(* status_line runs only when both threads have finished their set-up, so  *)
(* it reads no counter that is still uninitialised.  This takes that       *)
(* pthread_cond_wait does not return without a signal (~Spurious).         *)
StatusAfterStart ==
    ~Startup => \A t \in Threads : pc[t] \notin {"none", "load", "init", "signal"}

(* The unsigned difference sent - sent_old in status_line never wraps      *)
(* around: what it kept of an earlier sample, the one before its loop      *)
(* included, is not above the counter that loop_cb has set up meanwhile.   *)
RateNeverWraps == InScan => sent_old <= pkt_sent

(* When status_line takes the scan for complete, from a counter it samples *)
(* while the transmit loop runs on, every probe has been given to pkt_send *)
CompleteMeansAllSent ==
    AfterScan /\ probe = tot => handed = 0..(Total - 1)

(* netdev_close comes after the last use of the device by either thread.   *)
ClosedAfterUse == netdev = "closed" => \A t \in Threads : pc[t] = "ended"

(* Without a signal, a normal exit means a complete scan and the full wait *)
QuietExitComplete ==
    exit = "normal" /\ signals = 0 => handed = 0..(Total - 1) /\ wait = 0

(* The program ends by itself when loop() returns a probe every time and   *)
(* both threads could be created.  It takes that the frames, and so the    *)
(* packets sent in reply, come to an end: with a reply for every token     *)
(* loop_cb never gets to its next probe.                                   *)
Terminates == <>(~Running \/ Hung)

(* A signal that arrives while status_line samples ends the program, even  *)
(* when the scan itself would never be seen as complete.                   *)
SignalEndsProgram == (InScan /\ stop) ~> ~Running

(* Every packet a script passes to pkt.send(), as it is loaded, from       *)
(* recv() or from loop(), one or several in a call, is in the end given to *)
(* pkt_send, unless main has set done or the process ends first, or there  *)
(* is no transmit loop.  pkt_send may still drop it: when pkt_pack fails   *)
(* it returns -1, and loop_cb ignores that.                                *)
SubmittedIsGiven ==
    \A n \in Packets :
        n \in submitted ~> (n \in given \/ done \/ ~Running \/ Hung)

(* docs/pktizr.rst:41 on --wait: "Wait the given amount of seconds after   *)
(* the scan is complete".  So the wait starts once loop_cb has gone        *)
(* through all its targets.                                                *)
WaitFollowsScan ==
    (i = Total /\ pc["loop"] = "while") ~> (AfterScan \/ ~Running)

(* The same sentence: no new target is probed during the wait.             *)
WaitIsAfterScan == [][mpc = "wait" => i' = i]_vars

-----------------------------------------------------------------------------
(* The inductive invariant behind the safety properties above.             *)

Started(t) == pc[t] \notin {"none", "load", "init", "signal"}

(* The probe taken last is still between loop() and its count.             *)
Pending == pc["loop"] \in {"call", "probe", "count"}

Completed == IF Pending THEN i - 1 ELSE i

Handshake ==
    /\ starting = "recv" => Startup /\ pc["loop"] = "none"
    /\ starting = "loop" => Started("recv")
    /\ mpc = "create" => pc[starting] = "none"
    /\ mpc = "cond_wait" => starting \in locked /\ ~Started(starting)
    /\ \A t \in signalled : Started(t)
    /\ ~Startup => Started("loop")

(* The counter keeps up with the probes taken only if none was skipped.    *)
Progress ==
    /\ pc["loop"] \in {"none", "load", "init"} => i = 0
    /\ pc["loop"] \notin {"none", "load", "init"} =>
         /\ pkt_count = Total
         /\ pkt_probe <= Completed
         /\ pkt_probe = Completed => 0..(Completed - 1) \subseteq handed
    /\ Pending => i > 0
    /\ pc["loop"] = "count" => i - 1 \in handed

(* What status_line knows from its samples.                                *)
Sampled ==
    /\ ~Startup /\ mpc # "enter" => tot = Total
    /\ AfterScan \/ mpc = "check" => probe <= pkt_probe
    /\ RateNeverWraps

Ending ==
    /\ mpc \in {"join_loop", "close"} => pc["recv"] = "ended"
    /\ mpc = "close" => pc["loop"] = "ended"
    /\ netdev = "closed" \/ exit = "normal" => mpc = "close"

Undisturbed == signals = 0 =>
    /\ ~stop
    /\ AfterScan => probe = tot
    /\ mpc \in {"done", "join_recv", "join_loop", "close"} => wait = 0

(* The state of the three threads in every reachable state: what each has  *)
(* set up when main goes on, how the counters relate to the probes taken,  *)
(* what main's samples still say, and what has ended.  For ~Spurious.      *)
IInv ==
    /\ TypeOK
    /\ Handshake
    /\ Progress
    /\ Sampled
    /\ Ending
    /\ Undisturbed
=============================================================================
