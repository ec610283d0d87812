---------------------------- MODULE PktizrProofs ----------------------------
(***************************************************************************)
(* Proofs about the three threads, for any number of probes, frames,       *)
(* signals and packets, and for any script.  pthread_cond_wait is taken    *)
(* not to return without a signal (~Spurious).                             *)
(***************************************************************************)
EXTENDS Pktizr, TLAPS

USE PktizrAssumption DEF StartOnly, StatusOnly, RecvOnly, LoopOnly

LEMMA InitIInv == Init => IInv
<1> SUFFICES ASSUME Init PROVE IInv
  OBVIOUS
<1> USE DEF Init
<1>1. VarsOK
  <2>1. pc \in [Threads -> Labels] /\ starting \in Threads
    BY DEF Threads, Labels
  <2> QED
    BY <2>1 DEF VarsOK, SendQueue!Init
<1>2. FlagsOK
  BY DEF FlagsOK
<1>3. Handshake /\ Progress /\ Sampled /\ Ending /\ Undisturbed
  BY DEF Handshake, Progress, Sampled, Ending, Undisturbed, Started, Startup,
         Pending, Completed, AfterScan, InScan, RateNeverWraps, Threads
<1> QED
  BY <1>1, <1>2, <1>3 DEF IInv, TypeOK

(* The queue keeps its type.                                               *)
LEMMA QueueType ==
  ASSUME VarsOK,
         \/ \E n \in Packets : SendQueue!Enqueue(n)
         \/ SendQueue!Dequeue
         \/ SendQueue!DequeueEmpty
  PROVE  queue' \in Seq(Packets) /\ result' \in Packets \cup {NULL}
BY DEF VarsOK, SendQueue!Enqueue, SendQueue!Dequeue, SendQueue!DequeueEmpty

(* A jump of one thread leaves the other where it is.                      *)
LEMMA GotoFacts ==
  ASSUME pc \in [Threads -> Labels], NEW t \in Threads, NEW l \in Labels, Goto(t, l)
  PROVE  /\ pc' \in [Threads -> Labels]
         /\ pc'[t] = l
         /\ \A u \in Threads : u # t => pc'[u] = pc[u]
BY DEF Goto

LEMMA ThreadFacts == Threads = {"recv", "loop"} /\ "recv" \in Threads /\ "loop" \in Threads
BY DEF Threads

LEMMA MainType == ASSUME VarsOK, Main PROVE VarsOK'
<1> USE DEF mainVars, flagVars, startVars, loopVars, queueVars, envVars
<1>1. CASE Create
  <2>1. pc' \in [Threads -> Labels]
    <3>1. CASE Goto(starting, "load")
      BY <3>1, GotoFacts DEF VarsOK, Labels
    <3>2. CASE UNCHANGED pc
      BY <3>2 DEF VarsOK
    <3> QED
      BY <1>1, <3>1, <3>2 DEF Create
  <2> QED
    BY <1>1, <2>1 DEF VarsOK, Create
<1>2. CASE CondWait \/ Wakeup
  BY <1>2, ThreadFacts DEF VarsOK, CondWait, Wakeup
<1>3. CASE StatusEnter \/ SampleSent \/ SampleProbe \/ CheckStop \/ ResetStop
  BY <1>3 DEF VarsOK, StatusEnter, SampleSent, SampleProbe, CheckStop, ResetStop
<1>4. CASE WaitSecond
  BY <1>4 DEF VarsOK, WaitSecond
<1>5. CASE SetDone \/ JoinRecv \/ JoinLoop \/ Close
  BY <1>5 DEF VarsOK, SetDone, JoinRecv, JoinLoop, Close
<1> QED
  BY <1>1, <1>2, <1>3, <1>4, <1>5 DEF Main

(* What a step of the receive thread can touch.                            *)
LEMMA RecvFrame ==
  ASSUME VarsOK, Recv
  PROVE  /\ UNCHANGED <<mainVars, flagVars, locked, loopVars, queueVars, netdev, signals>>
         /\ exit' = exit \/ exit' = "failure"
         /\ pc' \in [Threads -> Labels]
         /\ pc'["loop"] = pc["loop"]
<1> USE ThreadFacts DEF VarsOK
<1>1. CASE Fail("recv")
  BY <1>1 DEF Fail, startVars, envVars
<1>2. CASE RecvLoad \/ SignalStarted("recv")
  BY <1>2, GotoFacts DEF RecvLoad, SignalStarted, Labels, startVars, envVars
<1>3. CASE RecvWhile \/ CaptureNothing \/ CaptureFrame \/ ScriptRecv \/ Release
  BY <1>3, GotoFacts DEF RecvWhile, While, CaptureNothing, CaptureFrame, ScriptRecv,
                         Release, Labels, startVars, envVars
<1> QED
  BY <1>1, <1>2, <1>3 DEF Recv

(* How it moves through its start-up and to its end.                       *)
LEMMA RecvStart ==
  ASSUME VarsOK, Recv
  PROVE  /\ Started("recv") => Started("recv")'
         /\ Started("recv")' /\ ~Started("recv") => "recv" \notin locked
         /\ pc["recv"] # "none"
         /\ pc["recv"] # "ended" \/ pc'["recv"] = "ended"
         /\ signalled' \subseteq signalled \cup {"recv"}
         /\ signalled' # signalled => Started("recv")'
<1> USE ThreadFacts DEF VarsOK, Started
<1>1. CASE Fail("recv")
  BY <1>1 DEF Fail, startVars
<1>2. CASE RecvLoad \/ SignalStarted("recv")
  BY <1>2, GotoFacts DEF RecvLoad, SignalStarted, Labels, startVars
<1>3. CASE RecvWhile \/ CaptureNothing \/ CaptureFrame \/ ScriptRecv \/ Release
  BY <1>3, GotoFacts DEF RecvWhile, While, CaptureNothing, CaptureFrame, ScriptRecv,
                         Release, Labels, startVars
<1> QED
  BY <1>1, <1>2, <1>3 DEF Recv

LEMMA RecvInv ==
  ASSUME IInv, Recv
  PROVE  IInv'
<1> USE ThreadFacts DEF IInv, TypeOK
<1>1. VarsOK'
  <2>1. pkt_recv' \in Nat /\ frames' \in 0..MaxFrames
    BY DEF VarsOK, Recv, RecvLoad, SignalStarted, RecvWhile, While, CaptureNothing,
           CaptureFrame, ScriptRecv, Release, Fail, envVars
  <2> QED
    BY <2>1, RecvFrame, RecvStart DEF VarsOK, mainVars, loopVars, queueVars
<1>2. FlagsOK'
  BY RecvFrame DEF FlagsOK, flagVars
<1>3. Handshake'
  <2>1. UNCHANGED <<mpc, starting, locked>> /\ (Started("loop")' <=> Started("loop"))
    BY RecvFrame DEF mainVars, Started
  <2>2. \A t \in signalled' : Started(t)'
    BY <2>1, RecvStart DEF Handshake, VarsOK
  <2>3. mpc = "create" => pc'[starting] = "none"
    BY RecvFrame, RecvStart DEF Handshake, VarsOK
  <2>4. mpc = "cond_wait" => ~Started(starting)'
    BY <2>1, RecvStart DEF Handshake, VarsOK
  <2> QED
    BY <2>1, <2>2, <2>3, <2>4, RecvFrame, RecvStart DEF Handshake, Startup
<1>4. Progress' /\ Sampled'
  BY RecvFrame DEF Progress, Sampled, Pending, Completed, Startup, AfterScan,
                   InScan, RateNeverWraps, mainVars, loopVars
<1>5. Ending'
  BY RecvFrame, RecvStart DEF Ending, mainVars
<1>6. Undisturbed'
  BY RecvFrame DEF Undisturbed, AfterScan, mainVars, flagVars
<1> QED
  BY <1>1, <1>2, <1>3, <1>4, <1>5, <1>6

(* The same for the transmit loop.                                         *)
LEMMA LoopFrame ==
  ASSUME VarsOK, Loop
  PROVE  /\ UNCHANGED <<mainVars, flagVars, locked, pkt_recv, netdev, envVars>>
         /\ exit' = exit \/ exit' = "failure"
         /\ pc' \in [Threads -> Labels]
         /\ pc'["recv"] = pc["recv"]
<1> USE ThreadFacts DEF VarsOK
<1>1. CASE Fail("loop")
  BY <1>1 DEF Fail, startVars
<1>2. CASE LoopLoad \/ LoopInit \/ SignalStarted("loop") \/ LoopWhile
  BY <1>2, GotoFacts DEF LoopLoad, LoopInit, SignalStarted, LoopWhile, While, Labels,
                         startVars
<1>3. CASE Dequeue \/ SendQueued \/ NextProbe \/ ScriptLoop
  BY <1>3, GotoFacts DEF Dequeue, SendQueued, NextProbe, ScriptLoop, Labels, startVars
<1>4. CASE SendProbe \/ CountProbe
  BY <1>4, GotoFacts DEF SendProbe, CountProbe, Labels, startVars
<1> QED
  BY <1>1, <1>2, <1>3, <1>4 DEF Loop

LEMMA LoopStart ==
  ASSUME VarsOK, Loop
  PROVE  /\ Started("loop") => Started("loop")'
         /\ Started("loop")' /\ ~Started("loop") => "loop" \notin locked
         /\ pc["loop"] # "none"
         /\ pc["loop"] # "ended" \/ pc'["loop"] = "ended"
         /\ signalled' \subseteq signalled \cup {"loop"}
         /\ signalled' # signalled => Started("loop")'
<1> USE ThreadFacts DEF VarsOK, Started
<1>1. CASE Fail("loop")
  BY <1>1 DEF Fail, startVars
<1>2. CASE LoopLoad \/ LoopInit \/ SignalStarted("loop") \/ LoopWhile
  BY <1>2, GotoFacts DEF LoopLoad, LoopInit, SignalStarted, LoopWhile, While, Labels,
                         startVars
<1>3. CASE Dequeue \/ SendQueued \/ NextProbe \/ ScriptLoop
  BY <1>3, GotoFacts DEF Dequeue, SendQueued, NextProbe, ScriptLoop, Labels, startVars
<1>4. CASE SendProbe \/ CountProbe
  BY <1>4, GotoFacts DEF SendProbe, CountProbe, Labels, startVars
<1> QED
  BY <1>1, <1>2, <1>3, <1>4 DEF Loop

(* Its counters: they only grow once the thread has started, and keep      *)
(* their relation to the probes taken.                                     *)
LEMMA LoopProgress ==
  ASSUME IInv, Loop
  PROVE  /\ i' \in 0..Total
         /\ handed' \subseteq 0..(Total - 1)
         /\ pkt_count' \in Nat /\ pkt_probe' \in Nat /\ pkt_sent' \in Nat
         /\ Started("loop") => pkt_probe' >= pkt_probe /\ pkt_sent' >= pkt_sent
         /\ Progress'
<1> USE ThreadFacts DEF IInv, TypeOK, VarsOK, Progress, Pending, Completed, Started
<1>1. CASE Fail("loop")
  BY <1>1 DEF Fail, loopVars
<1>2. CASE LoopLoad
  <2>1. pc'["loop"] = "init" /\ UNCHANGED loopVars
    BY <1>2, GotoFacts DEF LoopLoad, Labels
  <2> QED
    BY <1>2, <2>1 DEF LoopLoad, loopVars
<1>3. CASE LoopInit
  <2>1. pc'["loop"] = "signal"
    BY <1>3, GotoFacts DEF LoopInit, Labels
  <2> QED
    BY <1>3, <2>1 DEF LoopInit
<1>4. CASE SignalStarted("loop")
  <2>1. pc'["loop"] = "while"
    BY <1>4, GotoFacts DEF SignalStarted, Labels
  <2> QED
    BY <1>4, <2>1 DEF SignalStarted, loopVars
<1>5. CASE LoopWhile
  <2>1. pc'["loop"] \in {"ended", "dequeue"}
    BY <1>5, GotoFacts DEF LoopWhile, While, Labels
  <2> QED
    BY <1>5, <2>1 DEF LoopWhile, While, loopVars
<1>6. CASE Dequeue
  <2>1. pc'["loop"] \in {"send", "script"}
    BY <1>6, GotoFacts DEF Dequeue, Labels
  <2> QED
    BY <1>6, <2>1 DEF Dequeue, loopVars
<1>7. CASE SendQueued
  <2>1. pc'["loop"] = "while"
    BY <1>7, GotoFacts DEF SendQueued, Labels
  <2> QED
    BY <1>7, <2>1 DEF SendQueued, PktSend
<1>8. CASE NextProbe
  <2>1. CASE i >= Total \/ args_stop
    <3>1. pc'["loop"] = "while" /\ i' = i
      BY <1>8, <2>1, GotoFacts DEF NextProbe, Labels
    <3> QED
      BY <1>8, <3>1 DEF NextProbe
  <2>2. CASE ~(i >= Total \/ args_stop)
    <3>1. pc'["loop"] = "call" /\ i' = i + 1 /\ i < Total
      BY <1>8, <2>2, GotoFacts DEF NextProbe, Labels
    <3> QED
      BY <1>8, <3>1 DEF NextProbe
  <2> QED
    BY <2>1, <2>2
<1>9. CASE ScriptLoop
  <2>1. pc'["loop"] \in {"while", "probe"}
    BY <1>9, GotoFacts DEF ScriptLoop, Labels
  <2> QED
    BY <1>9, <2>1 DEF ScriptLoop, loopVars
<1>10. CASE SendProbe
  <2>1. pc'["loop"] = "count"
    BY <1>10, GotoFacts DEF SendProbe, Labels
  <2> QED
    BY <1>10, <2>1 DEF SendProbe, PktSend
<1>11. CASE CountProbe
  <2>1. pc'["loop"] = "while"
    BY <1>11, GotoFacts DEF CountProbe, Labels
  <2> QED
    BY <1>11, <2>1 DEF CountProbe
<1> QED
  BY <1>1, <1>2, <1>3, <1>4, <1>5, <1>6, <1>7, <1>8, <1>9, <1>10, <1>11 DEF Loop

LEMMA LoopInv ==
  ASSUME IInv, Loop
  PROVE  IInv'
<1> USE ThreadFacts DEF IInv, TypeOK
<1>1. VarsOK'
  <2>1. /\ queue' \in Seq(Packets) /\ result' \in Packets \cup {NULL}
        /\ submitted' \subseteq Packets /\ given' \subseteq Packets \cup {NULL}
    <3>1. CASE Dequeue
      BY <3>1, QueueType DEF Dequeue, VarsOK
    <3>2. CASE SendQueued
      BY <3>2 DEF SendQueued, VarsOK
    <3>3. CASE UNCHANGED queueVars
      BY <3>3 DEF VarsOK, queueVars
    <3> QED
      BY <3>1, <3>2, <3>3 DEF Loop, LoopLoad, LoopInit, SignalStarted, LoopWhile, While,
                              NextProbe, ScriptLoop, SendProbe, CountProbe, Fail
  <2> QED
    BY <2>1, LoopFrame, LoopStart, LoopProgress DEF VarsOK, mainVars, envVars
<1>2. FlagsOK'
  BY LoopFrame DEF FlagsOK, flagVars
<1>3. Handshake'
  <2>1. UNCHANGED <<mpc, starting, locked>> /\ (Started("recv")' <=> Started("recv"))
    BY LoopFrame DEF mainVars, Started
  <2>2. \A t \in signalled' : Started(t)'
    BY <2>1, LoopStart DEF Handshake, VarsOK
  <2>3. mpc = "create" => pc'[starting] = "none"
    BY LoopFrame, LoopStart DEF Handshake, VarsOK
  <2>4. mpc = "cond_wait" => ~Started(starting)'
    BY <2>1, LoopStart DEF Handshake, VarsOK
  <2> QED
    BY <2>1, <2>2, <2>3, <2>4, LoopFrame, LoopStart DEF Handshake, Startup
<1>4. Sampled'
  <2>1. AfterScan \/ InScan => Started("loop")
    BY DEF AfterScan, InScan, Handshake, Startup
  <2>2. UNCHANGED <<mpc, tot, probe, sent_old>>
    BY LoopFrame DEF mainVars
  <2>3. /\ Started("loop") => pkt_probe' >= pkt_probe /\ pkt_sent' >= pkt_sent
        /\ pkt_probe' \in Nat /\ pkt_sent' \in Nat
    BY LoopProgress
  <2>4. {pkt_probe, pkt_sent, probe, sent_old} \subseteq Nat
    BY DEF VarsOK
  <2> HIDE DEF IInv, TypeOK
  <2>5. Sampled
    BY DEF IInv
  <2>6. RateNeverWraps'
    BY <2>1, <2>2, <2>3, <2>4, <2>5 DEF Sampled, InScan, RateNeverWraps
  <2>7. AfterScan' \/ mpc' = "check" => probe' <= pkt_probe'
    BY <2>1, <2>2, <2>3, <2>4, <2>5 DEF Sampled, InScan, AfterScan
  <2> QED
    BY <2>2, <2>5, <2>6, <2>7 DEF Sampled, Startup
<1>5. Ending'
  BY LoopFrame, LoopStart DEF Ending, mainVars
<1>6. Undisturbed'
  BY LoopFrame DEF Undisturbed, AfterScan, mainVars, flagVars, envVars
<1> QED
  BY <1>1, <1>2, <1>3, <1>4, <1>5, <1>6, LoopProgress

(* A script sends: only the queue changes.                                 *)
LEMMA ScriptSendInv ==
  ASSUME IInv, NEW t \in Threads, ScriptSend(t)
  PROVE  IInv'
<1> USE DEF IInv, TypeOK, mainVars, flagVars, startVars, loopVars, envVars
<1>1. VarsOK'
  <2>1. queue' \in Seq(Packets) /\ result' \in Packets \cup {NULL}
    BY QueueType DEF ScriptSend
  <2>2. submitted' \subseteq Packets
    BY DEF ScriptSend, VarsOK
  <2> QED
    BY <2>1, <2>2 DEF ScriptSend, VarsOK
<1>2. FlagsOK'
  BY DEF ScriptSend, FlagsOK
<1>3. Handshake' /\ Progress' /\ Sampled'
  BY DEF ScriptSend, Handshake, Started, Startup, Progress, Pending, Completed, Sampled,
         AfterScan, InScan, RateNeverWraps
<1>4. Ending' /\ Undisturbed'
  BY DEF ScriptSend, Ending, Undisturbed, AfterScan
<1> QED
  BY <1>1, <1>2, <1>3, <1>4

(* Main: the threads' own variables change only in Create.                 *)
LEMMA MainFlags ==
  ASSUME FlagsOK, Main
  PROVE  FlagsOK'
BY DEF FlagsOK, flagVars, mainVars, Main, Create, CondWait, Wakeup, StatusEnter,
       SampleSent, SampleProbe, CheckStop, ResetStop, WaitSecond, SetDone, JoinRecv,
       JoinLoop, Close

LEMMA MainStartInv ==
  ASSUME IInv, ~Spurious, Create \/ CondWait \/ Wakeup
  PROVE  Handshake' /\ Progress' /\ Sampled' /\ Ending' /\ Undisturbed'
<1> USE ThreadFacts DEF IInv, TypeOK, mainVars, flagVars, startVars, loopVars, envVars
<1>1. CASE Create
  <2>1. /\ pc[starting] = "none" /\ pc'[starting] \in {"none", "load"}
        /\ \A u \in Threads : u # starting => pc'[u] = pc[u]
        /\ starting \in Threads
    <3>1. CASE Goto(starting, "load")
      BY <1>1, <3>1, GotoFacts DEF Create, Handshake, VarsOK, Labels
    <3>2. CASE UNCHANGED pc
      BY <1>1, <3>2 DEF Create, Handshake, VarsOK
    <3> QED
      BY <1>1, <3>1, <3>2 DEF Create
  <2>2. Handshake'
    BY <1>1, <2>1 DEF Create, Handshake, Started, Startup, VarsOK
  <2>3. Progress'
    BY <1>1, <2>1 DEF Create, Progress, Pending, Completed, VarsOK
  <2> QED
    BY <1>1, <2>2, <2>3 DEF Create, Sampled, Ending, Undisturbed, Startup, AfterScan,
                            InScan, RateNeverWraps
<1>2. CASE CondWait
  BY <1>2 DEF CondWait, Handshake, Started, Progress, Pending, Completed, Sampled,
              Ending, Undisturbed, Startup, AfterScan, InScan, RateNeverWraps, VarsOK
<1>3. CASE Wakeup
  <2>1. Handshake'
    BY <1>3 DEF Wakeup, Handshake, Started, Startup, VarsOK
  <2> QED
    BY <1>3, <2>1 DEF Wakeup, Progress, Pending, Completed, Sampled, Ending,
                      Undisturbed, Startup, AfterScan, InScan, RateNeverWraps, VarsOK
<1> QED
  BY <1>1, <1>2, <1>3

LEMMA MainStatusInv ==
  ASSUME IInv,
         \/ StatusEnter \/ SampleSent \/ SampleProbe
         \/ CheckStop \/ ResetStop \/ WaitSecond
  PROVE  Handshake' /\ Progress' /\ Sampled' /\ Ending' /\ Undisturbed'
<1> USE DEF mainVars, flagVars, startVars, loopVars, envVars
<1>1. UNCHANGED <<starting, startVars, pc, loopVars, netdev, exit, signals>>
      /\ ~Startup /\ ~Startup' /\ mpc # "close" /\ mpc' # "close"
      /\ mpc' \notin {"join_loop", "close"}
  BY DEF Startup, StatusEnter, SampleSent, SampleProbe, CheckStop, ResetStop, WaitSecond
<1>2. Handshake'
  BY <1>1 DEF IInv, Handshake, Started, Startup
<1>3. Progress'
  BY <1>1 DEF IInv, Progress, Pending, Completed
<1>4. Sampled'
  <2>1. Started("loop") /\ pkt_count = Total
    BY <1>1 DEF IInv, Handshake, Started, Progress
  <2>2. pkt_probe \in Nat /\ pkt_sent \in Nat /\ Sampled
    BY DEF IInv, TypeOK, VarsOK
  <2>3. tot' = Total
    BY <1>1, <2>1, <2>2 DEF Sampled, StatusEnter, SampleSent, SampleProbe, CheckStop,
                            ResetStop, WaitSecond
  <2>4. AfterScan' \/ mpc' = "check" => probe' <= pkt_probe'
    <3>1. CASE SampleProbe
      BY <1>1, <2>2, <3>1 DEF SampleProbe
    <3>2. CASE CheckStop \/ ResetStop \/ WaitSecond
      BY <1>1, <2>2, <3>2 DEF Sampled, AfterScan, CheckStop, ResetStop, WaitSecond
    <3> QED
      BY <3>1, <3>2 DEF AfterScan, StatusEnter, SampleSent
  <2>5. RateNeverWraps'
    <3>1. CASE StatusEnter \/ SampleSent
      BY <1>1, <2>2, <3>1 DEF RateNeverWraps, StatusEnter, SampleSent
    <3>2. CASE SampleProbe \/ CheckStop
      BY <1>1, <2>2, <3>2 DEF Sampled, RateNeverWraps, InScan, SampleProbe, CheckStop
    <3> QED
      BY <3>1, <3>2 DEF RateNeverWraps, InScan, ResetStop, WaitSecond
  <2> QED
    BY <1>1, <2>3, <2>4, <2>5 DEF Sampled
<1>5. Ending'
  BY <1>1 DEF IInv, Ending
<1>6. Undisturbed'
  <2>1. Undisturbed /\ wait \in Nat
    BY DEF IInv, TypeOK, VarsOK
  <2>2. CASE StatusEnter \/ SampleSent \/ SampleProbe
    BY <2>1, <2>2 DEF Undisturbed, AfterScan, StatusEnter, SampleSent, SampleProbe
  <2>3. CASE CheckStop \/ ResetStop
    BY <2>1, <2>3 DEF Undisturbed, AfterScan, CheckStop, ResetStop
  <2>4. CASE WaitSecond
    BY <2>1, <2>4 DEF Undisturbed, AfterScan, WaitSecond
  <2> QED
    BY <2>2, <2>3, <2>4
<1> QED
  BY <1>2, <1>3, <1>4, <1>5, <1>6

LEMMA MainEndInv ==
  ASSUME IInv, SetDone \/ JoinRecv \/ JoinLoop \/ Close
  PROVE  Handshake' /\ Progress' /\ Sampled' /\ Ending' /\ Undisturbed'
<1> USE DEF IInv, TypeOK, mainVars, flagVars, startVars, loopVars, envVars
<1> USE DEF SetDone, JoinRecv, JoinLoop, Close
<1>1. UNCHANGED <<starting, tot, probe, wait, startVars, pc, loopVars, signals, stop>>
      /\ ~Startup /\ ~Startup' /\ AfterScan /\ AfterScan' /\ mpc' # "enter"
  BY DEF Startup, AfterScan
<1>2. Handshake'
  BY <1>1 DEF Handshake, Started, Startup
<1>3. Progress'
  BY <1>1 DEF Progress, Pending, Completed
<1>4. Sampled'
  BY <1>1 DEF Sampled, AfterScan, InScan, RateNeverWraps
<1>5. Ending'
  BY DEF Ending
<1>6. Undisturbed'
  BY <1>1 DEF Undisturbed, AfterScan
<1> QED
  BY <1>2, <1>3, <1>4, <1>5, <1>6

LEMMA SignalInv ==
  ASSUME IInv, Signal
  PROVE  IInv'
<1> USE DEF IInv, TypeOK, mainVars, flagVars, startVars, loopVars, envVars, queueVars
<1>1. VarsOK'
  BY DEF Signal, VarsOK
<1>2. FlagsOK'
  BY DEF Signal, FlagsOK
<1>3. Handshake'
  BY DEF Signal, Handshake, Started, Startup
<1>4. Progress'
  BY DEF Signal, Progress, Pending, Completed
<1>5. Sampled'
  BY DEF Signal, Sampled, Startup, AfterScan, InScan, RateNeverWraps
<1>6. Ending' /\ Undisturbed'
  BY DEF Signal, Ending, Undisturbed, VarsOK, Startup, Running
<1> QED
  BY <1>1, <1>2, <1>3, <1>4, <1>5, <1>6

LEMMA NextInv ==
  ASSUME IInv, ~Spurious, [Next]_vars
  PROVE  IInv'
<1>1. CASE Main
  <2>1. VarsOK' /\ FlagsOK'
    BY <1>1, MainType, MainFlags DEF IInv, TypeOK
  <2>2. Handshake' /\ Progress' /\ Sampled' /\ Ending' /\ Undisturbed'
    BY <1>1, MainStartInv, MainStatusInv, MainEndInv DEF Main
  <2> QED
    BY <2>1, <2>2 DEF IInv, TypeOK
<1>2. CASE UNCHANGED vars
  <2> USE <1>2 DEF vars, mainVars, flagVars, startVars, loopVars, queueVars, envVars
  <2>1. TypeOK'
    BY DEF IInv, TypeOK, VarsOK, FlagsOK
  <2>2. Handshake' /\ Progress'
    BY DEF IInv, Handshake, Progress, Started, Startup, Pending, Completed
  <2>3. Sampled' /\ Ending' /\ Undisturbed'
    BY DEF IInv, Sampled, Ending, Undisturbed, Startup, AfterScan, InScan, RateNeverWraps
  <2> QED
    BY <2>1, <2>2, <2>3 DEF IInv
<1> QED
  BY <1>1, <1>2, RecvInv, LoopInv, ScriptSendInv, SignalInv DEF Next, Stopped

(* IInv holds in every reachable state.                                    *)
THEOREM Invariance == ASSUME ~Spurious PROVE Spec => []IInv
<1>1. IInv /\ [Next]_vars => IInv'
  BY NextInv
<1> QED
  BY <1>1, InitIInv, PTL DEF Spec

(* main enters status_line only when recv_cb and loop_cb have both passed  *)
(* their set-up, so it never reads an uninitialised counter.               *)
THEOREM StartOrder == ASSUME ~Spurious PROVE Spec => []StatusAfterStart
<1>1. IInv => StatusAfterStart
  <2> SUFFICES ASSUME IInv, ~Startup PROVE Started("recv") /\ Started("loop")
    BY ThreadFacts DEF StatusAfterStart, Started
  <2> QED
    BY ThreadFacts DEF IInv, TypeOK, VarsOK, Handshake
<1> QED
  BY <1>1, Invariance, PTL

(* "probe == tot" in status_line, tested on a sample that the transmit     *)
(* loop has since overtaken, means that every probe was given to pkt_send, *)
(* whichever probes the script skips and whatever else it sends.           *)
THEOREM Completeness == ASSUME ~Spurious PROVE Spec => []CompleteMeansAllSent
<1>1. IInv => CompleteMeansAllSent
  <2> SUFFICES ASSUME IInv, AfterScan, probe = tot PROVE handed = 0..(Total - 1)
    BY DEF CompleteMeansAllSent
  <2>1. tot = Total /\ Total <= pkt_probe
    BY DEF IInv, Sampled, AfterScan, Startup
  <2>2. pkt_probe <= Completed /\ (pkt_probe = Completed => 0..(Completed - 1) \subseteq handed)
    BY DEF IInv, Progress, Handshake, AfterScan, Startup, Started
  <2>3. Completed \in Int /\ Completed <= Total
    BY DEF IInv, TypeOK, VarsOK, Completed
  <2>4. Completed = Total /\ pkt_probe = Completed
    BY <2>1, <2>2, <2>3 DEF IInv, TypeOK, VarsOK
  <2> QED
    BY <2>2, <2>4 DEF IInv, TypeOK, VarsOK
<1> QED
  BY <1>1, Invariance, PTL

(* main closes the device after both threads have returned.                *)
THEOREM CloseOrder == ASSUME ~Spurious PROVE Spec => []ClosedAfterUse
<1>1. IInv => ClosedAfterUse
  BY ThreadFacts DEF IInv, Ending, ClosedAfterUse
<1> QED
  BY <1>1, Invariance, PTL

(* A run that no signal disturbs and that exits normally has sent every    *)
(* probe and waited to the end.                                            *)
THEOREM QuietExit == ASSUME ~Spurious PROVE Spec => []QuietExitComplete
<1>1. IInv /\ CompleteMeansAllSent => QuietExitComplete
  BY DEF IInv, Ending, Undisturbed, QuietExitComplete, CompleteMeansAllSent, AfterScan
<1> QED
  BY <1>1, Invariance, Completeness, PTL

(* sent - sent_old in status_line never wraps around: the counter is set   *)
(* up before main first samples it, and no step takes it back.             *)
THEOREM RateDefined == ASSUME ~Spurious PROVE Spec => []RateNeverWraps
<1>1. IInv => RateNeverWraps
  BY DEF IInv, Sampled
<1> QED
  BY <1>1, Invariance, PTL
=============================================================================
