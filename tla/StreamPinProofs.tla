---------------------------- MODULE StreamPinProofs ----------------------------
(***************************************************************************)
(* Proofs about the streams of the source filter, for any number of pins,  *)
(* any samples, any number of calls and of failures.                       *)
(***************************************************************************)
EXTENDS StreamPin, TLAPS

(* A call in progress is one of the three.                                 *)
CallGoesOn == control # "idle" => call \in States

(* The worker has a sample from GetBuffer until it has released it.         *)
Holding == {"fillBuffer", "deliver", "release", "requeue"}
SampleHeld == \A p \in Pins : worker[p] \in Holding <=> sample[p] # Nobody

TypeInv == TypeOK /\ CallGoesOn /\ NoLostWakeup /\ SampleHeld

-------------------------------------------------------------------------------
(* Types, and what they rest on: the wait for a buffer.                     *)
LEMMA WorkerTypes ==
  ASSUME TypeInv, NEW p \in Pins, Worker(p) \/ Deliver(p)
  PROVE  TypeInv'
<1> USE DEF TypeInv, TypeOK, CallGoesOn, NoLostWakeup, SampleHeld, Holding, Steps,
            States, Commands, WorkerGoto, filter, manager, requests
<1>1. CASE AwaitInit(p)
  BY <1>1 DEF AwaitInit, Replies, RestOfWorker, permits, commits, samples
<1>2. CASE AwaitCommand(p)
  BY <1>2 DEF AwaitCommand, Replies, RestOfWorker, permits, commits, samples
<1>3. CASE CheckRequest(p)
  BY <1>3 DEF CheckRequest, Replies, RestOfWorker, permits, commits, samples
<1>4. CASE ResetSend(p)
  BY <1>4 DEF ResetSend, ReplyPart, permits, commits, samples
<1>5. CASE SetComplete(p)
  BY <1>5 DEF SetComplete, ReplyPart, permits, commits, samples
<1>6. CASE GetBuffer(p)
  <2>1. UNCHANGED <<filter, manager, requests, next, commits, kept, returning>>
    BY <1>6 DEF GetBuffer
  <2>2. CASE WorkerGoto(p, "getBuffer", "checkRequest") /\ UNCHANGED <<sample, permits, m_lFree>>
    BY <2>1, <2>2 DEF permits, commits
  <2>3. CASE /\ WorkerGoto(p, "getBuffer", "fillBuffer") /\ UNCHANGED permits
             /\ \E b \in m_lFree[p] : /\ m_lFree' = [m_lFree EXCEPT ![p] = @ \ {b}]
                                      /\ sample' = [sample EXCEPT ![p] = b]
    BY <2>1, <2>3, PinAssumption DEF permits, commits, PinAssumption
  <2>4. CASE /\ WorkerGoto(p, "getBuffer", "waitBuffer")
             /\ m_bCommitted[p] /\ m_lFree[p] = {}
             /\ m_lWaiting' = [m_lWaiting EXCEPT ![p] = @ + 1]
             /\ UNCHANGED <<sample, m_hSem, m_lFree>>
    BY <2>1, <2>4 DEF commits
  <2>5. QED
    BY <1>6, <2>2, <2>3, <2>4 DEF GetBuffer
<1>7. CASE WaitBuffer(p)
  BY <1>7 DEF WaitBuffer, commits, samples
<1>8. CASE FillBuffer(p)
  BY <1>8 DEF FillBuffer, RestOfWorker, permits, commits, samples
<1>9. CASE Release(p)
  BY <1>9 DEF Release, permits, commits, samples
<1>10. CASE WorkerRequeues(p)
  BY <1>10 DEF WorkerRequeues, Requeue, NotifySample
<1>11. CASE Deliver(p)
  BY <1>11 DEF Deliver, permits, commits
<1>12. QED
  BY <1>1, <1>2, <1>3, <1>4, <1>5, <1>6, <1>7, <1>8, <1>9, <1>10, <1>11 DEF Worker

LEMMA NextPinExists ==
  ASSUME TypeInv, NEW from, NEW first, NextPin(from, first)
  PROVE  /\ pin' \in Pins /\ control' \in {first, "changed"}
         /\ call' = call /\ cmd' = cmd
BY PinAssumption DEF TypeInv, TypeOK, NextPin, Pins, PinAssumption

LEMMA ManagerTypes ==
  ASSUME TypeInv, Control \/ DecoderReturns \/ \E state \in States : Call(state)
  PROVE  TypeInv'
<1> USE DEF TypeInv, TypeOK, DecoderCalls, CallGoesOn, NoLostWakeup, SampleHeld, Holding,
            Steps, States, Commands, Goto, WorkerGoto
<1>1. CASE \E state \in States : Call(state)
  <2>1. 1 \in Pins /\ MaxCalls \in Nat
    BY PinAssumption DEF Pins, PinAssumption
  <2>2. PICK state \in States : Call(state)
    BY <1>1
  <2>3. calls' \in 0 .. MaxCalls /\ call' \in States
    BY <2>1, <2>2 DEF Call
  <2>4. QED
    BY <2>1, <2>2, <2>3 DEF Call, requests, workers, permits, commits, samples
<1>2. CASE Changed
  BY <1>2 DEF Changed, requests, workers, permits, commits, samples
<1>3. CASE Commit
  <2>1. CASE CommitAllocator(pin)
    BY <1>3, <2>1 DEF Commit, CommitAllocator, Fails, requests, workers, permits, samples
  <2>2. CASE UNCHANGED commits
    BY <1>3, <2>2 DEF Commit, Fails, requests, workers, permits, commits, samples
  <2>3. QED
    BY <1>3, <2>1, <2>2 DEF Commit
<1>4. CASE Create
  BY <1>4 DEF Create, Fails, requests, permits, commits, samples
<1>5. CASE Send
  BY <1>5 DEF Send, filter, workers, permits, commits, samples
<1>6. CASE AwaitComplete
  <2>1. /\ control' \in {"send", "close", "commit", "changed"} /\ call' = call
        /\ pin' \in Pins /\ cmd' \in Commands /\ call \in States
    BY <1>6, NextPinExists DEF AwaitComplete, NextPin
  <2>2. /\ m_EventComplete' \in [Pins -> BOOLEAN]
        /\ RestOfControl
    BY <1>6 DEF AwaitComplete
  <2>3. QED
    BY <2>1, <2>2 DEF RestOfControl, filter, workers, permits, commits, samples
<1>7. CASE Decommit
  <2>1. /\ control' \in {"send", "decommit", "changed"} /\ call' = call
        /\ pin' \in Pins /\ cmd' \in Commands /\ call \in States
    BY <1>7, NextPinExists DEF Decommit, StopWorker, NextPin
  <2>2. CASE m_bCommitted[pin] \/ m_bDecommitInProgress[pin]
    <3>1. /\ m_bCommitted' = [m_bCommitted EXCEPT ![pin] = FALSE]
          /\ m_bDecommitInProgress' \in [Pins -> BOOLEAN]
          /\ NotifySample(pin)
          /\ UNCHANGED <<filter, requests, workers, allocated, samples>>
      <4>1. /\ DecommitAllocator(pin)
            /\ UNCHANGED <<filter, requests, workers, allocated, samples>>
        BY ONLY <1>7 DEF Decommit
      <4>2. /\ m_bCommitted' = [m_bCommitted EXCEPT ![pin] = FALSE]
            /\ m_bDecommitInProgress' = [m_bDecommitInProgress EXCEPT ![pin] =
                                           m_lFree[pin] # Buffers]
            /\ NotifySample(pin)
        BY ONLY <2>2, <4>1 DEF DecommitAllocator
      <4>3. m_bDecommitInProgress \in [Pins -> BOOLEAN] /\ pin \in Pins
        OBVIOUS
      <4>4. m_bDecommitInProgress' \in [Pins -> BOOLEAN]
        BY ONLY <4>2, <4>3
      <4>5. QED
        BY ONLY <4>1, <4>2, <4>4
    <3>2. QED
      BY <2>1, <3>1 DEF NotifySample, filter, requests, workers, samples
  <2>3. CASE ~(m_bCommitted[pin] \/ m_bDecommitInProgress[pin])
    <3>1. UNCHANGED <<filter, requests, workers, permits, commits, samples>>
      BY <1>7, <2>3 DEF Decommit, DecommitAllocator, commits
    <3>2. QED
      BY <2>1, <3>1 DEF filter, requests, workers, permits, commits, samples
  <2>4. QED
    BY <2>2, <2>3
<1>8. CASE Close
  BY <1>8, NextPinExists DEF Close, NextPin, filter, requests, permits, commits, samples
<1>9. CASE Base \/ DecoderReturns
  BY <1>9 DEF Base, DecoderReturns, filter, requests, workers, permits, commits, samples
<1>10. QED
  BY <1>1, <1>2, <1>3, <1>4, <1>5, <1>6, <1>7, <1>8, <1>9 DEF Control

LEMMA RendererTypes ==
  ASSUME TypeInv, NEW p \in Pins, NEW b \in Buffers,
         RendererReleases(p, b) \/ ReleaseBuffer(p, b)
  PROVE  TypeInv'
<1> USE DEF TypeInv, TypeOK, CallGoesOn, NoLostWakeup, SampleHeld, filter, manager,
            requests, workers
<1>1. CASE RendererReleases(p, b)
  BY <1>1 DEF RendererReleases, permits, commits
<1>2. CASE ReleaseBuffer(p, b)
  BY <1>2 DEF ReleaseBuffer, Requeue, NotifySample
<1>3. QED
  BY <1>1, <1>2

LEMMA TypeStep ==
  ASSUME TypeInv, [Next]_vars
  PROVE  TypeInv'
<1>1. CASE UNCHANGED vars
  BY <1>1 DEF vars, filter, manager, requests, workers, permits, commits, samples,
              TypeInv, TypeOK, CallGoesOn, NoLostWakeup, SampleHeld
<1>2. CASE Next
  BY <1>2, WorkerTypes, ManagerTypes, RendererTypes DEF Next
<1>3. QED
  BY <1>1, <1>2

LEMMA TypeInit ==
  ASSUME Init
  PROVE  TypeInv
BY PinAssumption DEF Init, TypeInv, TypeOK, CallGoesOn, NoLostWakeup, SampleHeld, Holding,
                     DecoderCalls, Steps, States, Commands, Pins, PinAssumption

LEMMA TypeInvariant == Spec => []TypeInv
BY TypeInit, TypeStep, PTL DEF Spec

(* Every variable has its type, whatever the numbers of pins, samples,      *)
(* calls and failures.                                                      *)
THEOREM TypeCorrect == Spec => []TypeOK
BY TypeInvariant, PTL DEF TypeInv

(* No worker waits for a buffer that is there, or for an allocator that     *)
(* was decommitted: the test and the wait of GetBuffer are two steps, with  *)
(* releases, commits and decommits between them.                            *)
THEOREM WakeupsArrive == Spec => []NoLostWakeup
BY TypeInvariant, PTL DEF TypeInv

-------------------------------------------------------------------------------
(* The samples: the worker queues a sample only after the renderer has let  *)
(* it go.                                                                   *)
QueuedIsOurs == \A p \in Pins : worker[p] = "requeue" => sample[p] \notin kept[p]

SampleInv == SamplesOK /\ QueuedIsOurs

LEMMA WorkerSamples ==
  ASSUME TypeInv, SampleInv, NEW p \in Pins, Worker(p) \/ Deliver(p)
  PROVE  SampleInv'
<1> USE DEF TypeInv, TypeOK, SampleHeld, Holding, Steps, SampleInv, SamplesOK,
            BuffersAreOwned, AllocFindsAllFree, Allocates, QueuedIsOurs, WorkerGoto
<1>1. CASE AwaitInit(p) \/ AwaitCommand(p) \/ CheckRequest(p)
  BY <1>1 DEF AwaitInit, AwaitCommand, CheckRequest, Replies, RestOfWorker, commits, samples
<1>2. CASE ResetSend(p) \/ SetComplete(p)
  BY <1>2 DEF ResetSend, SetComplete, commits, samples
<1>3. CASE GetBuffer(p)
  BY <1>3, PinAssumption DEF GetBuffer, commits, PinAssumption
<1>4. CASE WaitBuffer(p) \/ FillBuffer(p)
  BY <1>4 DEF WaitBuffer, FillBuffer, RestOfWorker, commits, samples
<1>5. CASE Release(p)
  BY <1>5, PinAssumption DEF PinAssumption, Release, commits, samples
<1>6. CASE WorkerRequeues(p)
  BY <1>6, PinAssumption DEF PinAssumption, WorkerRequeues, Requeue
<1>7. CASE Deliver(p)
  BY <1>7, PinAssumption DEF Deliver, commits, PinAssumption
<1>8. QED
  BY <1>1, <1>2, <1>3, <1>4, <1>5, <1>6, <1>7 DEF Worker

LEMMA ManagerSamples ==
  ASSUME TypeInv, SampleInv, Control \/ DecoderReturns \/ \E state \in States : Call(state)
  PROVE  SampleInv'
<1> USE DEF TypeInv, TypeOK, SampleInv, SamplesOK, BuffersAreOwned, AllocFindsAllFree,
            Allocates, QueuedIsOurs, Steps
<1>1. CASE Changed \/ Send \/ AwaitComplete \/ \E state \in States : Call(state)
  BY <1>1 DEF Changed, Send, AwaitComplete, RestOfControl, Call, workers, commits, samples
<1>2. CASE Commit
  BY <1>2 DEF Commit, CommitAllocator, workers, commits, samples
<1>3. CASE Create \/ Close
  BY <1>3 DEF Create, Close, WorkerGoto, commits, samples
<1>4. CASE Decommit
  <2>1. CASE m_bCommitted[pin] \/ m_bDecommitInProgress[pin]
    <3>1. /\ m_bDecommitInProgress' = [m_bDecommitInProgress EXCEPT ![pin] =
                                         m_lFree[pin] # Buffers]
          /\ m_bCommitted' = [m_bCommitted EXCEPT ![pin] = FALSE]
          /\ UNCHANGED <<workers, samples>>
      BY <1>4, <2>1 DEF Decommit, DecommitAllocator
    <3>2. QED
      BY <3>1 DEF workers, samples
  <2>2. CASE ~(m_bCommitted[pin] \/ m_bDecommitInProgress[pin])
    BY <1>4, <2>2 DEF Decommit, DecommitAllocator, workers, samples
  <2>3. QED
    BY <2>1, <2>2
<1>5. CASE Base \/ DecoderReturns
  BY <1>5 DEF Base, DecoderReturns, workers, commits, samples
<1>6. QED
  BY <1>1, <1>2, <1>3, <1>4, <1>5 DEF Control

LEMMA RendererSamples ==
  ASSUME TypeInv, SampleInv, NEW p \in Pins, NEW b \in Buffers,
         RendererReleases(p, b) \/ ReleaseBuffer(p, b)
  PROVE  SampleInv'
<1> USE DEF TypeInv, TypeOK, SampleInv, SamplesOK, BuffersAreOwned, AllocFindsAllFree,
            Allocates, QueuedIsOurs, workers
<1>1. CASE RendererReleases(p, b)
  BY <1>1 DEF RendererReleases, commits
<1>2. CASE ReleaseBuffer(p, b)
  BY <1>2 DEF ReleaseBuffer, Requeue
<1>3. QED
  BY <1>1, <1>2

LEMMA SampleStep ==
  ASSUME TypeInv, SampleInv, [Next]_vars
  PROVE  SampleInv'
<1>1. CASE UNCHANGED vars
  BY <1>1 DEF vars, workers, commits, samples, SampleInv, SamplesOK, BuffersAreOwned,
              AllocFindsAllFree, Allocates, QueuedIsOurs
<1>2. CASE Next
  BY <1>2, WorkerSamples, ManagerSamples, RendererSamples DEF Next
<1>3. QED
  BY <1>1, <1>2

(* Every sample is free, referenced or on its way, the worker fills none    *)
(* that the renderer still shows, and Alloc finds all of them free, however *)
(* decommits, commits and late releases follow each other.                  *)
THEOREM SamplesSafe == Spec => []SamplesOK
<1>1. Init => SampleInv
  BY PinAssumption DEF Init, SampleInv, SamplesOK, BuffersAreOwned, AllocFindsAllFree,
                       QueuedIsOurs, PinAssumption
<1>2. TypeInv /\ SampleInv /\ [Next]_vars => SampleInv'
  BY SampleStep
<1>3. SampleInv => SamplesOK
  BY DEF SampleInv
<1>4. QED
  BY <1>1, <1>2, <1>3, TypeInvariant, PTL DEF Spec

-------------------------------------------------------------------------------
(* The requests: one at a time is on its way, for the pin and with the      *)
(* command CallWorker waits for.                                            *)
OnItsWay(p) ==
  m_EventSend[p] \/ m_EventComplete[p] \/ worker[p] \in {"resetSend", "setComplete"}

RequestInv ==
  \A p \in Pins :
    /\ OnItsWay(p) => control = "complete" /\ pin = p
    /\ m_EventSend[p] => /\ ~m_EventComplete[p] /\ worker[p] # "setComplete"
                         /\ m_dwParam[p] = cmd
    /\ worker[p] = "resetSend" => m_EventSend[p]
    /\ worker[p] = "setComplete" => ~m_EventComplete[p] /\ served[p] = cmd
    /\ m_EventComplete[p] => served[p] = cmd

LEMMA WorkerRequests ==
  ASSUME TypeInv, RequestInv, NEW p \in Pins, Worker(p) \/ Deliver(p)
  PROVE  RequestInv'
<1> USE DEF TypeInv, TypeOK, RequestInv, OnItsWay, WorkerGoto, manager
<1>1. CASE AwaitInit(p) \/ AwaitCommand(p) \/ CheckRequest(p)
  BY <1>1 DEF AwaitInit, AwaitCommand, CheckRequest, Replies, RestOfWorker, requests
<1>2. CASE ResetSend(p)
  BY <1>2 DEF ResetSend, ReplyPart
<1>3. CASE SetComplete(p)
  BY <1>3 DEF SetComplete, ReplyPart
<1>4. CASE GetBuffer(p) \/ WaitBuffer(p) \/ FillBuffer(p) \/ Deliver(p)
  BY <1>4 DEF GetBuffer, WaitBuffer, FillBuffer, Deliver, RestOfWorker, requests
<1>5. CASE Release(p) \/ WorkerRequeues(p)
  BY <1>5 DEF Release, WorkerRequeues, requests
<1>6. QED
  BY <1>1, <1>2, <1>3, <1>4, <1>5 DEF Worker

LEMMA ManagerRequests ==
  ASSUME TypeInv, RequestInv, Control \/ DecoderReturns \/ \E state \in States : Call(state)
  PROVE  RequestInv'
<1> USE DEF TypeInv, TypeOK, RequestInv, OnItsWay, Goto
<1>1. CASE Changed \/ Commit \/ \E state \in States : Call(state)
  BY <1>1 DEF Changed, Commit, Fails, Call, requests, workers
<1>2. CASE Create
  BY <1>2 DEF Create, Fails, WorkerGoto, requests
<1>3. CASE Send
  BY <1>3 DEF Send, workers
<1>4. CASE AwaitComplete
  BY <1>4 DEF AwaitComplete, NextPin, RestOfControl, workers
<1>5. CASE Decommit
  BY <1>5 DEF Decommit, StopWorker, NextPin, requests, workers
<1>6. CASE Close
  BY <1>6 DEF Close, NextPin, WorkerGoto, requests
<1>7. CASE Base \/ DecoderReturns
  BY <1>7 DEF Base, DecoderReturns, requests, workers, DecoderCalls
<1>8. QED
  BY <1>1, <1>2, <1>3, <1>4, <1>5, <1>6, <1>7 DEF Control

LEMMA RequestStep ==
  ASSUME TypeInv, RequestInv, [Next]_vars
  PROVE  RequestInv'
<1>1. CASE UNCHANGED vars
  BY <1>1 DEF vars, manager, requests, workers, RequestInv, OnItsWay
<1>2. ASSUME NEW p \in Pins, NEW b \in Buffers, RendererReleases(p, b) \/ ReleaseBuffer(p, b)
      PROVE  RequestInv'
  BY <1>2 DEF RendererReleases, ReleaseBuffer, manager, requests, workers, RequestInv, OnItsWay
<1>3. CASE Next
  BY <1>2, <1>3, WorkerRequests, ManagerRequests DEF Next
<1>4. QED
  BY <1>1, <1>3

(* CallWorker never takes the reply to another request for its own.         *)
THEOREM RepliesAreOwn == Spec => []RepliesMatch
<1>1. Init => RequestInv
  BY DEF Init, RequestInv, OnItsWay
<1>2. TypeInv /\ RequestInv /\ [Next]_vars => RequestInv'
  BY RequestStep
<1>3. TypeInv /\ RequestInv => RepliesMatch
  BY DEF TypeInv, TypeOK, RequestInv, RepliesMatch
<1>4. QED
  BY <1>1, <1>2, <1>3, TypeInvariant, PTL DEF Spec

-------------------------------------------------------------------------------
(* Stop: the pins before the one it is at are quiet already, and the one it *)
(* is at is decommitted when its worker is spoken to.                       *)
Entering == control \in DecoderCalls \cup {"base"}

Order ==
  /\ Entering => pin = 1
  /\ control \in {"commit", "create"} => call # "Stopped"
  /\ control \in {"decommit", "close"} => call = "Stopped"
  /\ control \in {"send", "complete"} => (call = "Stopped" <=> cmd \in {"STOP", "EXIT"})

Stopping == call = "Stopped" /\ control \in {"decommit", "send", "complete", "close"}

Rests == \/ (control = "idle" \/ Entering) /\ m_State = "Stopped"
         \/ control = "changed" /\ call = "Stopped"

QuietInv ==
  /\ Order
  /\ Stopping /\ control # "decommit" => ~m_bCommitted[pin]
  /\ failures = 0 => /\ Stopping => \A p \in Pins : p < pin => Quiet(p)
                     /\ Rests => \A p \in Pins : Quiet(p)

LEMMA WorkerQuiet ==
  ASSUME TypeInv, QuietInv, NEW p \in Pins, Worker(p) \/ Deliver(p)
  PROVE  QuietInv'
<1>1. /\ worker[p] # "none" /\ UNCHANGED <<filter, manager, m_bCommitted>>
      /\ worker' = [worker EXCEPT ![p] = worker'[p]]
  <2> USE DEF TypeInv, TypeOK, WorkerGoto
  <2>1. CASE AwaitInit(p) \/ AwaitCommand(p) \/ CheckRequest(p)
    BY <2>1 DEF AwaitInit, AwaitCommand, CheckRequest, Replies, RestOfWorker, commits
  <2>2. CASE ResetSend(p) \/ SetComplete(p) \/ Release(p)
    BY <2>2 DEF ResetSend, SetComplete, Release, commits
  <2>3. CASE GetBuffer(p) \/ WaitBuffer(p) \/ FillBuffer(p) \/ Deliver(p)
    BY <2>3 DEF GetBuffer, WaitBuffer, FillBuffer, Deliver, RestOfWorker, commits
  <2>4. CASE WorkerRequeues(p)
    BY <2>4 DEF WorkerRequeues, Requeue
  <2>5. QED
    BY <2>1, <2>2, <2>3, <2>4 DEF Worker
<1>2. QED
  BY <1>1 DEF TypeInv, TypeOK, QuietInv, Order, Entering, DecoderCalls, Stopping, Rests,
              Quiet, filter, manager

(* The pins before the next one are those before this one and this one.     *)
LEMMA PassOn ==
  ASSUME TypeInv, NEW from, NEW first, NextPin(from, first), NEW p \in Pins
  PROVE  /\ control' = first /\ p < pin' => p < pin \/ p = pin
         /\ p < pin \/ p = pin \/ control' = first
         /\ control' \in {first, "changed"}
BY PinAssumption DEF TypeInv, TypeOK, NextPin, Pins, PinAssumption

LEMMA ManagerQuiet ==
  ASSUME TypeInv, QuietInv, Control \/ DecoderReturns \/ \E state \in States : Call(state)
  PROVE  QuietInv'
<1> USE DEF TypeInv, TypeOK, CallGoesOn, QuietInv, Order, Entering, DecoderCalls,
            Stopping, Rests, Quiet, Goto
<1>1. CASE \E state \in States : Call(state)
  BY <1>1 DEF Call, States, Pins, workers, commits
<1>2. CASE Changed
  BY <1>2 DEF Changed, workers, commits
<1>3. CASE Commit \/ Create
  BY <1>3 DEF Commit, Create, Fails
<1>4. CASE Send
  BY <1>4 DEF Send, filter, workers, commits
<1>5. CASE AwaitComplete
  BY <1>5 DEF AwaitComplete, NextPin, RestOfControl, filter, workers, commits
<1>6. CASE Decommit
  <2>1. /\ ~m_bCommitted'[pin] /\ UNCHANGED <<filter, worker>>
        /\ \A p \in Pins : p # pin => m_bCommitted'[p] = m_bCommitted[p]
    BY <1>6 DEF Decommit, DecommitAllocator, workers
  <2>2. CASE worker[pin] # "none" /\ Goto("decommit", "send", "STOP")
    BY <2>1, <2>2 DEF filter
  <2>3. CASE worker[pin] = "none" /\ NextPin("decommit", "decommit")
    BY <2>1, <2>3, PassOn DEF NextPin, filter
  <2>4. StopWorker
    BY ONLY <1>6 DEF Decommit
  <2>5. QED
    BY ONLY <2>2, <2>3, <2>4 DEF StopWorker
<1>7. CASE Close
  <2>1. /\ NextPin("close", "decommit") /\ worker'[pin] = "none" /\ ~m_bCommitted[pin]
        /\ \A p \in Pins : p # pin => worker'[p] = worker[p]
        /\ UNCHANGED <<filter, m_bCommitted>>
    BY <1>7 DEF Close, NextPin, WorkerGoto, commits
  <2>2. Order' /\ (Stopping /\ control # "decommit" => ~m_bCommitted[pin])'
    BY <2>1 DEF NextPin, filter
  <2>3. failures = 0 => \A p \in Pins : p < pin \/ p = pin => Quiet(p)'
    BY <2>1 DEF NextPin
  <2>4. ASSUME failures' = 0
        PROVE  /\ Stopping' => \A p \in Pins : p < pin' => Quiet(p)'
               /\ Rests' => \A p \in Pins : Quiet(p)'
    BY <2>1, <2>3, <2>4, PassOn DEF filter
  <2>5. QED
    BY ONLY <2>2, <2>4 DEF QuietInv
<1>8. CASE DecoderReturns
  BY <1>8 DEF DecoderReturns, filter, workers, commits
<1>9. CASE Base
  BY <1>9 DEF Base, Pins, filter, workers, commits
<1>10. QED
  BY <1>1, <1>2, <1>3, <1>4, <1>5, <1>6, <1>7, <1>8, <1>9 DEF Control

LEMMA QuietStep ==
  ASSUME TypeInv, QuietInv, [Next]_vars
  PROVE  QuietInv'
<1> USE DEF filter, manager, workers, commits, QuietInv, Order, Entering, DecoderCalls,
            Stopping, Rests, Quiet
<1>1. CASE UNCHANGED vars
  BY <1>1 DEF vars
<1>2. ASSUME NEW p \in Pins, NEW b \in Buffers, RendererReleases(p, b) \/ ReleaseBuffer(p, b)
      PROVE  QuietInv'
  BY <1>2 DEF RendererReleases, ReleaseBuffer, Requeue
<1>3. CASE Next
  BY <1>2, <1>3, WorkerQuiet, ManagerQuiet DEF Next
<1>4. QED
  BY <1>1, <1>3

(* When Stop has returned no worker is left and no allocator is committed,  *)
(* for any number of pins, if no activation failed before.                  *)
THEOREM StopIsQuiet == Spec => []StoppedMeansQuiet
<1>1. Init => QuietInv
  BY DEF Init, QuietInv, Order, Entering, DecoderCalls, Stopping, Rests, Quiet
<1>2. TypeInv /\ QuietInv /\ [Next]_vars => QuietInv'
  BY QuietStep
<1>3. QuietInv => StoppedMeansQuiet
  BY DEF QuietInv, Rests, StoppedMeansQuiet
<1>4. QED
  BY <1>1, <1>2, <1>3, TypeInvariant, PTL DEF Spec

===============================================================================
