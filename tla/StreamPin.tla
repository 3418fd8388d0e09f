------------------------------- MODULE StreamPin ------------------------------
(***************************************************************************)
(* The DirectShow source filter CSLA3000Source and its streams: the state  *)
(* changes of the filter (FSLA-3000.cpp 213-234, amfilter.cpp 512-648),    *)
(* the worker thread of each stream (source.cpp 286-530), the requests     *)
(* between them (wxutil.cpp 113-220) and the allocator of a stream's       *)
(* samples (amfilter.cpp 4731-4990).                                       *)
(*                                                                         *)
(* control is the thread of the graph manager.  Run and Stop call the      *)
(* decoder first, which may wait for its task without limit (DecodeTask)   *)
(* and for the saving semaphore (UdpReceiver); then the base class takes   *)
(* the filter's lock for the rest of the call.  No worker takes that lock. *)
(* The filters downstream are external: a renderer may keep a sample, and  *)
(* does not return from Receive while it is paused.  The graph manager     *)
(* changes the state of the renderer before that of the source.            *)
(*                                                                         *)
(* A section under the allocator's lock is one action.                     *)
(***************************************************************************)
EXTENDS Integers, FiniteSets

CONSTANTS
  NPins,      (* connected pins, each with its worker                       *)
  Buffers,    (* the samples of an allocator (DecideBufferSize asks for 1)  *)
  Nobody,     (* no sample                                                  *)
  MaxCalls,   (* bound of the model: state changes asked for                *)
  MaxFailures (* bound of the model: allocations and threads that fail      *)

ASSUME PinAssumption ==
  /\ NPins \in Nat \ {0}
  /\ IsFiniteSet(Buffers) /\ Buffers # {} /\ Nobody \notin Buffers
  /\ MaxCalls \in Nat /\ MaxFailures \in Nat

Pins == 1 .. NPins

VARIABLES
  m_State,       (* of the filter                                           *)
  renderer,      (* the state of the filters downstream                     *)
  control, call, pin, cmd,
                 (* where the graph manager's call is, what it asks for,    *)
                 (* its pin, and the command for the pin's worker           *)
  calls,         (* the calls made                                          *)
  failures,      (* allocations and threads that failed                     *)
  m_dwParam, m_EventSend, m_EventComplete,
                 (* CAMThread: the request to each worker                   *)
  served,        (* the request a worker replied to last                    *)
  worker, next, sample,
                 (* where a worker is, where it goes on after a call, and   *)
                 (* the sample it holds                                     *)
  m_bCommitted, m_bDecommitInProgress, m_lWaiting, m_hSem,
                 (* the allocator of each pin, and                          *)
  allocated,     (* whether its memory is there (~m_bChanged)               *)
  m_lFree,       (* its free list                                           *)
  kept,          (* samples the renderer holds a reference to               *)
  returning      (* samples without references on their way to the list     *)

filter    == <<m_State, renderer, calls, failures>>
manager   == <<control, call, pin, cmd>>
requests  == <<m_dwParam, m_EventSend, m_EventComplete, served>>
workers   == <<worker, next, sample>>
permits   == <<m_lWaiting, m_hSem>>
commits   == <<m_bCommitted, m_bDecommitInProgress, allocated>>
samples   == <<m_lFree, kept, returning>>

vars == <<filter, manager, requests, workers, permits, commits, samples>>

States   == {"Stopped", "Paused", "Running"}
Commands == {"INIT", "PAUSE", "STOP", "EXIT"}

Init ==
  /\ m_State = "Stopped" /\ renderer = "Stopped"
  /\ control = "idle" /\ call = "none" /\ pin = 1 /\ cmd = "INIT"
  /\ calls = 0 /\ failures = 0
  /\ m_dwParam = [p \in Pins |-> "INIT"] /\ served = [p \in Pins |-> "INIT"]
  /\ m_EventSend = [p \in Pins |-> FALSE] /\ m_EventComplete = [p \in Pins |-> FALSE]
  /\ worker = [p \in Pins |-> "none"] /\ next = [p \in Pins |-> "none"]
  /\ sample = [p \in Pins |-> Nobody]
  /\ m_bCommitted = [p \in Pins |-> FALSE] /\ allocated = [p \in Pins |-> FALSE]
  /\ m_bDecommitInProgress = [p \in Pins |-> FALSE]
  /\ m_lWaiting = [p \in Pins |-> 0] /\ m_hSem = [p \in Pins |-> 0]
  /\ m_lFree = [p \in Pins |-> Buffers]
  /\ kept = [p \in Pins |-> {}] /\ returning = [p \in Pins |-> {}]

WorkerGoto(p, from, to) ==
  worker[p] = from /\ worker' = [worker EXCEPT ![p] = to]

------------------------------------------------------------------------------
(* The allocator.                                                           *)

(* NotifySample                                                             *)
(* Mutant: m_lWaiting is not reset.                                         *)
NotifySampleAgain(p) ==
  /\ m_hSem' = [m_hSem EXCEPT ![p] = @ + m_lWaiting[p]]
  /\ UNCHANGED m_lWaiting

NotifySample(p) ==
  /\ m_hSem' = [m_hSem EXCEPT ![p] = @ + m_lWaiting[p]]
  /\ m_lWaiting' = [m_lWaiting EXCEPT ![p] = 0]

(* Decommit: completed by the last buffer if some are out.                  *)
(* Mutant: the buffers that are out are forgotten.                          *)
DecommitAtOnce(p) ==
  /\ m_bCommitted' = [m_bCommitted EXCEPT ![p] = FALSE]
  /\ m_bDecommitInProgress' = [m_bDecommitInProgress EXCEPT ![p] = FALSE]
  /\ NotifySample(p)

(* Mutant: the worker that waits for a buffer is not told.                  *)
DecommitQuietly(p) ==
  /\ m_bCommitted' = [m_bCommitted EXCEPT ![p] = FALSE]
  /\ m_bDecommitInProgress' = [m_bDecommitInProgress EXCEPT ![p] =
                                 (m_bCommitted[p] \/ @) /\ m_lFree[p] # Buffers]
  /\ UNCHANGED permits

DecommitAllocator(p) ==
  IF m_bCommitted[p] \/ m_bDecommitInProgress[p]
    THEN /\ m_bCommitted' = [m_bCommitted EXCEPT ![p] = FALSE]
         /\ m_bDecommitInProgress' = [m_bDecommitInProgress EXCEPT ![p] =
                                        m_lFree[p] # Buffers]
         /\ NotifySample(p)
  ELSE UNCHANGED <<m_bCommitted, m_bDecommitInProgress, permits>>

(* A commit cancels a decommit that waits for the last buffer; otherwise it *)
(* allocates, which ASSERTs that all buffers are free.  The memory is kept  *)
(* from then on; before the first time no buffer exists, and m_lFree stands *)
(* for all of them.                                                         *)
CommitAllocator(p) ==
  /\ m_bCommitted' = [m_bCommitted EXCEPT ![p] = TRUE]
  /\ m_bDecommitInProgress' = [m_bDecommitInProgress EXCEPT ![p] = FALSE]
  /\ allocated' = [allocated EXCEPT ![p] = TRUE]

Allocates(p) == ~m_bCommitted[p] /\ ~m_bDecommitInProgress[p]

(* GetBuffer: an error, a free buffer, or the wait for a buffer.            *)
GetBuffer(p) ==
  /\ \/ /\ ~m_bCommitted[p]
        /\ WorkerGoto(p, "getBuffer", "checkRequest")
        /\ UNCHANGED <<sample, permits, m_lFree>>
     \/ /\ m_bCommitted[p]
        /\ WorkerGoto(p, "getBuffer", "fillBuffer")
        /\ \E b \in m_lFree[p] :
             /\ m_lFree' = [m_lFree EXCEPT ![p] = @ \ {b}]
             /\ sample' = [sample EXCEPT ![p] = b]
        /\ UNCHANGED permits
     \/ /\ m_bCommitted[p] /\ m_lFree[p] = {}
        /\ WorkerGoto(p, "getBuffer", "waitBuffer")
        /\ m_lWaiting' = [m_lWaiting EXCEPT ![p] = @ + 1]
        /\ UNCHANGED <<sample, m_hSem, m_lFree>>
  /\ UNCHANGED <<filter, manager, requests, next, commits, kept, returning>>

WaitBuffer(p) ==
  /\ WorkerGoto(p, "waitBuffer", "getBuffer")
  /\ m_hSem[p] > 0 /\ m_hSem' = [m_hSem EXCEPT ![p] = @ - 1]
  /\ UNCHANGED <<filter, manager, requests, next, sample, m_lWaiting, commits, samples>>

(* ReleaseBuffer: tells whoever waits; the last buffer completes a decommit. *)
Requeue(p, b) ==
  /\ m_lFree' = [m_lFree EXCEPT ![p] = @ \cup {b}]
  /\ m_bDecommitInProgress' = [m_bDecommitInProgress EXCEPT ![p] =
                                 @ /\ m_lFree'[p] # Buffers]
  /\ NotifySample(p)
  /\ UNCHANGED <<m_bCommitted, allocated>>

ReleaseBuffer(p, b) ==
  /\ b \in returning[p]
  /\ returning' = [returning EXCEPT ![p] = @ \ {b}]
  /\ Requeue(p, b)
  /\ UNCHANGED <<filter, manager, requests, workers, kept>>

(* CMediaSample::Release by the renderer: the last reference returns it.    *)
RendererReleases(p, b) ==
  /\ b \in kept[p]
  /\ kept' = [kept EXCEPT ![p] = @ \ {b}]
  /\ returning' = IF sample[p] = b THEN returning
                  ELSE [returning EXCEPT ![p] = @ \cup {b}]
  /\ UNCHANGED <<filter, manager, requests, workers, permits, commits, m_lFree>>

------------------------------------------------------------------------------
(* The worker, ThreadProc and DoBufferProcessingLoop.                       *)

(* Reply(0) comes next, and then the worker goes on at step.                *)
Replies(p, from, step) ==
  WorkerGoto(p, from, "resetSend") /\ next' = [next EXCEPT ![p] = step]

RestOfWorker == UNCHANGED <<filter, manager, requests, sample, permits, commits, samples>>

(* GetRequest before CMD_INIT; OnThreadCreate cannot fail here.             *)
AwaitInit(p) ==
  /\ m_EventSend[p]
  /\ Replies(p, "awaitInit", IF m_dwParam[p] = "INIT" THEN "awaitCommand" ELSE "awaitInit")
  /\ RestOfWorker

(* GetRequest in the main loop.                                             *)
AwaitCommand(p) ==
  /\ m_EventSend[p]
  /\ Replies(p, "awaitCommand", CASE m_dwParam[p] = "PAUSE" -> "checkRequest"
                                  [] m_dwParam[p] = "EXIT"  -> "exited"
                                  [] OTHER                  -> "awaitCommand")
  /\ RestOfWorker

(* CheckRequest between two samples.  CMD_STOP is not replied to here but   *)
(* by the main loop, which finds it still set.                              *)
CheckRequest(p) ==
  /\ \/ /\ ~m_EventSend[p]
        /\ WorkerGoto(p, "checkRequest", "getBuffer")
        /\ UNCHANGED next
     \/ /\ m_EventSend[p] /\ m_dwParam[p] = "STOP"
        /\ WorkerGoto(p, "checkRequest", "awaitCommand")
        /\ UNCHANGED next
     \/ /\ m_EventSend[p] /\ m_dwParam[p] # "STOP"
        /\ Replies(p, "checkRequest", "checkRequest")
  /\ RestOfWorker

(* Reply: m_EventSend is reset before m_EventComplete is set.               *)
(* Mutant: after.                                                           *)
ReplyPartSwapped(p, part) ==
  /\ m_EventSend' = IF part = 2 THEN [m_EventSend EXCEPT ![p] = FALSE] ELSE m_EventSend
  /\ m_EventComplete' = IF part = 1 THEN [m_EventComplete EXCEPT ![p] = TRUE]
                        ELSE m_EventComplete

ReplyPart(p, part) ==
  /\ m_EventSend' = IF part = 1 THEN [m_EventSend EXCEPT ![p] = FALSE] ELSE m_EventSend
  /\ m_EventComplete' = IF part = 2 THEN [m_EventComplete EXCEPT ![p] = TRUE]
                        ELSE m_EventComplete

ResetSend(p) ==
  /\ WorkerGoto(p, "resetSend", "setComplete")
  /\ ReplyPart(p, 1)
  /\ served' = [served EXCEPT ![p] = m_dwParam[p]]
  /\ UNCHANGED <<filter, manager, m_dwParam, next, sample, permits, commits, samples>>

SetComplete(p) ==
  /\ WorkerGoto(p, "setComplete", next[p])
  /\ ReplyPart(p, 2)
  /\ UNCHANGED <<filter, manager, m_dwParam, served, next, sample, permits, commits, samples>>

(* FillBuffer, under the stream's own lock; it does not fail.               *)
FillBuffer(p) ==
  /\ WorkerGoto(p, "fillBuffer", "deliver")
  /\ UNCHANGED next /\ RestOfWorker

(* Deliver: the renderer takes the sample, keeping a reference or not, or   *)
(* reports an error, upon which the worker waits for a command.             *)
Deliver(p) ==
  /\ WorkerGoto(p, "deliver", "release")
  /\ \/ /\ renderer # "Stopped"
        /\ \/ kept' = [kept EXCEPT ![p] = @ \cup {sample[p]}]
           \/ UNCHANGED kept
        /\ next' = [next EXCEPT ![p] = "checkRequest"]
     \/ /\ next' = [next EXCEPT ![p] = "awaitCommand"]
        /\ UNCHANGED kept
  /\ UNCHANGED <<filter, manager, requests, sample, permits, commits, m_lFree, returning>>

(* CMediaSample::Release by the worker, and ReleaseBuffer if it was last.   *)
Release(p) ==
  /\ \/ /\ sample[p] \in kept[p]
        /\ WorkerGoto(p, "release", next[p])
        /\ sample' = [sample EXCEPT ![p] = Nobody]
     \/ /\ sample[p] \notin kept[p]
        /\ WorkerGoto(p, "release", "requeue")
        /\ UNCHANGED sample
  /\ UNCHANGED <<filter, manager, requests, next, permits, commits, samples>>

WorkerRequeues(p) ==
  /\ WorkerGoto(p, "requeue", next[p])
  /\ sample' = [sample EXCEPT ![p] = Nobody]
  /\ Requeue(p, sample[p])
  /\ UNCHANGED <<filter, manager, requests, next, kept, returning>>

Worker(p) ==
  \/ AwaitInit(p) \/ AwaitCommand(p) \/ CheckRequest(p) \/ ResetSend(p) \/ SetComplete(p)
  \/ GetBuffer(p) \/ WaitBuffer(p) \/ FillBuffer(p) \/ Release(p) \/ WorkerRequeues(p)

------------------------------------------------------------------------------
(* The graph manager's calls.                                               *)
Goto(from, to, command) ==
  control = from /\ control' = to /\ cmd' = command /\ UNCHANGED <<call, pin>>

(* Active or Inactive of the next pin; or the state is changed.             *)
NextPin(from, first) ==
  /\ control = from
  /\ IF pin < NPins THEN control' = first /\ pin' = pin + 1
     ELSE control' = "changed" /\ pin' = pin
  /\ UNCHANGED <<call, cmd>>

(* The state of the renderer is changed first.  CSLA3000Source::Run calls   *)
(* StartSaving and SetAddress of the decoder, Stop calls StopSaving, and    *)
(* Pause nothing.                                                           *)
Call(state) ==
  /\ control = "idle" /\ calls < MaxCalls /\ calls' = calls + 1
  /\ renderer' = state /\ call' = state /\ pin' = 1
  /\ control' = CASE state = "Running" -> "startSaving"
                  [] state = "Stopped" -> "stopSaving"
                  [] OTHER             -> "base"
  /\ UNCHANGED <<m_State, failures, cmd, requests, workers, permits, commits, samples>>

(* The decoder's call returns, if it does.                                  *)
DecoderReturns ==
  /\ \/ Goto("startSaving", "setAddress", cmd)
     \/ Goto("setAddress", "base", cmd)
     \/ Goto("stopSaving", "base", cmd)
  /\ UNCHANGED <<filter, requests, workers, permits, commits, samples>>

(* CBaseFilter::Stop, Pause and Run: with a change between stopped and not  *)
(* stopped the pins are told.                                               *)
Base ==
  /\ Goto("base", IF (call = "Stopped") = (m_State = "Stopped") THEN "changed"
                  ELSE IF call = "Stopped" THEN "decommit" ELSE "commit", cmd)
  /\ UNCHANGED <<filter, requests, workers, permits, commits, samples>>

(* The end of CBaseFilter::Stop, Pause and Run.                             *)
Changed ==
  /\ Goto("changed", "idle", cmd)
  /\ m_State' = call
  /\ UNCHANGED <<renderer, calls, failures, requests, workers, permits, commits, samples>>

(* Active fails: Pause returns, and the state of the filter stays.          *)
Fails(from) == Goto(from, "idle", cmd) /\ failures' = failures + 1

(* CBaseOutputPin::Active                                                   *)
Commit ==
  /\ \/ /\ Goto("commit", "create", cmd)
        /\ CommitAllocator(pin)
        /\ UNCHANGED failures
     \/ /\ Allocates(pin) /\ ~allocated[pin] /\ failures < MaxFailures
        /\ Fails("commit")
        /\ UNCHANGED commits
  /\ UNCHANGED <<m_State, renderer, calls, requests, workers, permits, samples>>

(* CAMThread::Create, which fails when the thread exists.                   *)
Create ==
  /\ \/ /\ Goto("create", "send", "INIT")
        /\ WorkerGoto(pin, "none", "awaitInit")
        /\ UNCHANGED failures
     \/ /\ worker[pin] # "none" \/ failures < MaxFailures
        /\ Fails("create")
        /\ UNCHANGED worker
  /\ UNCHANGED <<m_State, renderer, calls, requests, next, sample, permits, commits, samples>>

RestOfControl ==
  UNCHANGED <<filter, m_dwParam, m_EventSend, served, workers, permits, commits, samples>>

(* CallWorker: the parameter is set, and m_EventSend.                       *)
Send ==
  /\ Goto("send", "complete", cmd)
  /\ m_dwParam' = [m_dwParam EXCEPT ![pin] = cmd]
  /\ m_EventSend' = [m_EventSend EXCEPT ![pin] = TRUE]
  /\ UNCHANGED <<filter, m_EventComplete, served, workers, permits, commits, samples>>

(* CallWorker waits for m_EventComplete, which resets itself.               *)
AwaitComplete ==
  /\ m_EventComplete[pin]
  /\ m_EventComplete' = [m_EventComplete EXCEPT ![pin] = FALSE]
  /\ \/ cmd = "INIT"  /\ Goto("complete", "send", "PAUSE")
     \/ cmd = "PAUSE" /\ NextPin("complete", "commit")
     \/ cmd = "STOP"  /\ Goto("complete", "send", "EXIT")
     \/ cmd = "EXIT"  /\ Goto("complete", "close", "EXIT")
  /\ RestOfControl

(* CBaseOutputPin::Inactive comes before the requests, because the worker   *)
(* may wait for the allocator.                                              *)
StopWorker ==
  \/ worker[pin] # "none" /\ Goto("decommit", "send", "STOP")
  \/ worker[pin] = "none" /\ NextPin("decommit", "decommit")

(* Mutant: it comes after them, or never.                                   *)
DecommitLater ==
  StopWorker /\ UNCHANGED <<filter, requests, workers, permits, commits, samples>>

Decommit ==
  /\ StopWorker
  /\ DecommitAllocator(pin)
  /\ UNCHANGED <<filter, requests, workers, allocated, samples>>

(* Close waits for the thread.                                              *)
(* Mutant: it does not.                                                     *)
CloseAtOnce ==
  /\ NextPin("close", "decommit")
  /\ UNCHANGED <<filter, requests, workers, permits, commits, samples>>

Close ==
  /\ NextPin("close", "decommit")
  /\ WorkerGoto(pin, "exited", "none")
  /\ UNCHANGED <<filter, requests, next, sample, permits, commits, samples>>

Control == Base \/ Changed \/ Commit \/ Create \/ Send \/ AwaitComplete \/ Decommit \/ Close

Next ==
  \/ \E state \in States : Call(state)
  \/ DecoderReturns
  \/ Control
  \/ \E p \in Pins :
       \/ Worker(p) \/ Deliver(p)
       \/ \E b \in Buffers : RendererReleases(p, b) \/ ReleaseBuffer(p, b)

(* The threads run, and so does the renderer unless it is paused.  It need  *)
(* not give up the samples it keeps, nor need the decoder return.           *)
Fairness ==
  /\ WF_vars(Control)
  /\ \A p \in Pins : WF_vars(Worker(p)) /\ WF_vars(renderer # "Paused" /\ Deliver(p))

Spec == Init /\ [][Next]_vars

FairSpec == Spec /\ Fairness

------------------------------------------------------------------------------
Steps == {"none", "awaitInit", "awaitCommand", "checkRequest", "resetSend", "setComplete",
          "getBuffer", "waitBuffer", "fillBuffer", "deliver", "release", "requeue", "exited"}

DecoderCalls == {"startSaving", "setAddress", "stopSaving"}

TypeOK ==
  /\ m_State \in States /\ renderer \in States
  /\ control \in {"idle", "base", "changed", "commit", "create", "send", "complete",
                  "decommit", "close"} \cup DecoderCalls
  /\ call \in States \cup {"none"} /\ pin \in Pins /\ cmd \in Commands
  /\ calls \in 0 .. MaxCalls /\ failures \in Nat
  /\ m_dwParam \in [Pins -> Commands] /\ served \in [Pins -> Commands]
  /\ m_EventSend \in [Pins -> BOOLEAN] /\ m_EventComplete \in [Pins -> BOOLEAN]
  /\ worker \in [Pins -> Steps]
  /\ next \in [Pins -> {"none", "awaitInit", "awaitCommand", "checkRequest", "exited"}]
  /\ sample \in [Pins -> Buffers \cup {Nobody}]
  /\ m_bCommitted \in [Pins -> BOOLEAN] /\ m_bDecommitInProgress \in [Pins -> BOOLEAN]
  /\ m_lWaiting \in [Pins -> 0 .. 1] /\ m_hSem \in [Pins -> 0 .. 1]
  /\ allocated \in [Pins -> BOOLEAN]
  /\ m_lFree \in [Pins -> SUBSET Buffers]
  /\ kept \in [Pins -> SUBSET Buffers] /\ returning \in [Pins -> SUBSET Buffers]

(* A worker that waits for a buffer is in m_lWaiting or has been given a    *)
(* permit, and it is only left waiting while there is nothing for it: no    *)
(* buffer is free and the allocator is committed.  (GetBuffer tests and     *)
(* waits in two steps.)                                                     *)
NoLostWakeup ==
  \A p \in Pins :
    IF worker[p] = "waitBuffer"
      THEN /\ m_lWaiting[p] + m_hSem[p] = 1
           /\ m_hSem[p] = 0 => m_bCommitted[p] /\ m_lFree[p] = {}
    ELSE m_lWaiting[p] = 0 /\ m_hSem[p] = 0

(* A sample is free, or somebody has a reference, or it is on its way; the  *)
(* worker fills only a sample that nobody else still shows.                 *)
BuffersAreOwned ==
  \A p \in Pins :
    /\ m_lFree[p] \cap (kept[p] \cup returning[p] \cup {sample[p]}) = {}
    /\ kept[p] \cap returning[p] = {}
    /\ sample[p] \notin returning[p]
    /\ Buffers \subseteq m_lFree[p] \cup kept[p] \cup returning[p] \cup {sample[p]}
    /\ worker[p] = "fillBuffer" => sample[p] \notin kept[p]

(* Alloc finds all buffers free (the ASSERT of amfilter.cpp 4981): a        *)
(* decommit is complete only when the last one has come back.               *)
AllocFindsAllFree == \A p \in Pins : Allocates(p) => m_lFree[p] = Buffers

(* The samples of a stream.                                                 *)
SamplesOK == BuffersAreOwned /\ AllocFindsAllFree

(* CallWorker returns when its own request has been served, never upon the  *)
(* reply to an earlier one (the comment in CAMThread::Reply).               *)
RepliesMatch ==
  control = "complete" /\ m_EventComplete[pin] => served[pin] = cmd /\ ~m_EventSend[pin]

(* When Stop has returned the workers are gone and the allocators are       *)
(* decommitted, unless an activation failed half way.                       *)
Quiet(p) == worker[p] = "none" /\ ~m_bCommitted[p]

StoppedMeansQuiet ==
  control = "idle" /\ m_State = "Stopped" /\ failures = 0 => \A p \in Pins : Quiet(p)

(* As long as the decoder's own calls return, which it does not promise     *)
(* (MCDecodeTask_stuck), a state change does, although the worker may be    *)
(* waiting for a buffer that the renderer keeps, or be in the renderer.     *)
(* Pausing a running filter included.                                       *)
DecoderAnswers == []<>(control \notin DecoderCalls)

CallsReturn == DecoderAnswers => (control # "idle" ~> control = "idle")

==============================================================================
