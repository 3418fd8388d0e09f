------------------------------- MODULE Mailbox --------------------------------
(***************************************************************************)
(* The mailbox of SLAHalpc.cpp (377-503): a ring of nMax message slots, a  *)
(* semaphore counting free slots (hSemPut), one counting filled slots      *)
(* (hSemGet) and a critical section around the ring.  A call first takes a *)
(* permit from its semaphore, then claims and copies a slot inside the     *)
(* critical section, leaves it, and only then releases a permit to the     *)
(* other side.  Every one of these is a step here, so that the calls of    *)
(* several threads interleave as they do in the program.                   *)
(*                                                                         *)
(* The counters iNextPut and iNextGet are ints that are only incremented;  *)
(* the model gives them no width, because MaxPosts (a bound of the model)  *)
(* keeps them far below 2^31.                                              *)
(***************************************************************************)
EXTENDS Naturals, Sequences, FiniteSets

CONSTANTS
  Threads,    (* threads that post and pend                                *)
  nMax,       (* length of the ring                                        *)
  Classes,    (* the non-zero type classes a post may carry                *)
  MaxPosts    (* bound of the model: how many posts are begun              *)

ASSUME MailboxAssumption ==
  /\ IsFiniteSet(Threads)
  /\ nMax \in Nat \ {0}
  /\ MaxPosts \in Nat
  /\ Classes \subseteq Nat \ {0}

VARIABLES
  hSemPut, hSemGet,     (* permits in the two semaphores                   *)
  critSect,             (* the threads inside CritSect                     *)
  iNextPut, iNextGet,   (* the ring's counters                             *)
  QueueObjects,         (* the slots                                       *)
  TypeClasses,          (* the class of each slot, 0 once it was read      *)
  pc,                   (* where each thread is inside its call            *)
  iSlot,                (* the local iSlot of each call                    *)
  msg,                  (* the caller's message buffer                     *)
  nPosts                (* posts begun so far; also names the messages     *)

sems   == <<hSemPut, hSemGet>>
ring   == <<iNextPut, iNextGet, QueueObjects, TypeClasses>>
locals == <<iSlot, msg>>
vars   == <<sems, critSect, ring, pc, locals, nPosts>>

Slots    == 0 .. nMax - 1
NoMsg    == [id |-> 0, class |-> 0]
Messages == [id : 1 .. MaxPosts, class : Classes]

PostSteps == {"putWait", "putEnter", "putSlot", "putCopy", "putLeave", "putRelease"}
PendSteps == {"getWait", "getEnter", "getSlot", "getCopy", "getLeave", "getRelease"}

Goto(t, from, to) ==
  /\ pc[t] = from
  /\ pc' = [pc EXCEPT ![t] = to]

(* SLAMbxCreate: every permit on the put side, an empty ring. *)
Init ==
  /\ hSemPut = nMax
  /\ hSemGet = 0
  /\ critSect = {}
  /\ iNextPut = 0
  /\ iNextGet = 0
  /\ QueueObjects = [s \in Slots |-> NoMsg]
  /\ TypeClasses = [s \in Slots |-> 0]
  /\ pc = [t \in Threads |-> "idle"]
  /\ iSlot = [t \in Threads |-> 0]
  /\ msg = [t \in Threads |-> NoMsg]
  /\ nPosts = 0

-------------------------------------------------------------------------------
(* SLAMbxPost *)

BeginPost(t) ==
  /\ nPosts < MaxPosts
  /\ Goto(t, "idle", "putWait")
  /\ nPosts' = nPosts + 1
  /\ \E c \in Classes :
       msg' = [msg EXCEPT ![t] = [id |-> nPosts + 1, class |-> c]]
  /\ UNCHANGED <<sems, critSect, ring, iSlot>>

(* Mutant: the result of the wait is not looked at. *)
AcquirePutUnchecked(t) ==
  /\ Goto(t, "putWait", "putEnter")
  /\ hSemPut' = IF hSemPut > 0 THEN hSemPut - 1 ELSE 0
  /\ UNCHANGED <<hSemGet, critSect, ring, locals, nPosts>>

(* WaitForSingleObject(hSemPut, timeout) returns WAIT_OBJECT_0. *)
AcquirePut(t) ==
  /\ hSemPut > 0
  /\ Goto(t, "putWait", "putEnter")
  /\ hSemPut' = hSemPut - 1
  /\ UNCHANGED <<hSemGet, critSect, ring, locals, nPosts>>

(* The wait times out: the caller gets false and the ring is untouched. *)
PutTimeout(t) ==
  /\ hSemPut = 0
  /\ Goto(t, "putWait", "idle")
  /\ msg' = [msg EXCEPT ![t] = NoMsg]
  /\ UNCHANGED <<sems, critSect, ring, iSlot, nPosts>>

(* Mutant: nothing keeps a second thread out. *)
EnterUnlocked(t, from, to) ==
  /\ Goto(t, from, to)
  /\ critSect' = critSect \union {t}
  /\ UNCHANGED <<sems, ring, locals, nPosts>>

EnterCriticalSection(t, from, to) ==
  /\ critSect = {}
  /\ Goto(t, from, to)
  /\ critSect' = critSect \union {t}
  /\ UNCHANGED <<sems, ring, locals, nPosts>>

(* iSlot = obj->iNextPut++ % obj->nMax *)
ClaimPutSlot(t) ==
  /\ Goto(t, "putSlot", "putCopy")
  /\ iSlot' = [iSlot EXCEPT ![t] = iNextPut % nMax]
  /\ iNextPut' = iNextPut + 1
  /\ UNCHANGED <<sems, critSect, iNextGet, QueueObjects, TypeClasses, msg, nPosts>>

CopyIn(t) ==
  /\ Goto(t, "putCopy", "putLeave")
  /\ QueueObjects' = [QueueObjects EXCEPT ![iSlot[t]] = msg[t]]
  /\ TypeClasses' = [TypeClasses EXCEPT ![iSlot[t]] = msg[t].class]
  /\ UNCHANGED <<sems, critSect, iNextPut, iNextGet, locals, nPosts>>

LeaveCriticalSection(t, from, to) ==
  /\ Goto(t, from, to)
  /\ critSect' = critSect \ {t}
  /\ UNCHANGED <<sems, ring, locals, nPosts>>

(* ReleaseSemaphore(hSemGet): one more message can be popped; return true.  *)
(* The semaphore was created with maximum nMax: beyond it the call fails.   *)
ReleaseGet(t) ==
  /\ Goto(t, "putRelease", "idle")
  /\ hSemGet' = IF hSemGet < nMax THEN hSemGet + 1 ELSE hSemGet
  /\ msg' = [msg EXCEPT ![t] = NoMsg]
  /\ UNCHANGED <<hSemPut, critSect, ring, iSlot, nPosts>>

Post(t) ==
  \/ BeginPost(t)
  \/ AcquirePut(t)
  \/ PutTimeout(t)
  \/ EnterCriticalSection(t, "putEnter", "putSlot")
  \/ ClaimPutSlot(t)
  \/ CopyIn(t)
  \/ LeaveCriticalSection(t, "putLeave", "putRelease")
  \/ ReleaseGet(t)

-------------------------------------------------------------------------------
(* SLAMbxPend *)

BeginPend(t) ==
  /\ Goto(t, "idle", "getWait")
  /\ UNCHANGED <<sems, critSect, ring, locals, nPosts>>

AcquireGet(t) ==
  /\ hSemGet > 0
  /\ Goto(t, "getWait", "getEnter")
  /\ hSemGet' = hSemGet - 1
  /\ UNCHANGED <<hSemPut, critSect, ring, locals, nPosts>>

(* Mutant: a slot is released although nothing was popped. *)
GetTimeoutReleases(t) ==
  /\ hSemGet = 0
  /\ Goto(t, "getWait", "idle")
  /\ hSemPut' = IF hSemPut < nMax THEN hSemPut + 1 ELSE hSemPut
  /\ UNCHANGED <<hSemGet, critSect, ring, locals, nPosts>>

GetTimeout(t) ==
  /\ hSemGet = 0
  /\ Goto(t, "getWait", "idle")
  /\ UNCHANGED <<sems, critSect, ring, locals, nPosts>>

(* iSlot = obj->iNextGet++ % obj->nMax *)
ClaimGetSlot(t) ==
  /\ Goto(t, "getSlot", "getCopy")
  /\ iSlot' = [iSlot EXCEPT ![t] = iNextGet % nMax]
  /\ iNextGet' = iNextGet + 1
  /\ UNCHANGED <<sems, critSect, iNextPut, QueueObjects, TypeClasses, msg, nPosts>>

(* Mutant: the slot keeps its class. *)
CopyOutKeepsClass(t) ==
  /\ Goto(t, "getCopy", "getLeave")
  /\ msg' = [msg EXCEPT ![t] = QueueObjects[iSlot[t]]]
  /\ UNCHANGED <<sems, critSect, ring, iSlot, nPosts>>

CopyOut(t) ==
  /\ Goto(t, "getCopy", "getLeave")
  /\ msg' = [msg EXCEPT ![t] = QueueObjects[iSlot[t]]]
  /\ TypeClasses' = [TypeClasses EXCEPT ![iSlot[t]] = 0]
  /\ UNCHANGED <<sems, critSect, iNextPut, iNextGet, QueueObjects, iSlot, nPosts>>

(* ReleaseSemaphore(hSemPut): one more slot is free; return true. *)
ReleasePut(t) ==
  /\ Goto(t, "getRelease", "idle")
  /\ hSemPut' = IF hSemPut < nMax THEN hSemPut + 1 ELSE hSemPut
  /\ msg' = [msg EXCEPT ![t] = NoMsg]
  /\ UNCHANGED <<hSemGet, critSect, ring, iSlot, nPosts>>

Pend(t) ==
  \/ BeginPend(t)
  \/ AcquireGet(t)
  \/ GetTimeout(t)
  \/ EnterCriticalSection(t, "getEnter", "getSlot")
  \/ ClaimGetSlot(t)
  \/ CopyOut(t)
  \/ LeaveCriticalSection(t, "getLeave", "getRelease")
  \/ ReleasePut(t)

Next == \E t \in Threads : Post(t) \/ Pend(t)

Spec == Init /\ [][Next]_vars

-------------------------------------------------------------------------------
(* SLAMbxCount(mbx, typeClass) *)
SLAMbxCount(typeClass) == Cardinality({s \in Slots : TypeClasses[s] = typeClass})

(* The ring's counters as they stand once the claims whose copy is still to *)
(* come are left out: the messages in the mailbox are those in between.     *)
PutDone == IF \E t \in Threads : pc[t] = "putCopy" THEN iNextPut - 1 ELSE iNextPut
GetDone == IF \E t \in Threads : pc[t] = "getCopy" THEN iNextGet - 1 ELSE iNextGet

Queued == [k \in 1 .. PutDone - GetDone |-> QueueObjects[(GetDone + k - 1) % nMax]]

At(steps) == {t \in Threads : pc[t] \in steps}

Holders == At((PostSteps \union PendSteps) \ {"putWait", "getWait"})

-------------------------------------------------------------------------------
TypeOK ==
  /\ hSemPut \in 0 .. nMax
  /\ hSemGet \in 0 .. nMax
  /\ critSect \subseteq Threads
  /\ iNextPut \in Nat
  /\ iNextGet \in Nat
  /\ QueueObjects \in [Slots -> Messages \union {NoMsg}]
  /\ TypeClasses \in [Slots -> Classes \union {0}]
  /\ pc \in [Threads -> {"idle"} \union PostSteps \union PendSteps]
  /\ iSlot \in [Threads -> Slots]
  /\ msg \in [Threads -> Messages \union {NoMsg}]
  /\ nPosts \in 0 .. MaxPosts

(* No permit is ever lost or invented: those in the two semaphores and     *)
(* those the calls in progress hold always add up to the ring's length.    *)
PermitsConserved == hSemPut + hSemGet + Cardinality(Holders) = nMax

(* The ring and its two semaphores stay sound: a slot index stays inside    *)
(* the ring, although the counters only grow, and the permits add up.       *)
MailboxOK == TypeOK /\ PermitsConserved

(* A thread about to claim a slot finds one: a post never claims a slot     *)
(* whose message was not popped, a pend never one that was not filled.      *)
ClaimsAreSound ==
  /\ At({"putSlot"}) # {} => iNextPut < iNextGet + nMax
  /\ At({"getSlot"}) # {} => iNextGet < iNextPut

(* SLAMbxCount returns the number of messages of a class in the mailbox     *)
(* (SLAHal.h 196-202) whenever a caller can hold the critical section.      *)
CountIsExact ==
  critSect = {} => \A c \in Classes :
    SLAMbxCount(c) = Cardinality({k \in DOMAIN Queued : Queued[k].class = c})

(* SLAMbxPost and SLAMbxPend implement a bounded FIFO channel: each call    *)
(* takes effect at one instant, in order, and times out only when the other *)
(* calls leave it nothing.                                                  *)
Stage(t) ==
  CASE pc[t] \in {"putWait", "putEnter", "putSlot", "putCopy"} -> "posting"
    [] pc[t] \in {"putLeave", "putRelease"}                    -> "posted"
    [] pc[t] \in {"getWait", "getEnter", "getSlot", "getCopy"} -> "pending"
    [] pc[t] \in {"getLeave", "getRelease"}                    -> "popped"
    [] OTHER                                                   -> "idle"

Channel == INSTANCE BoundedChannel WITH
  Capacity <- nMax,
  chan     <- Queued,
  call     <- [t \in Threads |-> [at |-> Stage(t), msg |-> msg[t]]]

ImplementsChannel == Channel!CSpec

===============================================================================
