---------------------------- MODULE BoundedChannel ----------------------------
(***************************************************************************)
(* What SLAMbxPost and SLAMbxPend promise to their callers (SLAHal.h       *)
(* 176-194): a bounded first-in first-out channel.  Every call is an       *)
(* interval: it begins, takes effect at one instant between its beginning  *)
(* and its return, or times out.  A call may time out only while the       *)
(* channel, together with what the other calls in progress have claimed of *)
(* it, leaves it nothing: full for a post, empty for a pend.               *)
(***************************************************************************)
EXTENDS Naturals, Sequences, FiniteSets

CONSTANTS
  Threads,   (* the threads that call the mailbox                          *)
  Capacity,  (* the number of messages it holds                            *)
  Messages,  (* what can be posted                                         *)
  NoMsg      (* what a call that carries no message carries                *)

VARIABLES
  chan,      (* the messages posted and not yet popped, oldest first       *)
  call       (* call[t]: how far the call of thread t has come             *)

cvars == <<chan, call>>

Idle == [at |-> "idle", msg |-> NoMsg]

(* Is a thread other than t inside a call? *)
Others(t) == {u \in Threads \ {t} : call[u] # Idle}

CInit ==
  /\ chan = << >>
  /\ call = [t \in Threads |-> Idle]

BeginPost(t, m) ==
  /\ call[t] = Idle
  /\ call' = [call EXCEPT ![t] = [at |-> "posting", msg |-> m]]
  /\ UNCHANGED chan

Put(t) ==
  /\ call[t].at = "posting"
  /\ Len(chan) < Capacity
  /\ chan' = Append(chan, call[t].msg)
  /\ call' = [call EXCEPT ![t].at = "posted"]

BeginPend(t) ==
  /\ call[t] = Idle
  /\ call' = [call EXCEPT ![t].at = "pending"]
  /\ UNCHANGED chan

Take(t) ==
  /\ call[t].at = "pending"
  /\ chan # << >>
  /\ call' = [call EXCEPT ![t] = [at |-> "popped", msg |-> Head(chan)]]
  /\ chan' = Tail(chan)

Return(t) ==
  /\ call[t].at \in {"posted", "popped"}
  /\ call' = [call EXCEPT ![t] = Idle]
  /\ UNCHANGED chan

PostTimesOut(t) ==
  /\ call[t].at = "posting"
  /\ Capacity <= Len(chan) + Cardinality(Others(t))
  /\ call' = [call EXCEPT ![t] = Idle]
  /\ UNCHANGED chan

PendTimesOut(t) ==
  /\ call[t].at = "pending"
  /\ Len(chan) <= Cardinality(Others(t))
  /\ call' = [call EXCEPT ![t] = Idle]
  /\ UNCHANGED chan

CNext == \E t \in Threads :
  \/ \E m \in Messages : BeginPost(t, m)
  \/ Put(t)
  \/ BeginPend(t)
  \/ Take(t)
  \/ Return(t)
  \/ PostTimesOut(t)
  \/ PendTimesOut(t)

CSpec == CInit /\ [][CNext]_cvars

===============================================================================
