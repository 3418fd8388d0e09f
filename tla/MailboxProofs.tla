---------------------------- MODULE MailboxProofs -----------------------------
(***************************************************************************)
(* Proofs about the mailbox of SLAHalpc.cpp, for any number of threads,    *)
(* any ring length and any number of posts: its permits are conserved, it  *)
(* implements a bounded channel, and SLAMbxCount counts the messages the   *)
(* channel holds.                                                          *)
(***************************************************************************)
EXTENDS Mailbox, Integers, FiniteSetTheorems, SequenceTheorems, TLAPS

(***************************************************************************)
(* 1. The counters and the permits                                         *)
(***************************************************************************)

HolderSteps == (PostSteps \union PendSteps) \ {"putWait", "getWait"}
FilledSteps == {"putCopy", "putLeave", "putRelease"}
ClaimSteps  == {"getEnter", "getSlot"}

(* The distance of the counters is what the get side can still hand out:    *)
(* its permits, the permits taken but not yet turned into a claim, and the  *)
(* slots claimed by a post whose permit is still to be released.            *)
WindowCounted ==
  iNextPut = iNextGet + hSemGet
                      + Cardinality(At(FilledSteps)) + Cardinality(At(ClaimSteps))

IInv == TypeOK /\ PermitsConserved /\ WindowCounted

(* What one step of one thread does to the number of threads in a set of steps. *)
Change(S, from, to) ==
  IF to \in S /\ from \notin S THEN 1 ELSE IF to \notin S /\ from \in S THEN -1 ELSE 0

-------------------------------------------------------------------------------
(* The number of threads at given steps is a natural number. *)
LEMMA AtFinite ==
  ASSUME NEW CONSTANT S
  PROVE  IsFiniteSet(At(S)) /\ Cardinality(At(S)) \in Nat
BY MailboxAssumption, FS_Subset, FS_CardinalityType DEF At, MailboxAssumption

(* A thread that moves from one step to another changes that number by at most one. *)
LEMMA AtMove ==
  ASSUME TypeOK, NEW t \in Threads, NEW from, NEW to, Goto(t, from, to),
         NEW CONSTANT S
  PROVE  Cardinality(At(S))' = Cardinality(At(S)) + Change(S, from, to)
<1>1. IsFiniteSet(At(S)) /\ Cardinality(At(S)) \in Nat
  BY AtFinite
<1>2. pc[t] = from /\ pc'[t] = to /\ \A u \in Threads \ {t} : pc'[u] = pc[u]
  BY DEF Goto, TypeOK
<1>3. CASE to \in S
  <2>1. At(S)' = At(S) \union {t}
    BY <1>2, <1>3 DEF At
  <2>2. t \in At(S) <=> from \in S
    BY <1>2 DEF At
  <2>3. QED
    BY <1>1, <1>3, <2>1, <2>2, FS_AddElement DEF Change
<1>4. CASE to \notin S
  <2>1. At(S)' = At(S) \ {t}
    BY <1>2, <1>4 DEF At
  <2>2. t \in At(S) <=> from \in S
    BY <1>2 DEF At
  <2>3. Cardinality(At(S)') = IF t \in At(S) THEN Cardinality(At(S)) - 1
                                             ELSE Cardinality(At(S))
    BY <1>1, <2>1, FS_RemoveElement
  <2>4. QED
    BY <1>1, <1>4, <2>2, <2>3 DEF Change
<1>5. QED
  BY <1>3, <1>4

(* A thread at one of the given steps is counted. *)
LEMMA AtLeastOne ==
  ASSUME NEW CONSTANT S, NEW t \in Threads, pc[t] \in S
  PROVE  Cardinality(At(S)) >= 1
<1>1. t \in At(S)
  BY DEF At
<1>2. IsFiniteSet(At(S)) /\ Cardinality(At(S)) \in Nat
  BY AtFinite
<1>3. Cardinality(At(S)) # 0
  BY <1>1, <1>2, FS_EmptySet
<1>4. QED
  BY <1>2, <1>3

-------------------------------------------------------------------------------
(* The state after SLAMbxCreate satisfies the invariant. *)
LEMMA InitIInv == Init => IInv
<1> SUFFICES ASSUME Init PROVE IInv
  OBVIOUS
<1>1. TypeOK
  BY MailboxAssumption
  DEF Init, TypeOK, MailboxAssumption, Slots, NoMsg, PostSteps, PendSteps
<1>2. At(HolderSteps) = {} /\ At(FilledSteps) = {} /\ At(ClaimSteps) = {}
  BY DEF Init, At, HolderSteps, FilledSteps, ClaimSteps, PostSteps, PendSteps
<1>3. Holders = At(HolderSteps)
  BY DEF Holders, HolderSteps
<1>4. QED
  BY <1>1, <1>2, <1>3, FS_EmptySet, MailboxAssumption
  DEF Init, IInv, PermitsConserved, WindowCounted, MailboxAssumption

(* Every step keeps the variables in their types. *)
LEMMA NextTypeOK ==
  ASSUME TypeOK, NEW t \in Threads, Post(t) \/ Pend(t)
  PROVE  TypeOK'
<1> USE MailboxAssumption DEF MailboxAssumption, TypeOK, Goto, sems, ring, locals
<1>1. CASE BeginPost(t)
  <2>1. PICK c \in Classes :
          msg' = [msg EXCEPT ![t] = [id |-> nPosts + 1, class |-> c]]
    BY <1>1 DEF BeginPost
  <2>2. nPosts' \in 0 .. MaxPosts /\ nPosts + 1 \in 1 .. MaxPosts
    BY <1>1 DEF BeginPost
  <2>3. [id |-> nPosts + 1, class |-> c] \in Messages
    BY <2>2 DEF Messages
  <2>4. QED
    BY <1>1, <2>1, <2>2, <2>3 DEF BeginPost, PostSteps
<1>2. CASE AcquirePut(t)
  BY <1>2 DEF AcquirePut, PostSteps
<1>3. CASE PutTimeout(t)
  BY <1>3 DEF PutTimeout
<1>4. CASE EnterCriticalSection(t, "putEnter", "putSlot")
  BY <1>4 DEF EnterCriticalSection, PostSteps
<1>5. CASE ClaimPutSlot(t)
  BY <1>5 DEF ClaimPutSlot, PostSteps, Slots
<1>6. CASE CopyIn(t)
  <2>1. msg[t].class \in Classes \union {0}
    BY DEF Messages, NoMsg
  <2>2. QED
    BY <1>6, <2>1 DEF CopyIn, PostSteps
<1>7. CASE LeaveCriticalSection(t, "putLeave", "putRelease")
  BY <1>7 DEF LeaveCriticalSection, PostSteps
<1>8. CASE ReleaseGet(t)
  BY <1>8 DEF ReleaseGet
<1>9. CASE BeginPend(t)
  BY <1>9 DEF BeginPend, PendSteps
<1>10. CASE AcquireGet(t)
  BY <1>10 DEF AcquireGet, PendSteps
<1>11. CASE GetTimeout(t)
  BY <1>11 DEF GetTimeout
<1>12. CASE EnterCriticalSection(t, "getEnter", "getSlot")
  BY <1>12 DEF EnterCriticalSection, PendSteps
<1>13. CASE ClaimGetSlot(t)
  BY <1>13 DEF ClaimGetSlot, PendSteps, Slots
<1>14. CASE CopyOut(t)
  BY <1>14 DEF CopyOut, PendSteps
<1>15. CASE LeaveCriticalSection(t, "getLeave", "getRelease")
  BY <1>15 DEF LeaveCriticalSection, PendSteps
<1>16. CASE ReleasePut(t)
  BY <1>16 DEF ReleasePut
<1>17. QED
  BY <1>1, <1>2, <1>3, <1>4, <1>5, <1>6, <1>7, <1>8, <1>9, <1>10, <1>11, <1>12,
     <1>13, <1>14, <1>15, <1>16
  DEF Post, Pend

(* Every step of a thread preserves the two counting invariants. *)
LEMMA NextCounting ==
  ASSUME IInv, NEW t \in Threads, Post(t) \/ Pend(t)
  PROVE  (PermitsConserved /\ WindowCounted)'
<1>. DEFINE H == Cardinality(At(HolderSteps))
            F == Cardinality(At(FilledSteps))
            C == Cardinality(At(ClaimSteps))
<1>1. /\ PermitsConserved <=> hSemPut + hSemGet + H = nMax
      /\ WindowCounted <=> iNextPut = iNextGet + hSemGet + F + C
      /\ PermitsConserved' <=> hSemPut' + hSemGet' + H' = nMax
      /\ WindowCounted' <=> iNextPut' = iNextGet' + hSemGet' + F' + C'
  BY DEF PermitsConserved, WindowCounted, Holders, HolderSteps
<1>2. H \in Nat /\ F \in Nat /\ C \in Nat
  BY AtFinite
<1>3. /\ hSemPut \in Nat /\ hSemGet \in Nat /\ iNextPut \in Nat /\ iNextGet \in Nat
      /\ nMax \in Nat
      /\ hSemPut + hSemGet + H = nMax
      /\ iNextPut = iNextGet + hSemGet + F + C
  BY <1>1, MailboxAssumption DEF IInv, TypeOK, MailboxAssumption
<1>4. ASSUME NEW CONSTANT from, NEW CONSTANT to, Goto(t, from, to)
      PROVE  /\ H' = H + Change(HolderSteps, from, to)
             /\ F' = F + Change(FilledSteps, from, to)
             /\ C' = C + Change(ClaimSteps, from, to)
  BY <1>4, AtMove DEF IInv
<1>5. pc[t] \in HolderSteps => H >= 1
  BY AtLeastOne
<1> HIDE DEF H, F, C
<1>6. SUFFICES /\ hSemPut' + hSemGet' + H' = nMax
               /\ iNextPut' = iNextGet' + hSemGet' + F' + C'
  BY <1>1
<1> USE DEF sems, ring, locals
<1>7. CASE BeginPost(t)
  <2>1. H' = H /\ F' = F /\ C' = C
    <3>1. Goto(t, "idle", "putWait")
      BY <1>7 DEF BeginPost
    <3>2. /\ Change(HolderSteps, "idle", "putWait") = 0
          /\ Change(FilledSteps, "idle", "putWait") = 0
          /\ Change(ClaimSteps, "idle", "putWait") = 0
      BY DEF Change, HolderSteps, FilledSteps, ClaimSteps, PostSteps, PendSteps
    <3>3. QED
      BY <3>1, <3>2, <1>2, <1>4
  <2>2. QED
    BY <1>7, <2>1, <1>2, <1>3 DEF BeginPost
<1>8. CASE AcquirePut(t)
  <2>1. H' = H + 1 /\ F' = F /\ C' = C
    <3>1. Goto(t, "putWait", "putEnter")
      BY <1>8 DEF AcquirePut
    <3>2. /\ Change(HolderSteps, "putWait", "putEnter") = 1
          /\ Change(FilledSteps, "putWait", "putEnter") = 0
          /\ Change(ClaimSteps, "putWait", "putEnter") = 0
      BY DEF Change, HolderSteps, FilledSteps, ClaimSteps, PostSteps, PendSteps
    <3>3. QED
      BY <3>1, <3>2, <1>2, <1>4
  <2>2. QED
    BY <1>8, <2>1, <1>2, <1>3 DEF AcquirePut
<1>9. CASE PutTimeout(t)
  <2>1. H' = H /\ F' = F /\ C' = C
    <3>1. Goto(t, "putWait", "idle")
      BY <1>9 DEF PutTimeout
    <3>2. /\ Change(HolderSteps, "putWait", "idle") = 0
          /\ Change(FilledSteps, "putWait", "idle") = 0
          /\ Change(ClaimSteps, "putWait", "idle") = 0
      BY DEF Change, HolderSteps, FilledSteps, ClaimSteps, PostSteps, PendSteps
    <3>3. QED
      BY <3>1, <3>2, <1>2, <1>4
  <2>2. QED
    BY <1>9, <2>1, <1>2, <1>3 DEF PutTimeout
<1>10. CASE EnterCriticalSection(t, "putEnter", "putSlot")
  <2>1. H' = H /\ F' = F /\ C' = C
    <3>1. Goto(t, "putEnter", "putSlot")
      BY <1>10 DEF EnterCriticalSection
    <3>2. /\ Change(HolderSteps, "putEnter", "putSlot") = 0
          /\ Change(FilledSteps, "putEnter", "putSlot") = 0
          /\ Change(ClaimSteps, "putEnter", "putSlot") = 0
      BY DEF Change, HolderSteps, FilledSteps, ClaimSteps, PostSteps, PendSteps
    <3>3. QED
      BY <3>1, <3>2, <1>2, <1>4
  <2>2. QED
    BY <1>10, <2>1, <1>2, <1>3 DEF EnterCriticalSection
<1>11. CASE ClaimPutSlot(t)
  <2>1. H' = H /\ F' = F + 1 /\ C' = C
    <3>1. Goto(t, "putSlot", "putCopy")
      BY <1>11 DEF ClaimPutSlot
    <3>2. /\ Change(HolderSteps, "putSlot", "putCopy") = 0
          /\ Change(FilledSteps, "putSlot", "putCopy") = 1
          /\ Change(ClaimSteps, "putSlot", "putCopy") = 0
      BY DEF Change, HolderSteps, FilledSteps, ClaimSteps, PostSteps, PendSteps
    <3>3. QED
      BY <3>1, <3>2, <1>2, <1>4
  <2>2. QED
    BY <1>11, <2>1, <1>2, <1>3 DEF ClaimPutSlot
<1>12. CASE CopyIn(t)
  <2>1. H' = H /\ F' = F /\ C' = C
    <3>1. Goto(t, "putCopy", "putLeave")
      BY <1>12 DEF CopyIn
    <3>2. /\ Change(HolderSteps, "putCopy", "putLeave") = 0
          /\ Change(FilledSteps, "putCopy", "putLeave") = 0
          /\ Change(ClaimSteps, "putCopy", "putLeave") = 0
      BY DEF Change, HolderSteps, FilledSteps, ClaimSteps, PostSteps, PendSteps
    <3>3. QED
      BY <3>1, <3>2, <1>2, <1>4
  <2>2. QED
    BY <1>12, <2>1, <1>2, <1>3 DEF CopyIn
<1>13. CASE LeaveCriticalSection(t, "putLeave", "putRelease")
  <2>1. H' = H /\ F' = F /\ C' = C
    <3>1. Goto(t, "putLeave", "putRelease")
      BY <1>13 DEF LeaveCriticalSection
    <3>2. /\ Change(HolderSteps, "putLeave", "putRelease") = 0
          /\ Change(FilledSteps, "putLeave", "putRelease") = 0
          /\ Change(ClaimSteps, "putLeave", "putRelease") = 0
      BY DEF Change, HolderSteps, FilledSteps, ClaimSteps, PostSteps, PendSteps
    <3>3. QED
      BY <3>1, <3>2, <1>2, <1>4
  <2>2. QED
    BY <1>13, <2>1, <1>2, <1>3 DEF LeaveCriticalSection
<1>14. CASE ReleaseGet(t)
  <2>1. H' = H - 1 /\ F' = F - 1 /\ C' = C
    <3>1. Goto(t, "putRelease", "idle")
      BY <1>14 DEF ReleaseGet
    <3>2. /\ Change(HolderSteps, "putRelease", "idle") = -1
          /\ Change(FilledSteps, "putRelease", "idle") = -1
          /\ Change(ClaimSteps, "putRelease", "idle") = 0
      BY DEF Change, HolderSteps, FilledSteps, ClaimSteps, PostSteps, PendSteps
    <3>3. QED
      BY <3>1, <3>2, <1>2, <1>4
  <2>2. hSemGet' = hSemGet + 1
    <3>1. H >= 1
      BY <1>14, <1>5 DEF ReleaseGet, Goto, HolderSteps, PostSteps, PendSteps
    <3>2. QED
      BY <1>14, <3>1, <1>2, <1>3 DEF ReleaseGet
  <2>3. QED
    BY <1>14, <2>1, <2>2, <1>2, <1>3 DEF ReleaseGet
<1>15. CASE BeginPend(t)
  <2>1. H' = H /\ F' = F /\ C' = C
    <3>1. Goto(t, "idle", "getWait")
      BY <1>15 DEF BeginPend
    <3>2. /\ Change(HolderSteps, "idle", "getWait") = 0
          /\ Change(FilledSteps, "idle", "getWait") = 0
          /\ Change(ClaimSteps, "idle", "getWait") = 0
      BY DEF Change, HolderSteps, FilledSteps, ClaimSteps, PostSteps, PendSteps
    <3>3. QED
      BY <3>1, <3>2, <1>2, <1>4
  <2>2. QED
    BY <1>15, <2>1, <1>2, <1>3 DEF BeginPend
<1>16. CASE AcquireGet(t)
  <2>1. H' = H + 1 /\ F' = F /\ C' = C + 1
    <3>1. Goto(t, "getWait", "getEnter")
      BY <1>16 DEF AcquireGet
    <3>2. /\ Change(HolderSteps, "getWait", "getEnter") = 1
          /\ Change(FilledSteps, "getWait", "getEnter") = 0
          /\ Change(ClaimSteps, "getWait", "getEnter") = 1
      BY DEF Change, HolderSteps, FilledSteps, ClaimSteps, PostSteps, PendSteps
    <3>3. QED
      BY <3>1, <3>2, <1>2, <1>4
  <2>2. QED
    BY <1>16, <2>1, <1>2, <1>3 DEF AcquireGet
<1>17. CASE GetTimeout(t)
  <2>1. H' = H /\ F' = F /\ C' = C
    <3>1. Goto(t, "getWait", "idle")
      BY <1>17 DEF GetTimeout
    <3>2. /\ Change(HolderSteps, "getWait", "idle") = 0
          /\ Change(FilledSteps, "getWait", "idle") = 0
          /\ Change(ClaimSteps, "getWait", "idle") = 0
      BY DEF Change, HolderSteps, FilledSteps, ClaimSteps, PostSteps, PendSteps
    <3>3. QED
      BY <3>1, <3>2, <1>2, <1>4
  <2>2. QED
    BY <1>17, <2>1, <1>2, <1>3 DEF GetTimeout
<1>18. CASE EnterCriticalSection(t, "getEnter", "getSlot")
  <2>1. H' = H /\ F' = F /\ C' = C
    <3>1. Goto(t, "getEnter", "getSlot")
      BY <1>18 DEF EnterCriticalSection
    <3>2. /\ Change(HolderSteps, "getEnter", "getSlot") = 0
          /\ Change(FilledSteps, "getEnter", "getSlot") = 0
          /\ Change(ClaimSteps, "getEnter", "getSlot") = 0
      BY DEF Change, HolderSteps, FilledSteps, ClaimSteps, PostSteps, PendSteps
    <3>3. QED
      BY <3>1, <3>2, <1>2, <1>4
  <2>2. QED
    BY <1>18, <2>1, <1>2, <1>3 DEF EnterCriticalSection
<1>19. CASE ClaimGetSlot(t)
  <2>1. H' = H /\ F' = F /\ C' = C - 1
    <3>1. Goto(t, "getSlot", "getCopy")
      BY <1>19 DEF ClaimGetSlot
    <3>2. /\ Change(HolderSteps, "getSlot", "getCopy") = 0
          /\ Change(FilledSteps, "getSlot", "getCopy") = 0
          /\ Change(ClaimSteps, "getSlot", "getCopy") = -1
      BY DEF Change, HolderSteps, FilledSteps, ClaimSteps, PostSteps, PendSteps
    <3>3. QED
      BY <3>1, <3>2, <1>2, <1>4
  <2>2. QED
    BY <1>19, <2>1, <1>2, <1>3 DEF ClaimGetSlot
<1>20. CASE CopyOut(t)
  <2>1. H' = H /\ F' = F /\ C' = C
    <3>1. Goto(t, "getCopy", "getLeave")
      BY <1>20 DEF CopyOut
    <3>2. /\ Change(HolderSteps, "getCopy", "getLeave") = 0
          /\ Change(FilledSteps, "getCopy", "getLeave") = 0
          /\ Change(ClaimSteps, "getCopy", "getLeave") = 0
      BY DEF Change, HolderSteps, FilledSteps, ClaimSteps, PostSteps, PendSteps
    <3>3. QED
      BY <3>1, <3>2, <1>2, <1>4
  <2>2. QED
    BY <1>20, <2>1, <1>2, <1>3 DEF CopyOut
<1>21. CASE LeaveCriticalSection(t, "getLeave", "getRelease")
  <2>1. H' = H /\ F' = F /\ C' = C
    <3>1. Goto(t, "getLeave", "getRelease")
      BY <1>21 DEF LeaveCriticalSection
    <3>2. /\ Change(HolderSteps, "getLeave", "getRelease") = 0
          /\ Change(FilledSteps, "getLeave", "getRelease") = 0
          /\ Change(ClaimSteps, "getLeave", "getRelease") = 0
      BY DEF Change, HolderSteps, FilledSteps, ClaimSteps, PostSteps, PendSteps
    <3>3. QED
      BY <3>1, <3>2, <1>2, <1>4
  <2>2. QED
    BY <1>21, <2>1, <1>2, <1>3 DEF LeaveCriticalSection
<1>22. CASE ReleasePut(t)
  <2>1. H' = H - 1 /\ F' = F /\ C' = C
    <3>1. Goto(t, "getRelease", "idle")
      BY <1>22 DEF ReleasePut
    <3>2. /\ Change(HolderSteps, "getRelease", "idle") = -1
          /\ Change(FilledSteps, "getRelease", "idle") = 0
          /\ Change(ClaimSteps, "getRelease", "idle") = 0
      BY DEF Change, HolderSteps, FilledSteps, ClaimSteps, PostSteps, PendSteps
    <3>3. QED
      BY <3>1, <3>2, <1>2, <1>4
  <2>2. hSemPut' = hSemPut + 1
    <3>1. H >= 1
      BY <1>22, <1>5 DEF ReleasePut, Goto, HolderSteps, PostSteps, PendSteps
    <3>2. QED
      BY <1>22, <3>1, <1>2, <1>3 DEF ReleasePut
  <2>3. QED
    BY <1>22, <2>1, <2>2, <1>2, <1>3 DEF ReleasePut
<1>23. QED
  BY <1>7, <1>8, <1>9, <1>10, <1>11, <1>12, <1>13, <1>14, <1>15, <1>16, <1>17, <1>18,
     <1>19, <1>20, <1>21, <1>22
  DEF Post, Pend

(* The invariant is inductive. *)
THEOREM InvariantInductive == Spec => []IInv
<1>1. IInv /\ [Next]_vars => IInv'
  <2> SUFFICES ASSUME IInv, [Next]_vars PROVE IInv'
    OBVIOUS
  <2>1. ASSUME NEW t \in Threads, Post(t) \/ Pend(t) PROVE IInv'
    BY <2>1, NextTypeOK, NextCounting DEF IInv
  <2>2. CASE UNCHANGED vars
    BY <2>2 DEF vars, sems, ring, locals, IInv, TypeOK, PermitsConserved, WindowCounted,
                Holders, At
  <2>3. QED
    BY <2>1, <2>2 DEF Next
<1>2. QED
  BY <1>1, InitIInv, PTL DEF Spec

(* The mailbox's variables keep their types, and no permit of the two       *)
(* semaphores is ever lost or invented.                                     *)
THEOREM MailboxConsistent == Spec => []MailboxOK
<1>1. IInv => MailboxOK
  BY DEF IInv, MailboxOK
<1>2. QED
  BY <1>1, InvariantInductive, PTL

(* A post claims only a slot that was popped, a pend only one that was filled. *)
THEOREM ClaimSafety == Spec => []ClaimsAreSound
<1>1. IInv => ClaimsAreSound
  <2> SUFFICES ASSUME IInv PROVE ClaimsAreSound
    OBVIOUS
  <2>. DEFINE H == Cardinality(At(HolderSteps))
              F == Cardinality(At(FilledSteps))
              C == Cardinality(At(ClaimSteps))
  <2>1. /\ hSemPut + hSemGet + H = nMax
        /\ iNextPut = iNextGet + hSemGet + F + C
        /\ hSemPut \in Nat /\ hSemGet \in Nat /\ iNextGet \in Nat /\ nMax \in Nat
        /\ H \in Nat /\ F \in Nat /\ C \in Nat
    BY AtFinite, MailboxAssumption
    DEF IInv, TypeOK, PermitsConserved, WindowCounted, Holders, HolderSteps,
        MailboxAssumption
  <2>2. ASSUME NEW t \in Threads, pc[t] = "getSlot" PROVE iNextGet < iNextPut
    <3>1. C >= 1
      BY <2>2, AtLeastOne DEF ClaimSteps
    <3>2. QED
      BY <2>1, <3>1
  <2>3. ASSUME NEW t \in Threads, pc[t] = "putSlot" PROVE iNextPut < iNextGet + nMax
    <3>1. F + C < H
      <4>1. At(FilledSteps) \union At(ClaimSteps) \subseteq At(HolderSteps) \ {t}
        BY <2>3 DEF At, FilledSteps, ClaimSteps, HolderSteps, PostSteps, PendSteps
      <4>2. /\ At(FilledSteps) \intersect At(ClaimSteps) = {}
            /\ t \in At(HolderSteps)
        BY <2>3 DEF At, FilledSteps, ClaimSteps, HolderSteps, PostSteps, PendSteps
      <4>3. /\ IsFiniteSet(At(FilledSteps)) /\ IsFiniteSet(At(ClaimSteps))
            /\ IsFiniteSet(At(HolderSteps))
        BY AtFinite
      <4>4. /\ IsFiniteSet(At(HolderSteps) \ {t})
            /\ Cardinality(At(HolderSteps) \ {t}) = H - 1
        BY <4>2, <4>3, FS_RemoveElement
      <4>5. Cardinality(At(FilledSteps) \union At(ClaimSteps)) = F + C
        BY <4>2, <4>3, <2>1, FS_Union, FS_EmptySet
      <4>6. Cardinality(At(FilledSteps) \union At(ClaimSteps)) <= H - 1
        BY <4>1, <4>4, FS_Subset
      <4>7. QED
        BY <4>5, <4>6, <2>1
    <3>2. QED
      BY <2>1, <3>1
  <2>4. QED
    BY <2>2, <2>3 DEF ClaimsAreSound, At
<1>2. QED
  BY <1>1, InvariantInductive, PTL

(***************************************************************************)
(* 2. The mailbox implements a bounded channel: SLAMbxPost and SLAMbxPend  *)
(* take effect when they copy their message, the post at the end of the    *)
(* queue, the pend at its head, and time out only when the calls in        *)
(* progress leave them nothing.                                            *)
(***************************************************************************)
-------------------------------------------------------------------------------
(* The ring: counters that differ by less than its length name different    *)
(* slots.                                                                   *)
LEMMA DivMod ==
  ASSUME NEW n \in Int, n > 0, NEW a \in Int
  PROVE  /\ a = n * (a \div n) + (a % n) /\ a \div n \in Int
         /\ a % n \in 0 .. n - 1
<1>1. a = n * (a \div n) + (a % n)
  OBVIOUS
<1>2. a \div n \in Int
  OBVIOUS
<1>3. a % n \in 0 .. n - 1
  OBVIOUS
<1>4. QED
  BY <1>1, <1>2, <1>3

(* Counters less than a length of the ring apart name different slots.      *)
LEMMA SlotsDiffer ==
  ASSUME NEW n \in Nat \ {0}, NEW a \in Nat, NEW b \in Nat, a < b, b < a + n
  PROVE  a % n # b % n
<1> DEFINE p == a \div n
           q == b \div n
<1>1. /\ a = n * p + (a % n) /\ p \in Int
      /\ b = n * q + (b % n) /\ q \in Int
  BY DivMod
<1>2. SUFFICES ASSUME a % n = b % n PROVE FALSE
  OBVIOUS
<1> HIDE DEF p, q
<1>3. n * q - n * p = n * (q - p)
  BY <1>1
<1>4. b - a = n * (q - p)
  <2>1. a % n \in Int /\ b % n \in Int /\ n * p \in Int /\ n * q \in Int
    BY <1>1, DivMod
  <2>2. QED
    BY <1>1, <1>2, <1>3, <2>1
<1>5. CASE q - p <= 0
  <2>1. n * (q - p) <= 0
    BY <1>1, <1>5
  <2>2. QED
    BY <1>4, <2>1
<1>6. CASE q - p >= 1
  <2>1. n * (q - p) >= n
    BY <1>1, <1>6
  <2>2. QED
    BY <1>4, <2>1
<1>7. QED
  BY <1>1, <1>5, <1>6

-------------------------------------------------------------------------------
(* What the refinement needs beyond the counting invariant: one thread in   *)
(* the critical section, which slot a claim names, and that a call without  *)
(* a message carries none.                                                  *)
CritSteps == {"putSlot", "putCopy", "putLeave", "getSlot", "getCopy", "getLeave"}

Mutex ==
  /\ \A t \in Threads : t \in critSect <=> pc[t] \in CritSteps
  /\ \A t, u \in critSect : t = u

SlotClaimed ==
  \A t \in Threads :
    /\ pc[t] = "putCopy" => iNextPut >= 1 /\ iSlot[t] = (iNextPut - 1) % nMax
    /\ pc[t] = "getCopy" => iNextGet >= 1 /\ iSlot[t] = (iNextGet - 1) % nMax

EmptyHanded ==
  \A t \in Threads :
    pc[t] \in {"idle", "getWait", "getEnter", "getSlot", "getCopy"} => msg[t] = NoMsg

RInv == IInv /\ Mutex /\ SlotClaimed /\ EmptyHanded

(* A step keeps the critical section to one thread.                         *)
LEMMA MutexStep ==
  ASSUME TypeOK, Mutex, NEW t \in Threads, Post(t) \/ Pend(t)
  PROVE  Mutex'
<1> USE DEF Mutex, Goto, TypeOK, CritSteps
<1>1. CASE \/ EnterCriticalSection(t, "putEnter", "putSlot")
           \/ EnterCriticalSection(t, "getEnter", "getSlot")
  BY <1>1 DEF EnterCriticalSection
<1>2. CASE \/ LeaveCriticalSection(t, "putLeave", "putRelease")
           \/ LeaveCriticalSection(t, "getLeave", "getRelease")
  BY <1>2 DEF LeaveCriticalSection
<1>3. CASE /\ UNCHANGED critSect /\ (pc'[t] \in CritSteps <=> pc[t] \in CritSteps)
           /\ \A u \in Threads \ {t} : pc'[u] = pc[u]
  BY <1>3
<1>4. \/ EnterCriticalSection(t, "putEnter", "putSlot")
      \/ EnterCriticalSection(t, "getEnter", "getSlot")
      \/ LeaveCriticalSection(t, "putLeave", "putRelease")
      \/ LeaveCriticalSection(t, "getLeave", "getRelease")
      \/ /\ UNCHANGED critSect /\ (pc'[t] \in CritSteps <=> pc[t] \in CritSteps)
         /\ \A u \in Threads \ {t} : pc'[u] = pc[u]
  BY DEF Post, Pend, BeginPost, AcquirePut, PutTimeout, ClaimPutSlot, CopyIn, ReleaseGet,
         BeginPend, AcquireGet, GetTimeout, ClaimGetSlot, CopyOut, ReleasePut
<1>5. QED
  BY <1>1, <1>2, <1>3, <1>4

(* A step keeps what each claimed slot is: a counter moves only in a claim. *)
LEMMA SlotStep ==
  ASSUME TypeOK, Mutex, SlotClaimed, NEW t \in Threads, Post(t) \/ Pend(t)
  PROVE  SlotClaimed'
<1> USE DEF SlotClaimed, Goto, TypeOK, ring, locals, sems
<1>1. pc[t] \in CritSteps => \A u \in Threads \ {t} : pc[u] \notin CritSteps
  BY DEF Mutex
<1>2. CASE ClaimPutSlot(t) \/ ClaimGetSlot(t)
  <2>1. \A u \in Threads \ {t} : pc'[u] \notin {"putCopy", "getCopy"}
    BY <1>1, <1>2 DEF ClaimPutSlot, ClaimGetSlot, CritSteps
  <2>2. CASE ClaimPutSlot(t)
    <3>1. /\ pc'[t] = "putCopy" /\ iNextPut' >= 1 /\ iNextPut' - 1 = iNextPut
          /\ iSlot'[t] = iNextPut % nMax
      BY <2>2 DEF ClaimPutSlot
    <3>2. QED
      BY <2>1, <3>1
  <2>3. CASE ClaimGetSlot(t)
    <3>1. /\ pc'[t] = "getCopy" /\ iNextGet' >= 1 /\ iNextGet' - 1 = iNextGet
          /\ iSlot'[t] = iNextGet % nMax
      BY <2>3 DEF ClaimGetSlot
    <3>2. QED
      BY <2>1, <3>1
  <2>4. QED
    BY <1>2, <2>2, <2>3
<1>3. CASE /\ UNCHANGED <<iNextPut, iNextGet, iSlot>> /\ pc'[t] \notin {"putCopy", "getCopy"}
           /\ \A u \in Threads \ {t} : pc'[u] = pc[u]
  BY <1>3
<1>4. QED
  BY <1>2, <1>3
  DEF Post, Pend, BeginPost, AcquirePut, PutTimeout, CopyIn, ReleaseGet,
      BeginPend, AcquireGet, GetTimeout, CopyOut, ReleasePut,
      EnterCriticalSection, LeaveCriticalSection

(* A step leaves no message with a call that has none to deliver.           *)
LEMMA EmptyHandedStep ==
  ASSUME TypeOK, EmptyHanded, NEW t \in Threads, Post(t) \/ Pend(t)
  PROVE  EmptyHanded'
<1> USE DEF EmptyHanded, Goto, TypeOK, locals
<1>1. \A u \in Threads \ {t} : pc'[u] = pc[u] /\ msg'[u] = msg[u]
  BY DEF Post, Pend, BeginPost, AcquirePut, PutTimeout, ClaimPutSlot, CopyIn, ReleaseGet,
         BeginPend, AcquireGet, GetTimeout, ClaimGetSlot, CopyOut, ReleasePut,
         EnterCriticalSection, LeaveCriticalSection
<1>2. CASE BeginPost(t) \/ AcquirePut(t) \/ ClaimPutSlot(t) \/ CopyIn(t) \/ CopyOut(t)
  BY <1>1, <1>2 DEF BeginPost, AcquirePut, ClaimPutSlot, CopyIn, CopyOut
<1>3. CASE PutTimeout(t) \/ ReleaseGet(t) \/ ReleasePut(t)
  BY <1>1, <1>3 DEF PutTimeout, ReleaseGet, ReleasePut
<1>4. CASE BeginPend(t) \/ AcquireGet(t) \/ GetTimeout(t) \/ ClaimGetSlot(t)
  BY <1>1, <1>4 DEF BeginPend, AcquireGet, GetTimeout, ClaimGetSlot
<1>5. CASE \/ EnterCriticalSection(t, "putEnter", "putSlot")
           \/ EnterCriticalSection(t, "getEnter", "getSlot")
           \/ LeaveCriticalSection(t, "putLeave", "putRelease")
           \/ LeaveCriticalSection(t, "getLeave", "getRelease")
  BY <1>1, <1>5 DEF EnterCriticalSection, LeaveCriticalSection
<1>6. QED
  BY <1>2, <1>3, <1>4, <1>5 DEF Post, Pend

(* The invariant of the refinement holds in every state of the mailbox.     *)
LEMMA RefinementInvariant == Spec => []RInv
<1>1. Init => RInv
  BY InitIInv DEF Init, RInv, Mutex, SlotClaimed, EmptyHanded, CritSteps
<1>2. RInv /\ [Next]_vars => RInv'
  <2> SUFFICES ASSUME RInv, [Next]_vars PROVE RInv'
    OBVIOUS
  <2>1. ASSUME NEW t \in Threads, Post(t) \/ Pend(t) PROVE RInv'
    BY <2>1, NextTypeOK, NextCounting, MutexStep, SlotStep, EmptyHandedStep DEF RInv, IInv
  <2>2. CASE UNCHANGED vars
    BY <2>2 DEF vars, sems, ring, locals, RInv, IInv, TypeOK, PermitsConserved,
                WindowCounted, Holders, At, Mutex, SlotClaimed, EmptyHanded
  <2>3. QED
    BY <2>1, <2>2 DEF Next
<1>3. QED
  BY <1>1, <1>2, PTL DEF Spec

-------------------------------------------------------------------------------
(* How many messages there are, against the permits and the calls in        *)
(* progress.                                                                *)
LEMMA AtUnion ==
  ASSUME NEW CONSTANT S, NEW CONSTANT T, S \intersect T = {}
  PROVE  Cardinality(At(S \union T)) = Cardinality(At(S)) + Cardinality(At(T))
<1>1. At(S \union T) = At(S) \union At(T) /\ At(S) \intersect At(T) = {}
  BY DEF At
<1>2. IsFiniteSet(At(S)) /\ IsFiniteSet(At(T))
  BY AtFinite
<1>3. Cardinality(At(S)) \in Nat /\ Cardinality(At(T)) \in Nat
  BY AtFinite
<1>4. Cardinality({}) = 0
  BY FS_EmptySet
<1>5. Cardinality(At(S) \union At(T)) =
        Cardinality(At(S)) + Cardinality(At(T)) - Cardinality(At(S) \intersect At(T))
  BY <1>2, FS_Union
<1>6. Cardinality(At(S \union T)) = Cardinality(At(S) \union At(T))
  BY <1>1
<1>7. Cardinality(At(S) \intersect At(T)) = 0
  BY <1>1, <1>4
<1>8. QED
  BY <1>3, <1>5, <1>6, <1>7

Poppers == {"getCopy"}

(* Filled slots, claims and pops under way all belong to permit holders.    *)
LEMMA HoldersCounted ==
  /\ Cardinality(At(FilledSteps)) \in Nat /\ Cardinality(At(ClaimSteps)) \in Nat
  /\ Cardinality(At(Poppers)) \in Nat /\ Cardinality(Holders) \in Nat
  /\ Cardinality(At(FilledSteps)) + Cardinality(At(ClaimSteps)) + Cardinality(At(Poppers))
       <= Cardinality(Holders)
<1>1. /\ Cardinality(At(FilledSteps)) \in Nat /\ Cardinality(At(ClaimSteps)) \in Nat
      /\ Cardinality(At(Poppers)) \in Nat
  BY AtFinite
<1>2. IsFiniteSet(Holders) /\ Cardinality(Holders) \in Nat
  BY AtFinite DEF Holders
<1>3. Cardinality(At(FilledSteps \union ClaimSteps)) =
        Cardinality(At(FilledSteps)) + Cardinality(At(ClaimSteps))
  BY AtUnion DEF FilledSteps, ClaimSteps
<1>4. Cardinality(At((FilledSteps \union ClaimSteps) \union Poppers)) =
        Cardinality(At(FilledSteps \union ClaimSteps)) + Cardinality(At(Poppers))
  BY AtUnion DEF FilledSteps, ClaimSteps, Poppers
<1>5. At((FilledSteps \union ClaimSteps) \union Poppers) \subseteq Holders
  BY DEF At, Holders, FilledSteps, ClaimSteps, Poppers, PostSteps, PendSteps
<1>6. Cardinality(At((FilledSteps \union ClaimSteps) \union Poppers)) <= Cardinality(Holders)
  BY <1>2, <1>5, FS_Subset
<1>7. QED
  BY <1>1, <1>2, <1>3, <1>4, <1>6

(* The messages in the mailbox: at least the permits to get, at most these  *)
(* and one for each call in progress; the counters stay within the ring.    *)
LEMMA QueueLength ==
  ASSUME RInv
  PROVE  /\ PutDone \in Int /\ GetDone \in Int
         /\ PutDone - GetDone \in Nat
         /\ hSemGet <= PutDone - GetDone
         /\ PutDone - GetDone <= hSemGet + Cardinality(Holders)
         /\ iNextGet <= iNextPut /\ iNextPut <= iNextGet + nMax
         /\ GetDone \in Nat
<1> DEFINE F == Cardinality(At(FilledSteps))
           C == Cardinality(At(ClaimSteps))
           G == Cardinality(At(Poppers))
           H == Cardinality(Holders)
<1>1. F \in Nat /\ C \in Nat /\ G \in Nat /\ H \in Nat /\ F + C + G <= H
  BY HoldersCounted
<1>2. /\ hSemPut \in Nat /\ hSemGet \in Nat /\ nMax \in Nat
      /\ iNextPut \in Nat /\ iNextGet \in Nat
      /\ hSemPut + hSemGet + H = nMax /\ iNextPut = iNextGet + hSemGet + F + C
  BY MailboxAssumption DEF RInv, IInv, TypeOK, PermitsConserved, WindowCounted,
                           MailboxAssumption
<1>3. \/ PutDone = iNextPut - 1 /\ F >= 1
      \/ PutDone = iNextPut
  BY AtLeastOne DEF PutDone, FilledSteps
<1>4. \/ GetDone = iNextGet - 1 /\ G >= 1 /\ iNextGet >= 1
      \/ GetDone = iNextGet
  BY AtLeastOne DEF GetDone, Poppers, RInv, SlotClaimed
<1> HIDE DEF F, C, G, H
<1>5. /\ PutDone \in Int /\ GetDone \in Nat
      /\ iNextGet <= iNextPut /\ iNextPut <= iNextGet + nMax
  BY <1>1, <1>2, <1>3, <1>4
<1>6. hSemGet <= PutDone - GetDone /\ PutDone - GetDone \in Nat
  BY <1>1, <1>2, <1>3, <1>4
<1>7. PutDone - GetDone <= hSemGet + H
  BY <1>1, <1>2, <1>3, <1>4
<1>8. QED
  BY <1>5, <1>6, <1>7 DEF H

QueueShape ==
  /\ Queued \in Seq(Messages \union {NoMsg})
  /\ Len(Queued) = PutDone - GetDone
  /\ \A k \in 1 .. PutDone - GetDone : Queued[k] = QueueObjects[(GetDone + k - 1) % nMax]

(* The messages between the counters form a sequence of their distance.     *)
LEMMA QueueIsSeq ==
  ASSUME RInv
  PROVE  QueueShape
<1>1. PutDone - GetDone \in Nat /\ GetDone \in Nat
  BY QueueLength
<1>2. QueueObjects \in [Slots -> Messages \union {NoMsg}] /\ nMax \in Nat \ {0}
  BY MailboxAssumption DEF RInv, IInv, TypeOK, MailboxAssumption
<1>3. ASSUME NEW k \in 1 .. PutDone - GetDone
      PROVE  QueueObjects[(GetDone + k - 1) % nMax] \in Messages \union {NoMsg}
  <2>1. (GetDone + k - 1) % nMax \in Slots
    BY <1>1, <1>2, DivMod DEF Slots
  <2>2. QED
    BY <1>2, <2>1
<1>4. Queued \in [1 .. PutDone - GetDone -> Messages \union {NoMsg}]
  BY <1>3 DEF Queued
<1>5. QED
  BY <1>1, <1>4 DEF Queued, QueueShape

(* So they do after a step.                                                 *)
LEMMA QueueStaysSeq == (RInv => QueueShape)'
<1>1. RInv => QueueShape
  BY QueueIsSeq
<1>2. QED
  BY <1>1, PTL

-------------------------------------------------------------------------------
(* What the steps of a thread do to the channel's variables.                *)
Calls == [t \in Threads |-> [at |-> Stage(t), msg |-> msg[t]]]

StageOf(step) ==
  CASE step \in {"putWait", "putEnter", "putSlot", "putCopy"} -> "posting"
    [] step \in {"putLeave", "putRelease"}                    -> "posted"
    [] step \in {"getWait", "getEnter", "getSlot", "getCopy"} -> "pending"
    [] step \in {"getLeave", "getRelease"}                    -> "popped"
    [] OTHER                                                  -> "idle"

Carries(t, m) == msg' = [msg EXCEPT ![t] = m]

Was(t, stage) == Calls[t] = [at |-> stage, msg |-> msg[t]]

Becomes(t, stage, m) == Calls' = [Calls EXCEPT ![t] = [at |-> stage, msg |-> m]]

(* A step that changes the stage of a call, or its message.                 *)
LEMMA CallMoves ==
  ASSUME TypeOK, NEW t \in Threads, NEW from, NEW to, Goto(t, from, to),
         NEW m, Carries(t, m)
  PROVE  Was(t, StageOf(from)) /\ Becomes(t, StageOf(to), m)
<1>1. \A u \in Threads : Stage(u) = StageOf(pc[u]) /\ Stage(u)' = StageOf(pc'[u])
  BY DEF Stage, StageOf
<1>2. /\ pc[t] = from /\ pc'[t] = to /\ \A u \in Threads \ {t} : pc'[u] = pc[u]
      /\ msg'[t] = m /\ \A u \in Threads \ {t} : msg'[u] = msg[u]
  BY DEF Goto, TypeOK, Carries
<1>3. Calls[t] = [at |-> StageOf(from), msg |-> msg[t]]
  BY <1>1, <1>2 DEF Calls
<1>4. Calls' = [u \in Threads |-> [at |-> Stage(u)', msg |-> msg'[u]]]
  BY DEF Calls
<1>5. ASSUME NEW u \in Threads
      PROVE  [at |-> Stage(u)', msg |-> msg'[u]] =
               IF u = t THEN [at |-> StageOf(to), msg |-> m] ELSE Calls[u]
  BY <1>1, <1>2 DEF Calls
<1>6. QED
  BY <1>3, <1>4, <1>5 DEF Calls, Was, Becomes

(* A step within a stage of a call that keeps the message.                  *)
LEMMA CallRests ==
  ASSUME TypeOK, NEW t \in Threads, NEW from, NEW to, Goto(t, from, to),
         UNCHANGED msg, StageOf(from) = StageOf(to)
  PROVE  UNCHANGED Calls
<1>1. \A u \in Threads : Stage(u) = StageOf(pc[u]) /\ Stage(u)' = StageOf(pc'[u])
  BY DEF Stage, StageOf
<1>2. \A u \in Threads : StageOf(pc'[u]) = StageOf(pc[u])
  BY DEF Goto, TypeOK
<1>3. \A u \in Threads : Stage(u)' = Stage(u)
  BY <1>1, <1>2
<1>4. QED
  BY <1>3 DEF Calls

(* A step outside the copies that leaves the counters and the ring alone.   *)
LEMMA QueueRests ==
  ASSUME TypeOK, NEW t \in Threads, NEW from, NEW to, Goto(t, from, to),
         from \notin {"putCopy", "getCopy"}, to \notin {"putCopy", "getCopy"},
         UNCHANGED <<iNextPut, iNextGet, QueueObjects>>
  PROVE  UNCHANGED <<PutDone, GetDone, Queued>>
<1>1. \A u \in Threads : /\ pc'[u] = "putCopy" <=> pc[u] = "putCopy"
                         /\ pc'[u] = "getCopy" <=> pc[u] = "getCopy"
  BY DEF Goto, TypeOK
<1>2. PutDone' = PutDone /\ GetDone' = GetDone
  BY <1>1 DEF PutDone, GetDone
<1>3. QED
  BY <1>2 DEF Queued

(* A claim moves a counter, and leaves the copy still to come.              *)
LEMMA ClaimRests ==
  ASSUME RInv, NEW t \in Threads, ClaimPutSlot(t) \/ ClaimGetSlot(t)
  PROVE  UNCHANGED <<PutDone, GetDone, Queued>>
<1>1. /\ pc[t] \in CritSteps /\ TypeOK
      /\ \A u \in Threads \ {t} : pc[u] \notin CritSteps /\ pc'[u] = pc[u]
  BY DEF RInv, IInv, Mutex, ClaimPutSlot, ClaimGetSlot, Goto, CritSteps, TypeOK
<1>2. iNextPut \in Nat /\ iNextGet \in Nat
  BY <1>1 DEF TypeOK
<1>3. CASE ClaimPutSlot(t)
  <2>1. /\ pc[t] = "putSlot" /\ pc'[t] = "putCopy"
        /\ iNextPut' = iNextPut + 1 /\ UNCHANGED <<iNextGet, QueueObjects>>
    BY <1>1, <1>3 DEF ClaimPutSlot, Goto, TypeOK
  <2>2. PutDone = iNextPut /\ GetDone = iNextGet
    BY <1>1, <2>1 DEF PutDone, GetDone, CritSteps
  <2>3. PutDone' = iNextPut /\ GetDone' = iNextGet
    BY <1>1, <1>2, <2>1 DEF PutDone, GetDone, CritSteps
  <2>4. QED
    BY <2>1, <2>2, <2>3 DEF Queued
<1>4. CASE ClaimGetSlot(t)
  <2>1. /\ pc[t] = "getSlot" /\ pc'[t] = "getCopy"
        /\ iNextGet' = iNextGet + 1 /\ UNCHANGED <<iNextPut, QueueObjects>>
    BY <1>1, <1>4 DEF ClaimGetSlot, Goto, TypeOK
  <2>2. PutDone = iNextPut /\ GetDone = iNextGet
    BY <1>1, <2>1 DEF PutDone, GetDone, CritSteps
  <2>3. PutDone' = iNextPut /\ GetDone' = iNextGet
    BY <1>1, <1>2, <2>1 DEF PutDone, GetDone, CritSteps
  <2>4. QED
    BY <2>1, <2>2, <2>3 DEF Queued
<1>5. QED
  BY <1>3, <1>4

(* What the copy into a slot does to the counters and the slots.            *)
LEMMA CopyInMoves ==
  ASSUME RInv, NEW t \in Threads, CopyIn(t)
  PROVE  /\ PutDone = iNextPut - 1 /\ PutDone' = iNextPut
         /\ GetDone = iNextGet /\ GetDone' = iNextGet
         /\ iNextPut \in Nat /\ iNextGet \in Nat /\ iNextPut >= 1
         /\ iSlot[t] = (iNextPut - 1) % nMax /\ iSlot[t] \in Slots
         /\ QueueObjects' = [QueueObjects EXCEPT ![iSlot[t]] = msg[t]]
         /\ TypeClasses' = [TypeClasses EXCEPT ![iSlot[t]] = msg[t].class]
         /\ PutDone - GetDone \in Nat /\ iNextPut <= iNextGet + nMax
<1>1. /\ pc[t] = "putCopy" /\ pc'[t] = "putLeave" /\ TypeOK
      /\ \A u \in Threads \ {t} : pc[u] \notin CritSteps /\ pc'[u] = pc[u]
  BY DEF RInv, IInv, Mutex, CopyIn, Goto, CritSteps, TypeOK
<1>2. /\ iNextPut \in Nat /\ iNextGet \in Nat /\ iNextPut >= 1
      /\ iSlot[t] = (iNextPut - 1) % nMax /\ iSlot[t] \in Slots
  BY <1>1 DEF RInv, SlotClaimed, TypeOK
<1>3. /\ QueueObjects' = [QueueObjects EXCEPT ![iSlot[t]] = msg[t]]
      /\ TypeClasses' = [TypeClasses EXCEPT ![iSlot[t]] = msg[t].class]
      /\ UNCHANGED <<iNextPut, iNextGet>>
  BY DEF CopyIn
<1>4. /\ PutDone = iNextPut - 1 /\ PutDone' = iNextPut
      /\ GetDone = iNextGet /\ GetDone' = iNextGet
  BY <1>1, <1>3 DEF PutDone, GetDone, CritSteps
<1>5. PutDone - GetDone \in Nat /\ iNextPut <= iNextGet + nMax
  BY QueueLength
<1>6. QED
  BY <1>2, <1>3, <1>4, <1>5

(* The copy into a slot puts the message at the end of the queue: the slot  *)
(* is none of those that hold a message.                                    *)
LEMMA CopyInAppends ==
  ASSUME RInv, RInv', NEW t \in Threads, CopyIn(t)
  PROVE  Queued' = Append(Queued, msg[t]) /\ Len(Queued) < nMax
<1>1. TypeOK
  BY DEF RInv, IInv
<1>2. /\ iNextPut \in Nat /\ iNextGet \in Nat /\ nMax \in Nat \ {0}
      /\ iNextPut >= 1 /\ iSlot[t] = (iNextPut - 1) % nMax
      /\ QueueObjects \in [Slots -> Messages \union {NoMsg}]
      /\ msg[t] \in Messages \union {NoMsg}
  BY <1>1, CopyInMoves, MailboxAssumption DEF TypeOK, MailboxAssumption
<1>3. QueueObjects' = [QueueObjects EXCEPT ![iSlot[t]] = msg[t]]
  BY CopyInMoves
<1>4. /\ PutDone = iNextPut - 1 /\ PutDone' = iNextPut
      /\ GetDone = iNextGet /\ GetDone' = iNextGet
  BY CopyInMoves
<1>5. PutDone - GetDone \in Nat /\ iNextPut <= iNextGet + nMax
  BY CopyInMoves
<1> DEFINE n == PutDone - GetDone
<1>6. n \in Nat /\ n = iNextPut - 1 - iNextGet /\ n < nMax /\ PutDone' - GetDone' = n + 1
  BY <1>2, <1>4, <1>5
<1>7. /\ Queued \in Seq(Messages \union {NoMsg}) /\ Len(Queued) = n
      /\ \A k \in 1 .. n : Queued[k] = QueueObjects[(iNextGet + k - 1) % nMax]
  BY <1>4, QueueIsSeq DEF QueueShape
<1>8. /\ Queued' \in Seq(Messages \union {NoMsg}) /\ Len(Queued') = n + 1
      /\ \A k \in 1 .. n + 1 : Queued'[k] = QueueObjects'[(iNextGet + k - 1) % nMax]
  <2>1. /\ Queued' \in Seq(Messages \union {NoMsg})
        /\ Len(Queued') = PutDone' - GetDone'
        /\ \A k \in 1 .. PutDone' - GetDone' :
             Queued'[k] = QueueObjects'[(GetDone' + k - 1) % nMax]
    BY QueueStaysSeq DEF QueueShape
  <2>2. QED
    BY <1>4, <1>6, <2>1
<1> HIDE DEF n
<1>9. ASSUME NEW k \in 1 .. n + 1
      PROVE  Queued'[k] = IF k = n + 1 THEN msg[t] ELSE Queued[k]
  <2>1. /\ iNextGet + k - 1 \in Nat /\ (iNextGet + k - 1) % nMax \in Slots
        /\ iSlot[t] \in Slots
    BY <1>1, <1>2, <1>6, DivMod DEF Slots, TypeOK
  <2>2. CASE k = n + 1
    <3>1. iNextGet + k - 1 = iNextPut - 1
      BY <1>2, <1>6, <2>2
    <3>2. QED
      BY <1>2, <1>3, <1>8, <2>1, <2>2, <3>1
  <2>3. CASE k # n + 1
    <3>1. /\ k \in 1 .. n /\ iNextPut - 1 \in Nat
          /\ iNextGet + k - 1 < iNextPut - 1
          /\ iNextPut - 1 < (iNextGet + k - 1) + nMax
      BY <1>2, <1>6, <2>3
    <3>2. (iNextGet + k - 1) % nMax # iSlot[t]
      BY <1>2, <2>1, <3>1, SlotsDiffer
    <3>3. QED
      BY <1>2, <1>3, <1>7, <1>8, <2>1, <2>3, <3>1, <3>2
  <2>4. QED
    BY <2>2, <2>3
<1>10. /\ Append(Queued, msg[t]) \in Seq(Messages \union {NoMsg})
       /\ Len(Append(Queued, msg[t])) = n + 1
       /\ \A k \in 1 .. n : Append(Queued, msg[t])[k] = Queued[k]
       /\ Append(Queued, msg[t])[n + 1] = msg[t]
  BY <1>2, <1>6, <1>7, AppendProperties
<1>11. \A k \in 1 .. n + 1 : Queued'[k] = Append(Queued, msg[t])[k]
  BY <1>6, <1>9, <1>10
<1>12. Queued' = Append(Queued, msg[t])
  BY <1>8, <1>10, <1>11, SeqEqual
<1>13. QED
  BY <1>6, <1>7, <1>12

(* What the copy out of a slot does to the counters and the slots.          *)
LEMMA CopyOutMoves ==
  ASSUME RInv, NEW t \in Threads, CopyOut(t)
  PROVE  /\ PutDone = iNextPut /\ PutDone' = iNextPut
         /\ GetDone = iNextGet - 1 /\ GetDone' = iNextGet
         /\ iNextPut \in Nat /\ iNextGet \in Nat /\ iNextGet >= 1
         /\ iSlot[t] = (iNextGet - 1) % nMax /\ iSlot[t] \in Slots
         /\ UNCHANGED QueueObjects
         /\ TypeClasses' = [TypeClasses EXCEPT ![iSlot[t]] = 0]
         /\ PutDone - GetDone \in Nat \ {0}
<1>1. /\ pc[t] = "getCopy" /\ pc'[t] = "getLeave" /\ TypeOK
      /\ \A u \in Threads \ {t} : pc[u] \notin CritSteps /\ pc'[u] = pc[u]
  BY DEF RInv, IInv, Mutex, CopyOut, Goto, CritSteps, TypeOK
<1>2. /\ iNextPut \in Nat /\ iNextGet \in Nat /\ iNextGet >= 1
      /\ iSlot[t] = (iNextGet - 1) % nMax /\ iSlot[t] \in Slots
  BY <1>1 DEF RInv, SlotClaimed, TypeOK
<1>3. /\ UNCHANGED <<iNextPut, iNextGet, QueueObjects>>
      /\ TypeClasses' = [TypeClasses EXCEPT ![iSlot[t]] = 0]
  BY DEF CopyOut
<1>4. /\ PutDone = iNextPut /\ PutDone' = iNextPut
      /\ GetDone = iNextGet - 1 /\ GetDone' = iNextGet
  BY <1>1, <1>3 DEF PutDone, GetDone, CritSteps
<1>5. PutDone - GetDone \in Nat \ {0}
  BY <1>2, <1>4, QueueLength
<1>6. QED
  BY <1>2, <1>3, <1>4, <1>5

(* The copy out of a slot takes the message at the head of the queue.       *)
LEMMA CopyOutTakes ==
  ASSUME RInv, RInv', NEW t \in Threads, CopyOut(t)
  PROVE  /\ Queued # << >> /\ Queued' = Tail(Queued)
         /\ QueueObjects[iSlot[t]] = Head(Queued)
<1>2. /\ iNextPut \in Nat /\ iNextGet \in Nat
      /\ iNextGet >= 1 /\ iSlot[t] = (iNextGet - 1) % nMax
  BY CopyOutMoves
<1>3. UNCHANGED QueueObjects
  BY CopyOutMoves
<1>4. /\ PutDone = iNextPut /\ PutDone' = iNextPut
      /\ GetDone = iNextGet - 1 /\ GetDone' = iNextGet
  BY CopyOutMoves
<1>5. PutDone - GetDone \in Nat \ {0}
  BY CopyOutMoves
<1> DEFINE n == PutDone - GetDone
<1>6. n \in Nat \ {0} /\ n = iNextPut - iNextGet + 1 /\ PutDone' - GetDone' = n - 1
  BY <1>2, <1>4, <1>5
<1>7. /\ Queued \in Seq(Messages \union {NoMsg}) /\ Len(Queued) = n
      /\ \A k \in 1 .. n : Queued[k] = QueueObjects[(GetDone + k - 1) % nMax]
  BY QueueIsSeq DEF QueueShape
<1>8. /\ Queued' \in Seq(Messages \union {NoMsg}) /\ Len(Queued') = n - 1
      /\ \A k \in 1 .. n - 1 : Queued'[k] = QueueObjects[(iNextGet + k - 1) % nMax]
  <2>1. /\ Queued' \in Seq(Messages \union {NoMsg})
        /\ Len(Queued') = PutDone' - GetDone'
        /\ \A k \in 1 .. PutDone' - GetDone' :
             Queued'[k] = QueueObjects'[(GetDone' + k - 1) % nMax]
    BY QueueStaysSeq DEF QueueShape
  <2>2. QED
    BY <1>3, <1>4, <1>6, <2>1
<1> HIDE DEF n
<1>9. Queued # << >>
  BY <1>6, <1>7, EmptySeq
<1>10. /\ Head(Queued) = Queued[1] /\ Tail(Queued) \in Seq(Messages \union {NoMsg})
       /\ Len(Tail(Queued)) = n - 1
       /\ \A k \in 1 .. n - 1 : Tail(Queued)[k] = Queued[k + 1]
  BY <1>7, <1>9, HeadTailProperties
<1>11. QueueObjects[iSlot[t]] = Head(Queued)
  <2>1. GetDone + 1 - 1 = iNextGet - 1 /\ 1 \in 1 .. n
    BY <1>2, <1>4, <1>6
  <2>2. QED
    BY <1>2, <1>7, <1>10, <2>1
<1>12. ASSUME NEW k \in 1 .. n - 1 PROVE Queued'[k] = Tail(Queued)[k]
  <2>1. k + 1 \in 1 .. n /\ GetDone + (k + 1) - 1 = iNextGet + k - 1
    BY <1>2, <1>4, <1>6
  <2>2. QED
    BY <1>7, <1>8, <1>10, <2>1
<1>13. Queued' = Tail(Queued)
  BY <1>8, <1>10, <1>12, SeqEqual
<1>14. QED
  BY <1>9, <1>11, <1>13

(* A thread that waits for a permit is none of those that hold one, and     *)
(* each of these is inside a call.                                          *)
LEMMA HoldersAreOthers ==
  ASSUME NEW t \in Threads, pc[t] \in {"putWait", "getWait"}
  PROVE  /\ Cardinality(Holders) <= Cardinality(Channel!Others(t))
         /\ Cardinality(Holders) \in Nat /\ Cardinality(Channel!Others(t)) \in Nat
<1>1. Holders \subseteq Channel!Others(t)
  <2>1. ASSUME NEW u \in Holders PROVE u \in Channel!Others(t)
    <3>1. /\ u \in Threads \ {t}
          /\ pc[u] \in (PostSteps \union PendSteps) \ {"putWait", "getWait"}
      BY <2>1 DEF Holders, At
    <3>2. Stage(u) # "idle"
      BY <3>1 DEF Stage, PostSteps, PendSteps
    <3>3. Calls[u] # Channel!Idle
      BY <3>1, <3>2 DEF Calls, Channel!Idle
    <3>4. QED
      BY <3>1, <3>3 DEF Calls, Channel!Others
  <2>2. QED
    BY <2>1
<1>2. Channel!Others(t) \subseteq Threads
  BY DEF Channel!Others
<1>3. IsFiniteSet(Channel!Others(t))
  BY <1>2, MailboxAssumption, FS_Subset DEF MailboxAssumption
<1>4. QED
  BY <1>1, <1>3, FS_Subset, FS_CardinalityType

(* Cardinality is the same operator in both modules.                        *)
LEMMA SameCardinality ==
  ASSUME NEW S
  PROVE  Channel!Cardinality(S) = Cardinality(S)
BY DEF Channel!Cardinality, Cardinality

(* A step of a post is a step of the channel, or none.                      *)
LEMMA PostImplements ==
  ASSUME RInv, RInv', NEW t \in Threads, Post(t)
  PROVE  [Channel!CNext]_Channel!cvars
<1>1. TypeOK
  BY DEF RInv, IInv
<1>2. CASE BeginPost(t)
  <2>1. PICK m \in Messages : msg' = [msg EXCEPT ![t] = m]
    <3>1. nPosts + 1 \in 1 .. MaxPosts
      BY <1>1, <1>2, MailboxAssumption DEF BeginPost, TypeOK, MailboxAssumption
    <3>2. \A c \in Classes : [id |-> nPosts + 1, class |-> c] \in Messages
      BY <3>1 DEF Messages
    <3>3. QED
      BY <1>2, <3>2 DEF BeginPost
  <2>3. Goto(t, "idle", "putWait") /\ msg[t] = NoMsg
    BY <1>2 DEF BeginPost, RInv, EmptyHanded, Goto
  <2>4. /\ Calls[t] = [at |-> "idle", msg |-> NoMsg]
        /\ Calls' = [Calls EXCEPT ![t] = [at |-> "posting", msg |-> m]]
    <3>1. Carries(t, m)
      BY <2>1 DEF Carries
    <3>2. Was(t, StageOf("idle")) /\ Becomes(t, StageOf("putWait"), m)
      BY <1>1, <2>1, <2>3, <3>1, CallMoves
    <3>3. StageOf("idle") = "idle" /\ StageOf("putWait") = "posting"
      BY DEF StageOf
    <3>4. QED
      BY <3>2, <3>3, <2>3 DEF Was, Becomes
  <2>5. UNCHANGED Queued
    BY <1>1, <1>2, <2>3, QueueRests DEF BeginPost, ring
  <2>6. Channel!BeginPost(t, m)
    BY <2>4, <2>5 DEF Channel!BeginPost, Channel!Idle, Calls
  <2>7. QED
    BY <2>6 DEF Channel!CNext
<1>3. CASE PutTimeout(t)
  <2>1. /\ Goto(t, "putWait", "idle") /\ msg' = [msg EXCEPT ![t] = NoMsg]
        /\ hSemPut = 0 /\ pc[t] = "putWait"
    BY <1>3 DEF PutTimeout, Goto
  <2>2. /\ Calls[t] = [at |-> "posting", msg |-> msg[t]]
        /\ Calls' = [Calls EXCEPT ![t] = [at |-> "idle", msg |-> NoMsg]]
    <3>1. Carries(t, NoMsg)
      BY <2>1 DEF Carries
    <3>2. Was(t, StageOf("putWait")) /\ Becomes(t, StageOf("idle"), NoMsg)
      BY <1>1, <2>1, <3>1, CallMoves
    <3>3. StageOf("putWait") = "posting" /\ StageOf("idle") = "idle"
      BY DEF StageOf
    <3>4. QED
      BY <3>2, <3>3, <2>1 DEF Was, Becomes
  <2>3. UNCHANGED Queued
    BY <1>1, <1>3, <2>1, QueueRests DEF PutTimeout, ring
  <2>4. nMax <= Len(Queued) + Cardinality(Channel!Others(t))
    <3>1. hSemGet + Cardinality(Holders) = nMax /\ hSemGet \in Nat
      BY <1>1, <2>1, HoldersAreOthers DEF RInv, IInv, PermitsConserved, TypeOK
    <3>2. hSemGet <= Len(Queued) /\ Len(Queued) \in Nat
      BY QueueLength, QueueIsSeq DEF QueueShape
    <3>3. QED
      BY <2>1, <3>1, <3>2, HoldersAreOthers
  <2>5. Channel!PostTimesOut(t)
    BY <2>2, <2>3, <2>4, SameCardinality DEF Channel!PostTimesOut, Channel!Idle, Calls
  <2>6. QED
    BY <2>5 DEF Channel!CNext
<1>4. CASE CopyIn(t)
  <2>1. Goto(t, "putCopy", "putLeave") /\ msg' = [msg EXCEPT ![t] = msg[t]]
    BY <1>1, <1>4 DEF CopyIn, TypeOK, locals
  <2>2. /\ Calls[t] = [at |-> "posting", msg |-> msg[t]]
        /\ Calls' = [Calls EXCEPT ![t] = [at |-> "posted", msg |-> msg[t]]]
    <3>1. Carries(t, msg[t])
      BY <2>1 DEF Carries
    <3>2. Was(t, StageOf("putCopy")) /\ Becomes(t, StageOf("putLeave"), msg[t])
      BY <1>1, <2>1, <3>1, CallMoves
    <3>3. StageOf("putCopy") = "posting" /\ StageOf("putLeave") = "posted"
      BY DEF StageOf
    <3>4. QED
      BY <3>2, <3>3, <2>1 DEF Was, Becomes
  <2>3. Calls' = [Calls EXCEPT ![t].at = "posted"]
    BY <2>2 DEF Calls
  <2>4. Queued' = Append(Queued, Calls[t].msg) /\ Len(Queued) < nMax
    BY <1>4, <2>2, CopyInAppends
  <2>5. Channel!Put(t)
    BY <2>2, <2>3, <2>4 DEF Channel!Put, Calls
  <2>6. QED
    BY <2>5 DEF Channel!CNext
<1>5. CASE ReleaseGet(t)
  <2>1. Goto(t, "putRelease", "idle") /\ msg' = [msg EXCEPT ![t] = NoMsg]
    BY <1>5 DEF ReleaseGet
  <2>2. /\ Calls[t] = [at |-> "posted", msg |-> msg[t]]
        /\ Calls' = [Calls EXCEPT ![t] = [at |-> "idle", msg |-> NoMsg]]
    <3>1. Carries(t, NoMsg)
      BY <2>1 DEF Carries
    <3>2. Was(t, StageOf("putRelease")) /\ Becomes(t, StageOf("idle"), NoMsg)
      BY <1>1, <2>1, <3>1, CallMoves
    <3>3. StageOf("putRelease") = "posted" /\ StageOf("idle") = "idle"
      BY DEF StageOf
    <3>4. QED
      BY <3>2, <3>3, <2>1 DEF Was, Becomes
  <2>3. UNCHANGED Queued
    BY <1>1, <1>5, <2>1, QueueRests DEF ReleaseGet, ring
  <2>4. Channel!Return(t)
    BY <2>2, <2>3 DEF Channel!Return, Channel!Idle, Calls
  <2>5. QED
    BY <2>4 DEF Channel!CNext
<1>6. CASE \/ AcquirePut(t) \/ EnterCriticalSection(t, "putEnter", "putSlot")
           \/ LeaveCriticalSection(t, "putLeave", "putRelease")
  <2>1. \/ Goto(t, "putWait", "putEnter") \/ Goto(t, "putEnter", "putSlot")
        \/ Goto(t, "putLeave", "putRelease")
    BY <1>6 DEF AcquirePut, EnterCriticalSection, LeaveCriticalSection
  <2>2. UNCHANGED <<iNextPut, iNextGet, QueueObjects, msg>>
    BY <1>6 DEF AcquirePut, EnterCriticalSection, LeaveCriticalSection, ring, locals
  <2>3. UNCHANGED Queued
    BY <1>1, <2>1, <2>2, QueueRests
  <2>4. UNCHANGED Calls
    BY <1>1, <2>1, <2>2, CallRests DEF StageOf
  <2>5. QED
    BY <2>3, <2>4 DEF Channel!cvars, Calls
<1>7. CASE ClaimPutSlot(t)
  <2>1. Goto(t, "putSlot", "putCopy") /\ UNCHANGED msg
    BY <1>7 DEF ClaimPutSlot
  <2>2. UNCHANGED Calls
    BY <1>1, <2>1, CallRests DEF StageOf
  <2>3. QED
    BY <1>7, <2>2, ClaimRests DEF Channel!cvars, Calls
<1>8. QED
  BY <1>2, <1>3, <1>4, <1>5, <1>6, <1>7 DEF Post

(* A step of a pend is a step of the channel, or none.                      *)
LEMMA PendImplements ==
  ASSUME RInv, RInv', NEW t \in Threads, Pend(t)
  PROVE  [Channel!CNext]_Channel!cvars
<1>1. TypeOK
  BY DEF RInv, IInv
<1>2. CASE BeginPend(t)
  <2>1. /\ Goto(t, "idle", "getWait") /\ msg[t] = NoMsg
        /\ msg' = [msg EXCEPT ![t] = NoMsg]
    BY <1>1, <1>2 DEF BeginPend, RInv, EmptyHanded, Goto, TypeOK, locals
  <2>2. /\ Calls[t] = [at |-> "idle", msg |-> NoMsg]
        /\ Calls' = [Calls EXCEPT ![t] = [at |-> "pending", msg |-> NoMsg]]
    <3>1. Carries(t, NoMsg)
      BY <2>1 DEF Carries
    <3>2. Was(t, StageOf("idle")) /\ Becomes(t, StageOf("getWait"), NoMsg)
      BY <1>1, <2>1, <3>1, CallMoves
    <3>3. StageOf("idle") = "idle" /\ StageOf("getWait") = "pending"
      BY DEF StageOf
    <3>4. QED
      BY <3>2, <3>3, <2>1 DEF Was, Becomes
  <2>3. Calls' = [Calls EXCEPT ![t].at = "pending"]
    BY <2>1, <2>2 DEF Calls
  <2>4. UNCHANGED Queued
    BY <1>1, <1>2, <2>1, QueueRests DEF BeginPend, ring
  <2>5. Channel!BeginPend(t)
    BY <2>2, <2>3, <2>4 DEF Channel!BeginPend, Channel!Idle, Calls
  <2>6. QED
    BY <2>5 DEF Channel!CNext
<1>3. CASE GetTimeout(t)
  <2>1. /\ Goto(t, "getWait", "idle") /\ hSemGet = 0 /\ pc[t] = "getWait"
        /\ msg[t] = NoMsg /\ msg' = [msg EXCEPT ![t] = NoMsg]
    BY <1>1, <1>3 DEF GetTimeout, RInv, EmptyHanded, Goto, TypeOK, locals
  <2>2. /\ Calls[t] = [at |-> "pending", msg |-> msg[t]]
        /\ Calls' = [Calls EXCEPT ![t] = [at |-> "idle", msg |-> NoMsg]]
    <3>1. Carries(t, NoMsg)
      BY <2>1 DEF Carries
    <3>2. Was(t, StageOf("getWait")) /\ Becomes(t, StageOf("idle"), NoMsg)
      BY <1>1, <2>1, <3>1, CallMoves
    <3>3. StageOf("getWait") = "pending" /\ StageOf("idle") = "idle"
      BY DEF StageOf
    <3>4. QED
      BY <3>2, <3>3, <2>1 DEF Was, Becomes
  <2>3. UNCHANGED Queued
    BY <1>1, <1>3, <2>1, QueueRests DEF GetTimeout, ring
  <2>4. Len(Queued) <= Cardinality(Channel!Others(t))
    <3>1. Len(Queued) <= Cardinality(Holders) /\ Len(Queued) \in Nat
      BY <2>1, QueueLength, QueueIsSeq, HoldersAreOthers DEF QueueShape
    <3>2. QED
      BY <2>1, <3>1, HoldersAreOthers
  <2>5. Channel!PendTimesOut(t)
    BY <2>2, <2>3, <2>4, SameCardinality DEF Channel!PendTimesOut, Channel!Idle, Calls
  <2>6. QED
    BY <2>5 DEF Channel!CNext
<1>4. CASE CopyOut(t)
  <2>1. /\ Goto(t, "getCopy", "getLeave")
        /\ msg' = [msg EXCEPT ![t] = QueueObjects[iSlot[t]]]
    BY <1>4 DEF CopyOut
  <2>2. /\ Calls[t] = [at |-> "pending", msg |-> msg[t]]
        /\ Calls' = [Calls EXCEPT ![t] = [at |-> "popped", msg |-> QueueObjects[iSlot[t]]]]
    <3>1. Carries(t, QueueObjects[iSlot[t]])
      BY <2>1 DEF Carries
    <3>2. Was(t, StageOf("getCopy")) /\ Becomes(t, StageOf("getLeave"), QueueObjects[iSlot[t]])
      BY <1>1, <2>1, <3>1, CallMoves
    <3>3. StageOf("getCopy") = "pending" /\ StageOf("getLeave") = "popped"
      BY DEF StageOf
    <3>4. QED
      BY <3>2, <3>3, <2>1 DEF Was, Becomes
  <2>3. /\ Queued # << >> /\ Queued' = Tail(Queued)
        /\ QueueObjects[iSlot[t]] = Head(Queued)
    BY <1>4, CopyOutTakes
  <2>4. Channel!Take(t)
    BY <2>2, <2>3 DEF Channel!Take, Calls
  <2>5. QED
    BY <2>4 DEF Channel!CNext
<1>5. CASE ReleasePut(t)
  <2>1. Goto(t, "getRelease", "idle") /\ msg' = [msg EXCEPT ![t] = NoMsg]
    BY <1>5 DEF ReleasePut
  <2>2. /\ Calls[t] = [at |-> "popped", msg |-> msg[t]]
        /\ Calls' = [Calls EXCEPT ![t] = [at |-> "idle", msg |-> NoMsg]]
    <3>1. Carries(t, NoMsg)
      BY <2>1 DEF Carries
    <3>2. Was(t, StageOf("getRelease")) /\ Becomes(t, StageOf("idle"), NoMsg)
      BY <1>1, <2>1, <3>1, CallMoves
    <3>3. StageOf("getRelease") = "popped" /\ StageOf("idle") = "idle"
      BY DEF StageOf
    <3>4. QED
      BY <3>2, <3>3, <2>1 DEF Was, Becomes
  <2>3. UNCHANGED Queued
    BY <1>1, <1>5, <2>1, QueueRests DEF ReleasePut, ring
  <2>4. Channel!Return(t)
    BY <2>2, <2>3 DEF Channel!Return, Channel!Idle, Calls
  <2>5. QED
    BY <2>4 DEF Channel!CNext
<1>6. CASE \/ AcquireGet(t) \/ EnterCriticalSection(t, "getEnter", "getSlot")
           \/ LeaveCriticalSection(t, "getLeave", "getRelease")
  <2>1. \/ Goto(t, "getWait", "getEnter") \/ Goto(t, "getEnter", "getSlot")
        \/ Goto(t, "getLeave", "getRelease")
    BY <1>6 DEF AcquireGet, EnterCriticalSection, LeaveCriticalSection
  <2>2. UNCHANGED <<iNextPut, iNextGet, QueueObjects, msg>>
    BY <1>6 DEF AcquireGet, EnterCriticalSection, LeaveCriticalSection, ring, locals
  <2>3. UNCHANGED Queued
    BY <1>1, <2>1, <2>2, QueueRests
  <2>4. UNCHANGED Calls
    BY <1>1, <2>1, <2>2, CallRests DEF StageOf
  <2>5. QED
    BY <2>3, <2>4 DEF Channel!cvars, Calls
<1>7. CASE ClaimGetSlot(t)
  <2>1. Goto(t, "getSlot", "getCopy") /\ UNCHANGED msg
    BY <1>7 DEF ClaimGetSlot
  <2>2. UNCHANGED Calls
    BY <1>1, <2>1, CallRests DEF StageOf
  <2>3. QED
    BY <1>7, <2>2, ClaimRests DEF Channel!cvars, Calls
<1>8. QED
  BY <1>2, <1>3, <1>4, <1>5, <1>6, <1>7 DEF Pend

(* SLAMbxPost and SLAMbxPend implement a bounded first-in first-out channel *)
(* (SLAHal.h 176-194), whatever calls run concurrently.                     *)
THEOREM MailboxIsChannel == Spec => ImplementsChannel
<1>1. Init => Channel!CInit
  <2> SUFFICES ASSUME Init PROVE Channel!CInit
    OBVIOUS
  <2>1. RInv
    BY InitIInv DEF Init, RInv, Mutex, SlotClaimed, EmptyHanded, CritSteps
  <2>2. PutDone = 0 /\ GetDone = 0
    BY DEF Init, PutDone, GetDone
  <2>3. Queued = << >>
    BY <2>1, <2>2, QueueIsSeq, EmptySeq DEF QueueShape
  <2>4. Calls = [t \in Threads |-> Channel!Idle]
    BY DEF Init, Calls, Stage, Channel!Idle
  <2>5. QED
    BY <2>3, <2>4 DEF Channel!CInit, Calls
<1>2. RInv /\ RInv' /\ [Next]_vars => [Channel!CNext]_Channel!cvars
  <2> SUFFICES ASSUME RInv, RInv', [Next]_vars
               PROVE  [Channel!CNext]_Channel!cvars
    OBVIOUS
  <2>1. CASE UNCHANGED vars
    BY <2>1 DEF vars, ring, locals, Channel!cvars, Queued, PutDone, GetDone, Stage
  <2>2. QED
    BY <2>1, PostImplements, PendImplements DEF Next
<1>3. QED
  BY <1>1, <1>2, RefinementInvariant, PTL DEF Spec, ImplementsChannel, Channel!CSpec
-------------------------------------------------------------------------------
(* SLAMbxCount                                                              *)

(* The slot of the k-th message in the mailbox.                             *)
SlotOf(k) == (GetDone + k - 1) % nMax

(* A slot has the class of the message in it, if it holds one, and none     *)
(* otherwise: the copies move the message and the class of a slot together. *)
ClassesKept ==
  /\ \A k \in 1 .. PutDone - GetDone :
       TypeClasses[SlotOf(k)] = QueueObjects[SlotOf(k)].class
  /\ \A s \in Slots :
       TypeClasses[s] # 0 => \E k \in 1 .. PutDone - GetDone : s = SlotOf(k)

(* The messages are in different slots of the ring.                         *)
LEMMA SlotsOfMessages ==
  ASSUME RInv
  PROVE  /\ \A k \in 1 .. PutDone - GetDone : SlotOf(k) \in Slots
         /\ \A j, k \in 1 .. PutDone - GetDone : SlotOf(j) = SlotOf(k) => j = k
<1> DEFINE n == PutDone - GetDone
<1>1. n \in Nat /\ GetDone \in Nat /\ nMax \in Nat \ {0} /\ n <= nMax
  <2>1. /\ n \in Nat /\ GetDone \in Nat /\ n <= hSemGet + Cardinality(Holders)
        /\ Cardinality(Holders) \in Nat
    BY QueueLength, HoldersCounted
  <2>2. /\ nMax \in Nat \ {0} /\ hSemPut \in Nat /\ hSemGet \in Nat
        /\ hSemPut + hSemGet + Cardinality(Holders) = nMax
    BY MailboxAssumption DEF RInv, IInv, TypeOK, PermitsConserved, MailboxAssumption
  <2> HIDE DEF n
  <2>3. QED
    BY <2>1, <2>2
<1> HIDE DEF n
<1>2. ASSUME NEW k \in 1 .. n PROVE SlotOf(k) \in Slots
  BY <1>1, DivMod DEF SlotOf, Slots
<1>3. ASSUME NEW j \in 1 .. n, NEW k \in 1 .. n, j < k
      PROVE  SlotOf(j) # SlotOf(k)
  <2> DEFINE a == GetDone + j - 1
             b == GetDone + k - 1
  <2>1. a \in Nat /\ b \in Nat /\ a < b /\ b < a + nMax
    BY <1>1, <1>3
  <2> HIDE DEF a, b
  <2>2. a % nMax # b % nMax
    BY <1>1, <2>1, SlotsDiffer
  <2>3. QED
    BY <2>2 DEF SlotOf, a, b
<1>4. ASSUME NEW j \in 1 .. n, NEW k \in 1 .. n, SlotOf(j) = SlotOf(k)
      PROVE  j = k
  <2>1. j < k \/ k < j \/ j = k
    OBVIOUS
  <2>2. QED
    BY <1>3, <1>4, <2>1
<1>5. QED
  BY <1>2, <1>4 DEF n

(* A step that moves no message and changes no class.                       *)
LEMMA ClassesRest ==
  ASSUME ClassesKept, UNCHANGED <<PutDone, GetDone, QueueObjects, TypeClasses>>
  PROVE  ClassesKept'
<1>1. \A k : SlotOf(k)' = SlotOf(k)
  BY DEF SlotOf
<1>2. QED
  BY <1>1 DEF ClassesKept

(* The copy into a slot gives it the class of the message, which is the     *)
(* last one now.                                                            *)
LEMMA ClassesAfterCopyIn ==
  ASSUME RInv, ClassesKept, NEW t \in Threads, CopyIn(t)
  PROVE  ClassesKept'
<1>1. /\ PutDone = iNextPut - 1 /\ PutDone' = iNextPut
      /\ GetDone = iNextGet /\ GetDone' = iNextGet
      /\ iSlot[t] = (iNextPut - 1) % nMax
      /\ iNextPut \in Nat /\ iNextGet \in Nat
      /\ PutDone - GetDone \in Nat
      /\ iSlot[t] \in Slots
      /\ QueueObjects' = [QueueObjects EXCEPT ![iSlot[t]] = msg[t]]
      /\ TypeClasses' = [TypeClasses EXCEPT ![iSlot[t]] = msg[t].class]
  BY CopyInMoves
<1> DEFINE n == PutDone - GetDone
<1>2. PutDone' - GetDone' = n + 1 /\ n \in Nat
  BY <1>1
<1>3. \A k : SlotOf(k)' = SlotOf(k)
  BY <1>1 DEF SlotOf
<1>4. SlotOf(n + 1) = iSlot[t]
  <2>1. GetDone + (n + 1) - 1 = iNextPut - 1
    BY <1>1
  <2>2. QED
    BY <1>1, <2>1 DEF SlotOf
<1>5. \A k \in 1 .. n : SlotOf(k) \in Slots /\ SlotOf(k) # iSlot[t]
  <2> SUFFICES ASSUME NEW k \in 1 .. n PROVE SlotOf(k) \in Slots /\ SlotOf(k) # iSlot[t]
    OBVIOUS
  <2>1. SlotOf(k) \in Slots
    BY SlotsOfMessages
  <2>2. /\ GetDone + k - 1 \in Nat /\ iNextPut - 1 \in Nat
        /\ GetDone + k - 1 < iNextPut - 1
        /\ iNextPut - 1 < (GetDone + k - 1) + nMax
        /\ nMax \in Nat \ {0}
    BY <1>1, QueueLength, MailboxAssumption DEF MailboxAssumption
  <2>3. (GetDone + k - 1) % nMax # (iNextPut - 1) % nMax
    BY <2>2, SlotsDiffer
  <2>4. QED
    BY <1>1, <2>1, <2>3 DEF SlotOf
<1>6. /\ QueueObjects \in [Slots -> Messages \union {NoMsg}]
      /\ TypeClasses \in [Slots -> Classes \union {0}]
  BY DEF RInv, IInv, TypeOK
<1> HIDE DEF n
<1>7. ASSUME NEW k \in 1 .. n + 1
      PROVE  TypeClasses'[SlotOf(k)] = QueueObjects'[SlotOf(k)].class
  <2>1. CASE k = n + 1
    BY <1>1, <1>4, <1>6, <2>1
  <2>2. CASE k # n + 1
    <3>1. k \in 1 .. n
      BY <1>2, <2>2
    <3>2. TypeClasses[SlotOf(k)] = QueueObjects[SlotOf(k)].class
      BY <3>1 DEF ClassesKept, n
    <3>3. QED
      BY <1>1, <1>5, <1>6, <3>1, <3>2
  <2>3. QED
    BY <2>1, <2>2
<1>8. ASSUME NEW s \in Slots, TypeClasses'[s] # 0
      PROVE  \E k \in 1 .. n + 1 : s = SlotOf(k)
  <2>1. CASE s = iSlot[t]
    <3>1. n + 1 \in 1 .. n + 1
      BY <1>2
    <3>2. QED
      BY <1>4, <2>1, <3>1
  <2>2. CASE s # iSlot[t]
    <3>1. TypeClasses[s] # 0
      BY <1>1, <1>6, <1>8, <2>2
    <3>2. PICK k \in 1 .. n : s = SlotOf(k)
      BY <3>1 DEF ClassesKept, n
    <3>3. k \in 1 .. n + 1
      BY <1>2
    <3>4. QED
      BY <3>2, <3>3
  <2>3. QED
    BY <2>1, <2>2
<1>9. QED
  BY <1>2, <1>3, <1>7, <1>8 DEF ClassesKept

(* The copy out of a slot clears its class; the message was the first one.  *)
LEMMA ClassesAfterCopyOut ==
  ASSUME RInv, ClassesKept, NEW t \in Threads, CopyOut(t)
  PROVE  ClassesKept'
<1>1. /\ PutDone = iNextPut /\ PutDone' = iNextPut
      /\ GetDone = iNextGet - 1 /\ GetDone' = iNextGet
      /\ iNextPut \in Nat /\ iNextGet \in Nat /\ iNextGet >= 1
      /\ iSlot[t] = (iNextGet - 1) % nMax
      /\ iSlot[t] \in Slots
      /\ UNCHANGED QueueObjects
      /\ TypeClasses' = [TypeClasses EXCEPT ![iSlot[t]] = 0]
      /\ PutDone - GetDone \in Nat \ {0}
  BY CopyOutMoves
<1> DEFINE n == PutDone - GetDone
<1>2. PutDone' - GetDone' = n - 1 /\ n \in Nat \ {0}
  BY <1>1
<1>3. \A k \in Nat : SlotOf(k)' = SlotOf(k + 1)
  <2>1. \A k \in Nat : GetDone' + k - 1 = GetDone + (k + 1) - 1
    BY <1>1
  <2>2. QED
    BY <2>1 DEF SlotOf
<1>4. SlotOf(1) = iSlot[t]
  <2>1. GetDone + 1 - 1 = iNextGet - 1
    BY <1>1
  <2>2. QED
    BY <1>1, <2>1 DEF SlotOf
<1>5. \A j, k \in 1 .. n : /\ SlotOf(k) \in Slots
                           /\ SlotOf(j) = SlotOf(k) => j = k
  BY SlotsOfMessages
<1>6. TypeClasses \in [Slots -> Classes \union {0}]
  BY DEF RInv, IInv, TypeOK
<1>7. /\ \A k \in 1 .. n : TypeClasses[SlotOf(k)] = QueueObjects[SlotOf(k)].class
      /\ \A s \in Slots : TypeClasses[s] # 0 => \E k \in 1 .. n : s = SlotOf(k)
  BY DEF ClassesKept
<1> HIDE DEF n
<1>8. ASSUME NEW k \in 1 .. n - 1
      PROVE  TypeClasses'[SlotOf(k)'] = QueueObjects'[SlotOf(k)'].class
  <2>1. k \in Nat /\ k + 1 \in 1 .. n /\ 1 \in 1 .. n /\ k + 1 # 1
    BY <1>2
  <2>2. SlotOf(k)' = SlotOf(k + 1)
    BY <1>3, <2>1
  <2>3. SlotOf(k + 1) # iSlot[t] /\ SlotOf(k + 1) \in Slots
    BY <1>4, <1>5, <2>1
  <2>4. TypeClasses[SlotOf(k + 1)] = QueueObjects[SlotOf(k + 1)].class
    BY <1>7, <2>1
  <2>5. QED
    BY <1>1, <1>6, <2>2, <2>3, <2>4
<1>9. ASSUME NEW s \in Slots, TypeClasses'[s] # 0
      PROVE  \E k \in 1 .. n - 1 : s = SlotOf(k)'
  <2>1. s # iSlot[t] /\ TypeClasses[s] # 0
    BY <1>1, <1>6, <1>9
  <2>2. PICK k \in 1 .. n : s = SlotOf(k)
    BY <1>7, <2>1
  <2>3. k # 1
    BY <1>4, <2>1, <2>2
  <2>4. k - 1 \in 1 .. n - 1 /\ k - 1 \in Nat /\ (k - 1) + 1 = k
    BY <1>2, <2>3
  <2>5. SlotOf(k - 1)' = SlotOf(k)
    BY <1>3, <2>4
  <2>6. QED
    BY <2>2, <2>4, <2>5
<1>10. QED
  BY <1>2, <1>8, <1>9 DEF ClassesKept

Elsewhere == ({"idle"} \union PostSteps \union PendSteps) \ {"putCopy", "getCopy"}

(* Every other step leaves the queue and the classes alone.                 *)
LEMMA ClassesStep ==
  ASSUME RInv, ClassesKept, NEW t \in Threads, Post(t) \/ Pend(t)
  PROVE  ClassesKept'
<1>1. TypeOK
  BY DEF RInv, IInv
<1>2. CASE CopyIn(t)
  BY <1>2, ClassesAfterCopyIn
<1>3. CASE CopyOut(t)
  BY <1>3, ClassesAfterCopyOut
<1>4. CASE ClaimPutSlot(t) \/ ClaimGetSlot(t)
  <2>1. UNCHANGED <<QueueObjects, TypeClasses>>
    BY <1>4 DEF ClaimPutSlot, ClaimGetSlot
  <2>2. UNCHANGED <<PutDone, GetDone>>
    BY <1>4, ClaimRests
  <2>3. QED
    BY <2>1, <2>2, ClassesRest
<1>5. CASE \/ BeginPost(t) \/ AcquirePut(t) \/ PutTimeout(t) \/ ReleaseGet(t)
           \/ BeginPend(t) \/ AcquireGet(t) \/ GetTimeout(t) \/ ReleasePut(t)
           \/ EnterCriticalSection(t, "putEnter", "putSlot")
           \/ EnterCriticalSection(t, "getEnter", "getSlot")
           \/ LeaveCriticalSection(t, "putLeave", "putRelease")
           \/ LeaveCriticalSection(t, "getLeave", "getRelease")
  <2>1. UNCHANGED ring
    BY <1>5 DEF BeginPost, AcquirePut, PutTimeout, ReleaseGet, BeginPend, AcquireGet,
                GetTimeout, ReleasePut, EnterCriticalSection, LeaveCriticalSection
  <2>2. PICK from \in Elsewhere,
             to \in Elsewhere :
          Goto(t, from, to)
    BY <1>5 DEF BeginPost, AcquirePut, PutTimeout, ReleaseGet, BeginPend, AcquireGet,
                GetTimeout, ReleasePut, EnterCriticalSection, LeaveCriticalSection,
                Elsewhere, PostSteps, PendSteps
  <2>3. UNCHANGED <<PutDone, GetDone>>
    <3>1. from \notin {"putCopy", "getCopy"} /\ to \notin {"putCopy", "getCopy"}
      BY DEF Elsewhere
    <3>2. UNCHANGED <<iNextPut, iNextGet, QueueObjects>>
      BY <2>1 DEF ring
    <3>3. QED
      BY <1>1, <2>2, <3>1, <3>2, QueueRests
  <2>4. QED
    BY <2>1, <2>3, ClassesRest DEF ring
<1>6. QED
  BY <1>2, <1>3, <1>4, <1>5 DEF Post, Pend

(* SLAMbxCount returns the number of messages of a class in the mailbox     *)
(* (SLAHal.h 196-202), whatever calls are in progress, as long as none is   *)
(* in the critical section.                                                 *)
THEOREM CountsMessages == Spec => []CountIsExact
<1>1. Init => ClassesKept
  <2> SUFFICES ASSUME Init PROVE ClassesKept
    OBVIOUS
  <2>1. PutDone = 0 /\ GetDone = 0
    BY DEF Init, PutDone, GetDone
  <2>2. QED
    BY <2>1 DEF Init, ClassesKept
<1>2. RInv /\ ClassesKept /\ [Next]_vars => ClassesKept'
  <2> SUFFICES ASSUME RInv, ClassesKept, [Next]_vars PROVE ClassesKept'
    OBVIOUS
  <2>1. CASE UNCHANGED vars
    <3>1. UNCHANGED <<PutDone, GetDone, QueueObjects, TypeClasses>>
      BY <2>1 DEF vars, ring, PutDone, GetDone
    <3>2. QED
      BY <3>1, ClassesRest
  <2>2. QED
    BY <2>1, ClassesStep DEF Next
<1>3. RInv /\ ClassesKept => CountIsExact
  <2> SUFFICES ASSUME RInv, ClassesKept, NEW c \in Classes
               PROVE  SLAMbxCount(c) =
                        Cardinality({k \in DOMAIN Queued : Queued[k].class = c})
    BY DEF CountIsExact
  <2> DEFINE Full == {s \in Slots : TypeClasses[s] = c}
             Matching == {k \in DOMAIN Queued : Queued[k].class = c}
             Place == [k \in Matching |-> SlotOf(k)]
  <2>1. /\ DOMAIN Queued = 1 .. PutDone - GetDone
        /\ \A k \in DOMAIN Queued : Queued[k] = QueueObjects[SlotOf(k)]
    BY DEF Queued, SlotOf
  <2>2. c # 0
    BY MailboxAssumption DEF MailboxAssumption
  <2>3. \A k \in Matching : SlotOf(k) \in Full
    BY <2>1, SlotsOfMessages DEF ClassesKept
  <2>4. \A j, k \in Matching : SlotOf(j) = SlotOf(k) => j = k
    BY <2>1, SlotsOfMessages
  <2>5. \A s \in Full : \E k \in Matching : SlotOf(k) = s
    BY <2>1, <2>2 DEF ClassesKept
  <2>6. IsFiniteSet(Matching)
    <3>1. PutDone - GetDone \in Nat
      BY QueueLength
    <3>2. Matching \subseteq 1 .. PutDone - GetDone /\ IsFiniteSet(1 .. PutDone - GetDone)
      BY <2>1, <3>1, FS_Interval
    <3>3. QED
      BY <3>2, FS_Subset
  <2> HIDE DEF Full, Matching
  <2>7. Place \in Bijection(Matching, Full)
    BY <2>3, <2>4, <2>5 DEF Bijection, Injection, Surjection, IsInjective
  <2>8. ExistsBijection(Matching, Full)
    BY <2>7 DEF ExistsBijection
  <2>9. Cardinality(Full) = Cardinality(Matching)
    BY <2>6, <2>8, FS_Bijection
  <2>10. QED
    BY <2>9 DEF SLAMbxCount, Full, Matching
<1>4. QED
  BY <1>1, <1>2, <1>3, RefinementInvariant, PTL DEF Spec

===============================================================================
