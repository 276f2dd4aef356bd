-------------------------- MODULE ThreadPoolProofs --------------------------
EXTENDS ThreadPoolInductive, FiniteSetTheorems, TLAPS

USE DEF CallLabels, WorkerLabels, Publishing, Published, Asleep,
        Before, Finished, Alone, shared, workers, frames, history

(* Sets of workers, and Acked above all, are counted in Nat up to the size *)
(* of the pool, and only all of the workers count for all of them.         *)
LEMMA WorkersCounted ==
  ASSUME PoolAssumption, NEW S \in SUBSET Workers
  PROVE  /\ IsFiniteSet(S)
         /\ Cardinality(S) \in Nat /\ Cardinality(Workers) \in Nat
         /\ Cardinality(S) <= Cardinality(Workers)
         /\ Cardinality(S) >= Cardinality(Workers) => S = Workers
<1>1. IsFiniteSet(Workers)
  BY DEF PoolAssumption
<1>2. /\ IsFiniteSet(S)
      /\ Cardinality(S) \in Nat /\ Cardinality(Workers) \in Nat
      /\ Cardinality(S) <= Cardinality(Workers)
      /\ Cardinality(S) = Cardinality(Workers) => S = Workers
  BY <1>1, FS_Subset, FS_CardinalityType
<1> QED
  BY <1>2

(* Those that have acknowledged are among the workers.                     *)
LEMMA AckedAreWorkers == Acked \in SUBSET Workers
BY DEF Acked

(* A share is a call and the participant that runs it.                     *)
LEMMA SharesArePairs ==
  ASSUME NEW s \in Shares
  PROVE  s[1] \in Calls /\ s[2] \in Participants /\ s = <<s[1], s[2]>>
BY DEF Shares

(* Ending a share touches one counter and one set, and leaves a share that *)
(* no unfinished call was made from.                                       *)
LEMMA EndShareTypes ==
  ASSUME Types, NEW c \in Calls, NEW p \in Participants, NEW panics \in BOOLEAN,
         EndShare(c, p, panics)
  PROVE  /\ ran' \in [Calls -> [Participants -> Nat]]
         /\ failed' \in [Calls -> SUBSET Participants]
BY DEF Types, EndShare

(* Every step of a call, of a worker or of the condition variable keeps    *)
(* the inductive invariant: one step of the proof per action, one below it *)
(* per part of the invariant.                                              *)
LEMMA Step == ASSUME PoolAssumption, IInv, Next PROVE IInv'
<1> USE DEF PoolAssumption, IInv, BorrowOutlivesUse
<1>1. ASSUME NEW c \in Calls, NEW s \in Shares \cup {None}, Enter(c, s)
      PROVE  IInv'
  <2> USE <1>1 DEF Enter, Goto, ThreadOf, InJob, OnTop
  <2>a. Acked' = Acked
    BY DEF Types, SlotStable, Acked
  <2>1. Types'
    <3>1. ThreadOf(s) \in Workers \cup {None}
      BY SharesArePairs DEF Types, Participants
    <3> QED
      BY <3>1 DEF Types
  <2>2. OnePublisher'
    BY DEF Types, OnePublisher
  <2>3. WorkersSurvive'
    BY DEF Types, WorkersSurvive, ClosureAlive
  <2>4. LockHeld'
    BY DEF Types, LockHeld
  <2>5. SlotStable'
    BY <2>a DEF Types, OnePublisher, SlotStable, Quiet, Acked
  <2>6. DoneCounts'
    BY <2>a, AckedAreWorkers, WorkersCounted DEF Types, OnePublisher, SlotStable, DoneCounts
  <2>7. RanSoFar'
    BY <2>a DEF Types, Participants, OnePublisher, SlotStable, RanSoFar, RanOf, Quiet, Acked
  <2>8. PanicsSoFar'
    BY DEF Types, Participants, OnePublisher, SlotStable, RanSoFar, RanOf, PanicsSoFar, PanicsOf, Quiet, Acked
  <2>9. NoLostWakeup'
    BY DEF Types, NoLostWakeup, LockHeld, SlotStable, Quiet, Acked
  <2>10. ClosureAlive'
    BY DEF Types, OnePublisher, SlotStable, ClosureAlive, Quiet, Acked
  <2>11. FramesNested'
    BY DEF Types, Participants, FramesNested, Active
  <2> QED BY <2>1, <2>2, <2>3, <2>4, <2>5, <2>6, <2>7, <2>8, <2>9, <2>10, <2>11
<1>2. ASSUME NEW c \in Calls, Claim(c)
      PROVE  IInv'
  <2> USE <1>2 DEF Claim, Goto
  <2>a. Acked' = Acked
    BY DEF Types, SlotStable, Acked
  <2>1. Types'
    BY DEF Types
  <2>2. OnePublisher'
    BY DEF Types, OnePublisher
  <2>3. WorkersSurvive'
    BY DEF Types, WorkersSurvive, ClosureAlive
  <2>4. LockHeld'
    BY DEF Types, LockHeld
  <2>5. SlotStable'
    BY <2>a DEF Types, OnePublisher, SlotStable, Quiet, Acked
  <2>6. DoneCounts'
    BY <2>a, AckedAreWorkers, WorkersCounted DEF Types, OnePublisher, SlotStable, DoneCounts
  <2>7. RanSoFar'
    BY <2>a DEF Types, Participants, OnePublisher, SlotStable, RanSoFar, RanOf, Quiet, Acked
  <2>8. PanicsSoFar'
    BY DEF Types, Participants, OnePublisher, SlotStable, RanSoFar, RanOf, PanicsSoFar, PanicsOf, Quiet, Acked
  <2>9. NoLostWakeup'
    BY DEF Types, NoLostWakeup, LockHeld, SlotStable, Quiet, Acked
  <2>10. ClosureAlive'
    BY DEF Types, OnePublisher, SlotStable, ClosureAlive, Quiet, Acked
  <2>11. FramesNested'
    BY DEF Types, Participants, FramesNested, Active
  <2> QED BY <2>1, <2>2, <2>3, <2>4, <2>5, <2>6, <2>7, <2>8, <2>9, <2>10, <2>11
<1>3. ASSUME NEW c \in Calls, Contended(c)
      PROVE  IInv'
  <2> USE <1>3 DEF Contended, Goto
  <2>a. Acked' = Acked
    BY DEF Types, SlotStable, Acked
  <2>1. Types'
    BY DEF Types
  <2>2. OnePublisher'
    BY DEF Types, OnePublisher
  <2>3. WorkersSurvive'
    BY DEF Types, WorkersSurvive, ClosureAlive
  <2>4. LockHeld'
    BY DEF Types, LockHeld
  <2>5. SlotStable'
    BY <2>a DEF Types, OnePublisher, SlotStable, Quiet, Acked
  <2>6. DoneCounts'
    BY <2>a, AckedAreWorkers, WorkersCounted DEF Types, OnePublisher, SlotStable, DoneCounts
  <2>7. RanSoFar'
    <3> SUFFICES ASSUME NEW d \in Calls PROVE RanOf(d)'
      BY DEF RanSoFar
    <3>1. CASE d = c
      BY <2>a, <3>1, SMTT(20) DEF Types, Participants, OnePublisher, SlotStable, RanSoFar, RanOf, Quiet, Acked
    <3>2. CASE d # c
      BY <2>a, <3>2, SMTT(20) DEF Types, Participants, OnePublisher, SlotStable, RanSoFar, RanOf, Quiet, Acked
    <3> QED
      BY <3>1, <3>2
  <2>8. PanicsSoFar'
    BY DEF Types, Participants, OnePublisher, SlotStable, RanSoFar, RanOf, PanicsSoFar, PanicsOf, Quiet, Acked
  <2>9. NoLostWakeup'
    BY DEF Types, NoLostWakeup, LockHeld, SlotStable, Quiet, Acked
  <2>10. ClosureAlive'
    BY DEF Types, OnePublisher, SlotStable, ClosureAlive, Quiet, Acked
  <2>11. FramesNested'
    BY DEF Types, Participants, FramesNested, Active
  <2> QED BY <2>1, <2>2, <2>3, <2>4, <2>5, <2>6, <2>7, <2>8, <2>9, <2>10, <2>11
<1>4. ASSUME NEW c \in Calls, NEW panics \in BOOLEAN, Serial(c, panics)
      PROVE  IInv'
  <2> USE <1>4 DEF Serial, Goto, EndShare, Active
  <2>a. Acked' = Acked
    BY DEF Types, SlotStable, Acked
  <2>1. Types'
    <3>1. ran' \in [Calls -> [Participants -> Nat]] /\ failed' \in [Calls -> SUBSET Participants]
      BY EndShareTypes DEF Participants
    <3> HIDE DEF EndShare
    <3> QED
      BY <3>1 DEF Types
  <2>2. OnePublisher'
    BY DEF Types, OnePublisher
  <2>3. WorkersSurvive'
    BY DEF Types, WorkersSurvive, ClosureAlive
  <2>4. LockHeld'
    BY DEF Types, LockHeld
  <2>5. SlotStable'
    BY <2>a DEF Types, OnePublisher, SlotStable, Quiet, Acked
  <2>6. DoneCounts'
    BY <2>a, AckedAreWorkers, WorkersCounted DEF Types, OnePublisher, SlotStable, DoneCounts
  <2>7. RanSoFar'
    <3> SUFFICES ASSUME NEW d \in Calls PROVE RanOf(d)'
      BY DEF RanSoFar
    <3>1. CASE d = c
      BY <2>a, <3>1, SMTT(20) DEF Types, Participants, OnePublisher, SlotStable, RanSoFar, RanOf, Quiet, Acked
    <3>2. CASE d # c
      BY <2>a, <3>2, SMTT(20) DEF Types, Participants, OnePublisher, SlotStable, RanSoFar, RanOf, Quiet, Acked
    <3> QED
      BY <3>1, <3>2
  <2>8. PanicsSoFar'
    <3> SUFFICES ASSUME NEW d \in Calls PROVE PanicsOf(d)'
      BY DEF PanicsSoFar, SlotStable, Types, OnePublisher, Quiet, Acked
    <3>1. CASE d = c
      BY <2>a, <3>1, SMTT(20) DEF Types, Participants, OnePublisher, SlotStable, RanSoFar, RanOf, PanicsSoFar, PanicsOf, Quiet, Acked
    <3>2. CASE d # c
      BY <2>a, <3>2, SMTT(20) DEF Types, Participants, OnePublisher, SlotStable, RanSoFar, RanOf, PanicsSoFar, PanicsOf, Quiet, Acked
    <3> QED
      BY <3>1, <3>2
  <2>9. NoLostWakeup'
    BY DEF Types, NoLostWakeup, LockHeld, SlotStable, Quiet, Acked
  <2>10. ClosureAlive'
    BY DEF Types, OnePublisher, SlotStable, ClosureAlive, Quiet, Acked
  <2>11. FramesNested'
    <3> SUFFICES ASSUME NEW d \in Calls, pc'[d] \notin {"idle", "returned"}, parent[d] # None
                 PROVE  Active(parent[d])'
      BY DEF FramesNested
    <3>1. parent[d] # <<c, Zero>>
      BY DEF Types, EndShare, OnTop
    <3>2. parent[d] \in Shares /\ Active(parent[d])
      BY DEF Types, FramesNested
    <3> QED
      BY <3>1, <3>2, SharesArePairs DEF Types, Active
  <2> QED BY <2>1, <2>2, <2>3, <2>4, <2>5, <2>6, <2>7, <2>8, <2>9, <2>10, <2>11
<1>5. ASSUME NEW c \in Calls, Leave(c)
      PROVE  IInv'
  <2> USE <1>5 DEF Leave, Goto
  <2>a. Acked' = Acked
    BY DEF Types, SlotStable, Acked
  <2>1. Types'
    BY DEF Types
  <2>2. OnePublisher'
    BY DEF Types, OnePublisher
  <2>3. WorkersSurvive'
    BY DEF Types, WorkersSurvive, ClosureAlive
  <2>4. LockHeld'
    BY DEF Types, LockHeld
  <2>5. SlotStable'
    BY <2>a DEF Types, OnePublisher, SlotStable, Quiet, Acked
  <2>6. DoneCounts'
    BY <2>a, AckedAreWorkers, WorkersCounted DEF Types, OnePublisher, SlotStable, DoneCounts
  <2>7. RanSoFar'
    BY <2>a DEF Types, Participants, OnePublisher, SlotStable, RanSoFar, RanOf, Quiet, Acked
  <2>8. PanicsSoFar'
    BY DEF Types, Participants, OnePublisher, SlotStable, RanSoFar, RanOf, PanicsSoFar, PanicsOf, Quiet, Acked
  <2>9. NoLostWakeup'
    BY DEF Types, NoLostWakeup, LockHeld, SlotStable, Quiet, Acked
  <2>10. ClosureAlive'
    BY DEF Types, OnePublisher, SlotStable, ClosureAlive, Quiet, Acked
  <2>11. FramesNested'
    BY DEF Types, Participants, FramesNested, Active
  <2> QED BY <2>1, <2>2, <2>3, <2>4, <2>5, <2>6, <2>7, <2>8, <2>9, <2>10, <2>11
<1>6. ASSUME NEW c \in Calls, WriteJob(c)
      PROVE  IInv'
  <2> USE <1>6 DEF WriteJob, Goto
  <2>a. Acked' = Acked
    BY DEF Types, SlotStable, Acked
  <2>1. Types'
    BY DEF Types
  <2>2. OnePublisher'
    BY DEF Types, OnePublisher
  <2>3. WorkersSurvive'
    BY DEF Types, WorkersSurvive, ClosureAlive
  <2>4. LockHeld'
    BY DEF Types, LockHeld
  <2>5. SlotStable'
    BY <2>a DEF Types, OnePublisher, SlotStable, Quiet, Acked
  <2>6. DoneCounts'
    BY <2>a, AckedAreWorkers, WorkersCounted DEF Types, OnePublisher, SlotStable, DoneCounts
  <2>7. RanSoFar'
    BY <2>a DEF Types, Participants, OnePublisher, SlotStable, RanSoFar, RanOf, Quiet, Acked
  <2>8. PanicsSoFar'
    BY DEF Types, Participants, OnePublisher, SlotStable, RanSoFar, RanOf, PanicsSoFar, PanicsOf, Quiet, Acked
  <2>9. NoLostWakeup'
    BY DEF Types, NoLostWakeup, LockHeld, SlotStable, Quiet, Acked
  <2>10. ClosureAlive'
    BY DEF Types, OnePublisher, SlotStable, ClosureAlive, Quiet, Acked
  <2>11. FramesNested'
    BY DEF Types, Participants, FramesNested, Active
  <2> QED BY <2>1, <2>2, <2>3, <2>4, <2>5, <2>6, <2>7, <2>8, <2>9, <2>10, <2>11
<1>7. ASSUME NEW c \in Calls, ResetDone(c)
      PROVE  IInv'
  <2> USE <1>7 DEF ResetDone, Goto
  <2>a. Acked' = Acked
    BY DEF Types, SlotStable, Acked
  <2>1. Types'
    BY DEF Types
  <2>2. OnePublisher'
    BY DEF Types, OnePublisher
  <2>3. WorkersSurvive'
    BY DEF Types, WorkersSurvive, ClosureAlive
  <2>4. LockHeld'
    BY DEF Types, LockHeld
  <2>5. SlotStable'
    BY <2>a DEF Types, OnePublisher, SlotStable, Quiet, Acked
  <2>6. DoneCounts'
    BY <2>a, AckedAreWorkers, WorkersCounted DEF Types, OnePublisher, SlotStable, DoneCounts
  <2>7. RanSoFar'
    BY <2>a DEF Types, Participants, OnePublisher, SlotStable, RanSoFar, RanOf, Quiet, Acked
  <2>8. PanicsSoFar'
    BY DEF Types, Participants, OnePublisher, SlotStable, RanSoFar, RanOf, PanicsSoFar, PanicsOf, Quiet, Acked
  <2>9. NoLostWakeup'
    BY DEF Types, NoLostWakeup, LockHeld, SlotStable, Quiet, Acked
  <2>10. ClosureAlive'
    BY DEF Types, OnePublisher, SlotStable, ClosureAlive, Quiet, Acked
  <2>11. FramesNested'
    BY DEF Types, Participants, FramesNested, Active
  <2> QED BY <2>1, <2>2, <2>3, <2>4, <2>5, <2>6, <2>7, <2>8, <2>9, <2>10, <2>11
<1>8. ASSUME NEW c \in Calls, ResetFlag(c)
      PROVE  IInv'
  <2> USE <1>8 DEF ResetFlag, Goto
  <2>a. Acked' = Acked
    BY DEF Types, SlotStable, Acked
  <2>1. Types'
    BY DEF Types
  <2>2. OnePublisher'
    BY DEF Types, OnePublisher
  <2>3. WorkersSurvive'
    BY DEF Types, WorkersSurvive, ClosureAlive
  <2>4. LockHeld'
    BY DEF Types, LockHeld
  <2>5. SlotStable'
    BY <2>a DEF Types, OnePublisher, SlotStable, Quiet, Acked
  <2>6. DoneCounts'
    BY <2>a, AckedAreWorkers, WorkersCounted DEF Types, OnePublisher, SlotStable, DoneCounts
  <2>7. RanSoFar'
    BY <2>a DEF Types, Participants, OnePublisher, SlotStable, RanSoFar, RanOf, Quiet, Acked
  <2>8. PanicsSoFar'
    BY DEF Types, Participants, OnePublisher, SlotStable, RanSoFar, RanOf, PanicsSoFar, PanicsOf, Quiet, Acked
  <2>9. NoLostWakeup'
    BY DEF Types, NoLostWakeup, LockHeld, SlotStable, Quiet, Acked
  <2>10. ClosureAlive'
    BY DEF Types, OnePublisher, SlotStable, ClosureAlive, Quiet, Acked
  <2>11. FramesNested'
    BY DEF Types, Participants, FramesNested, Active
  <2> QED BY <2>1, <2>2, <2>3, <2>4, <2>5, <2>6, <2>7, <2>8, <2>9, <2>10, <2>11
<1>9. ASSUME NEW c \in Calls, Bump(c)
      PROVE  IInv'
  <2> USE <1>9 DEF Bump, Goto
  <2>q. Quiet
    BY DEF Types, OnePublisher, SlotStable
  <2>a. Acked' = {}
    BY <2>q DEF Types, Quiet, Acked
  <2>1. Types'
    BY DEF Types
  <2>2. OnePublisher'
    BY DEF Types, OnePublisher
  <2>3. WorkersSurvive'
    BY DEF Types, WorkersSurvive, ClosureAlive
  <2>4. LockHeld'
    BY DEF Types, LockHeld
  <2>5. SlotStable'
    BY <2>q, <2>a DEF Types, OnePublisher, SlotStable, Quiet, Acked
  <2>6. DoneCounts'
    BY <2>a, FS_EmptySet, AckedAreWorkers, WorkersCounted DEF Types, OnePublisher, SlotStable, DoneCounts
  <2>7. RanSoFar'
    BY <2>q, <2>a DEF Types, Participants, OnePublisher, SlotStable, RanSoFar, RanOf, Quiet, Acked
  <2>8. PanicsSoFar'
    BY <2>q, <2>a DEF Types, Participants, OnePublisher, SlotStable, RanSoFar, RanOf, PanicsSoFar, PanicsOf, Quiet, Acked
  <2>9. NoLostWakeup'
    BY DEF Types, NoLostWakeup, LockHeld, SlotStable, Quiet, Acked
  <2>10. ClosureAlive'
    BY DEF Types, OnePublisher, SlotStable, ClosureAlive, Quiet, Acked
  <2>11. FramesNested'
    BY DEF Types, Participants, FramesNested, Active
  <2> QED BY <2>1, <2>2, <2>3, <2>4, <2>5, <2>6, <2>7, <2>8, <2>9, <2>10, <2>11
<1>10. ASSUME NEW c \in Calls, Notify(c)
      PROVE  IInv'
  <2> USE <1>10 DEF Notify, Goto
  <2>a. Acked' = Acked
    BY DEF Types, SlotStable, Acked
  <2>1. Types'
    BY DEF Types
  <2>2. OnePublisher'
    BY DEF Types, OnePublisher
  <2>3. WorkersSurvive'
    BY DEF Types, WorkersSurvive, ClosureAlive
  <2>4. LockHeld'
    BY DEF Types, LockHeld
  <2>5. SlotStable'
    BY <2>a DEF Types, OnePublisher, SlotStable, Quiet, Acked
  <2>6. DoneCounts'
    BY <2>a, AckedAreWorkers, WorkersCounted DEF Types, OnePublisher, SlotStable, DoneCounts
  <2>7. RanSoFar'
    BY <2>a DEF Types, Participants, OnePublisher, SlotStable, RanSoFar, RanOf, Quiet, Acked
  <2>8. PanicsSoFar'
    BY DEF Types, Participants, OnePublisher, SlotStable, RanSoFar, RanOf, PanicsSoFar, PanicsOf, Quiet, Acked
  <2>9. NoLostWakeup'
    BY DEF Types, NoLostWakeup, LockHeld, SlotStable, Quiet, Acked
  <2>10. ClosureAlive'
    BY DEF Types, OnePublisher, SlotStable, ClosureAlive, Quiet, Acked
  <2>11. FramesNested'
    <3>1. \A s \in Shares : Active(s) => Active(s)'
      BY SharesArePairs DEF Types, Participants, Active
    <3> QED
      BY <3>1 DEF Types, FramesNested
  <2> QED BY <2>1, <2>2, <2>3, <2>4, <2>5, <2>6, <2>7, <2>8, <2>9, <2>10, <2>11
<1>11. ASSUME NEW c \in Calls, NEW panics \in BOOLEAN, OwnShare(c, panics)
      PROVE  IInv'
  <2> USE <1>11 DEF OwnShare, Goto, EndShare, Active
  <2>a. Acked' = Acked
    BY DEF Types, SlotStable, Acked
  <2>1. Types'
    <3>1. ran' \in [Calls -> [Participants -> Nat]] /\ failed' \in [Calls -> SUBSET Participants]
      BY EndShareTypes DEF Participants
    <3> HIDE DEF EndShare
    <3> QED
      BY <3>1 DEF Types
  <2>2. OnePublisher'
    BY DEF Types, OnePublisher
  <2>3. WorkersSurvive'
    BY DEF Types, WorkersSurvive, ClosureAlive
  <2>4. LockHeld'
    BY DEF Types, LockHeld
  <2>5. SlotStable'
    BY <2>a DEF Types, OnePublisher, SlotStable, Quiet, Acked
  <2>6. DoneCounts'
    BY <2>a, AckedAreWorkers, WorkersCounted DEF Types, OnePublisher, SlotStable, DoneCounts
  <2>7. RanSoFar'
    <3> SUFFICES ASSUME NEW d \in Calls PROVE RanOf(d)'
      BY DEF RanSoFar
    <3>1. CASE d = c
      BY <2>a, <3>1, SMTT(20) DEF Types, Participants, OnePublisher, SlotStable, RanSoFar, RanOf, Quiet, Acked
    <3>2. CASE d # c
      BY <2>a, <3>2, SMTT(20) DEF Types, Participants, OnePublisher, SlotStable, RanSoFar, RanOf, Quiet, Acked
    <3> QED
      BY <3>1, <3>2
  <2>8. PanicsSoFar'
    <3> SUFFICES ASSUME NEW d \in Calls PROVE PanicsOf(d)'
      BY DEF PanicsSoFar, SlotStable, Types, OnePublisher, Quiet, Acked
    <3>1. CASE d = c
      BY <2>a, <3>1, SMTT(20) DEF Types, Participants, OnePublisher, SlotStable, RanSoFar, RanOf, PanicsSoFar, PanicsOf, Quiet, Acked
    <3>2. CASE d # c
      BY <2>a, <3>2, SMTT(20) DEF Types, Participants, OnePublisher, SlotStable, RanSoFar, RanOf, PanicsSoFar, PanicsOf, Quiet, Acked
    <3> QED
      BY <3>1, <3>2
  <2>9. NoLostWakeup'
    BY DEF Types, NoLostWakeup, LockHeld, SlotStable, Quiet, Acked
  <2>10. ClosureAlive'
    BY DEF Types, OnePublisher, SlotStable, ClosureAlive, Quiet, Acked
  <2>11. FramesNested'
    <3> SUFFICES ASSUME NEW d \in Calls, pc'[d] \notin {"idle", "returned"}, parent[d] # None
                 PROVE  Active(parent[d])'
      BY DEF FramesNested
    <3>1. parent[d] # <<c, Zero>>
      BY DEF Types, EndShare, OnTop
    <3>2. parent[d] \in Shares /\ Active(parent[d])
      BY DEF Types, FramesNested
    <3> QED
      BY <3>1, <3>2, SharesArePairs DEF Types, Active
  <2> QED BY <2>1, <2>2, <2>3, <2>4, <2>5, <2>6, <2>7, <2>8, <2>9, <2>10, <2>11
<1>12. ASSUME NEW c \in Calls, Join(c)
      PROVE  IInv'
  <2> USE <1>12 DEF Join, Goto
  <2>q. Quiet
    BY AckedAreWorkers, WorkersCounted DEF Types, DoneCounts, Quiet
  <2>r. \A w \in Workers : wpc[w] # "flag"
    BY <2>q DEF Quiet, Acked
  <2>a. Acked' = Acked
    BY DEF Types, SlotStable, Acked
  <2>1. Types'
    BY DEF Types
  <2>2. OnePublisher'
    BY DEF Types, OnePublisher
  <2>3. WorkersSurvive'
    BY DEF Types, WorkersSurvive, ClosureAlive
  <2>4. LockHeld'
    BY DEF Types, LockHeld
  <2>5. SlotStable'
    BY <2>q, <2>a DEF Types, OnePublisher, SlotStable, Quiet, Acked
  <2>6. DoneCounts'
    BY <2>a, AckedAreWorkers, WorkersCounted DEF Types, OnePublisher, SlotStable, DoneCounts
  <2>7. RanSoFar'
    <3> SUFFICES ASSUME NEW d \in Calls PROVE RanOf(d)'
      BY DEF RanSoFar
    <3>1. CASE d = c
      BY <2>q, <2>a, <3>1, SMTT(20) DEF Types, Participants, OnePublisher, SlotStable, RanSoFar, RanOf, Quiet, Acked
    <3>2. CASE d # c
      BY <2>q, <2>a, <3>2, SMTT(20) DEF Types, Participants, OnePublisher, SlotStable, RanSoFar, RanOf, Quiet, Acked
    <3> QED
      BY <3>1, <3>2
  <2>8. PanicsSoFar'
    <3> SUFFICES ASSUME NEW d \in Calls PROVE PanicsOf(d)'
      BY DEF PanicsSoFar, SlotStable, Types, OnePublisher, Quiet, Acked
    <3>1. CASE d = c
      BY <2>r, <3>1 DEF Types, Participants, PanicsSoFar, PanicsOf
    <3>2. CASE d # c
      BY <2>q, <2>a, <3>2, SMTT(20) DEF Types, Participants, OnePublisher, SlotStable, RanSoFar, RanOf, PanicsSoFar, PanicsOf, Quiet, Acked
    <3> QED
      BY <3>1, <3>2
  <2>9. NoLostWakeup'
    BY DEF Types, NoLostWakeup, LockHeld, SlotStable, Quiet, Acked
  <2>10. ClosureAlive'
    BY <2>q DEF Types, OnePublisher, SlotStable, ClosureAlive, Quiet, Acked
  <2>11. FramesNested'
    BY DEF Types, Participants, FramesNested, Active
  <2> QED BY <2>1, <2>2, <2>3, <2>4, <2>5, <2>6, <2>7, <2>8, <2>9, <2>10, <2>11
<1>13. ASSUME NEW c \in Calls, Clear(c)
      PROVE  IInv'
  <2> USE <1>13 DEF Clear, Goto
  <2>a. Acked' = Acked
    BY DEF Types, SlotStable, Acked
  <2>1. Types'
    BY DEF Types
  <2>2. OnePublisher'
    BY DEF Types, OnePublisher
  <2>3. WorkersSurvive'
    BY DEF Types, WorkersSurvive, ClosureAlive
  <2>4. LockHeld'
    BY DEF Types, LockHeld
  <2>5. SlotStable'
    BY <2>a DEF Types, OnePublisher, SlotStable, Quiet, Acked
  <2>6. DoneCounts'
    BY <2>a, AckedAreWorkers, WorkersCounted DEF Types, OnePublisher, SlotStable, DoneCounts
  <2>7. RanSoFar'
    BY <2>a DEF Types, Participants, OnePublisher, SlotStable, RanSoFar, RanOf, Quiet, Acked
  <2>8. PanicsSoFar'
    BY DEF Types, Participants, OnePublisher, SlotStable, RanSoFar, RanOf, PanicsSoFar, PanicsOf, Quiet, Acked
  <2>9. NoLostWakeup'
    BY DEF Types, NoLostWakeup, LockHeld, SlotStable, Quiet, Acked
  <2>10. ClosureAlive'
    BY DEF Types, OnePublisher, SlotStable, ClosureAlive, Quiet, Acked
  <2>11. FramesNested'
    BY DEF Types, Participants, FramesNested, Active
  <2> QED BY <2>1, <2>2, <2>3, <2>4, <2>5, <2>6, <2>7, <2>8, <2>9, <2>10, <2>11
<1>14. ASSUME NEW c \in Calls, Report(c)
      PROVE  IInv'
  <2> USE <1>14 DEF Report, Goto
  <2>a. Acked' = Acked
    BY DEF Types, SlotStable, Acked
  <2>1. Types'
    BY DEF Types
  <2>2. OnePublisher'
    BY DEF Types, OnePublisher
  <2>3. WorkersSurvive'
    BY DEF Types, WorkersSurvive, ClosureAlive
  <2>4. LockHeld'
    BY DEF Types, LockHeld
  <2>5. SlotStable'
    BY <2>a DEF Types, OnePublisher, SlotStable, Quiet, Acked
  <2>6. DoneCounts'
    BY <2>a, AckedAreWorkers, WorkersCounted DEF Types, OnePublisher, SlotStable, DoneCounts
  <2>7. RanSoFar'
    BY <2>a DEF Types, Participants, OnePublisher, SlotStable, RanSoFar, RanOf, Quiet, Acked
  <2>8. PanicsSoFar'
    BY DEF Types, Participants, OnePublisher, SlotStable, RanSoFar, RanOf, PanicsSoFar, PanicsOf, Quiet, Acked
  <2>9. NoLostWakeup'
    BY DEF Types, NoLostWakeup, LockHeld, SlotStable, Quiet, Acked
  <2>10. ClosureAlive'
    BY DEF Types, OnePublisher, SlotStable, ClosureAlive, Quiet, Acked
  <2>11. FramesNested'
    BY DEF Types, Participants, FramesNested, Active
  <2> QED BY <2>1, <2>2, <2>3, <2>4, <2>5, <2>6, <2>7, <2>8, <2>9, <2>10, <2>11
<1>15. ASSUME NEW c \in Calls, Release(c)
      PROVE  IInv'
  <2> USE <1>15 DEF Release, Goto
  <2>a. Acked' = Acked
    BY DEF Types, SlotStable, Acked
  <2>1. Types'
    BY DEF Types
  <2>2. OnePublisher'
    BY DEF Types, OnePublisher
  <2>3. WorkersSurvive'
    BY DEF Types, WorkersSurvive, ClosureAlive
  <2>4. LockHeld'
    BY DEF Types, LockHeld
  <2>5. SlotStable'
    BY <2>a DEF Types, OnePublisher, SlotStable, Quiet, Acked
  <2>6. DoneCounts'
    BY <2>a, AckedAreWorkers, WorkersCounted DEF Types, OnePublisher, SlotStable, DoneCounts
  <2>7. RanSoFar'
    BY <2>a DEF Types, Participants, OnePublisher, SlotStable, RanSoFar, RanOf, Quiet, Acked
  <2>8. PanicsSoFar'
    BY DEF Types, Participants, OnePublisher, SlotStable, RanSoFar, RanOf, PanicsSoFar, PanicsOf, Quiet, Acked
  <2>9. NoLostWakeup'
    BY DEF Types, NoLostWakeup, LockHeld, SlotStable, Quiet, Acked
  <2>10. ClosureAlive'
    BY DEF Types, OnePublisher, SlotStable, ClosureAlive, Quiet, Acked
  <2>11. FramesNested'
    BY DEF Types, Participants, FramesNested, Active
  <2> QED BY <2>1, <2>2, <2>3, <2>4, <2>5, <2>6, <2>7, <2>8, <2>9, <2>10, <2>11
<1>16. ASSUME NEW w \in Workers, Latch(w)
      PROVE  IInv'
  <2> USE <1>16 DEF Latch, Wgoto
  <2>a. Acked' = Acked
    BY DEF Types, SlotStable, Acked
  <2>1. Types'
    BY DEF Types
  <2>2. OnePublisher'
    BY DEF Types, OnePublisher
  <2>3. WorkersSurvive'
    BY DEF Types, WorkersSurvive, ClosureAlive
  <2>4. LockHeld'
    BY DEF Types, LockHeld
  <2>5. SlotStable'
    BY <2>a DEF Types, OnePublisher, SlotStable, Quiet, Acked
  <2>6. DoneCounts'
    BY <2>a, AckedAreWorkers, WorkersCounted DEF Types, OnePublisher, SlotStable, DoneCounts
  <2>7. RanSoFar'
    BY <2>a DEF Types, Participants, OnePublisher, SlotStable, RanSoFar, RanOf, Quiet, Acked
  <2>8. PanicsSoFar'
    BY DEF Types, Participants, OnePublisher, SlotStable, RanSoFar, RanOf, PanicsSoFar, PanicsOf, Quiet, Acked
  <2>9. NoLostWakeup'
    BY DEF Types, NoLostWakeup, LockHeld, SlotStable, Quiet, Acked
  <2>10. ClosureAlive'
    BY DEF Types, OnePublisher, SlotStable, ClosureAlive, Quiet, Acked
  <2>11. FramesNested'
    <3>1. \A s \in Shares : Active(s) => Active(s)'
      BY SharesArePairs DEF Types, Participants, Active
    <3> QED
      BY <3>1 DEF Types, FramesNested
  <2> QED BY <2>1, <2>2, <2>3, <2>4, <2>5, <2>6, <2>7, <2>8, <2>9, <2>10, <2>11
<1>17. ASSUME NEW w \in Workers, GiveUp(w)
      PROVE  IInv'
  <2> USE <1>17 DEF GiveUp, Wgoto
  <2>a. Acked' = Acked
    BY DEF Types, SlotStable, Acked
  <2>1. Types'
    BY DEF Types
  <2>2. OnePublisher'
    BY DEF Types, OnePublisher
  <2>3. WorkersSurvive'
    BY DEF Types, WorkersSurvive, ClosureAlive
  <2>4. LockHeld'
    BY DEF Types, LockHeld
  <2>5. SlotStable'
    BY <2>a DEF Types, OnePublisher, SlotStable, Quiet, Acked
  <2>6. DoneCounts'
    BY <2>a, AckedAreWorkers, WorkersCounted DEF Types, OnePublisher, SlotStable, DoneCounts
  <2>7. RanSoFar'
    BY <2>a DEF Types, Participants, OnePublisher, SlotStable, RanSoFar, RanOf, Quiet, Acked
  <2>8. PanicsSoFar'
    BY DEF Types, Participants, OnePublisher, SlotStable, RanSoFar, RanOf, PanicsSoFar, PanicsOf, Quiet, Acked
  <2>9. NoLostWakeup'
    BY DEF Types, NoLostWakeup, LockHeld, SlotStable, Quiet, Acked
  <2>10. ClosureAlive'
    BY DEF Types, OnePublisher, SlotStable, ClosureAlive, Quiet, Acked
  <2>11. FramesNested'
    <3>1. \A s \in Shares : Active(s) => Active(s)'
      BY SharesArePairs DEF Types, Participants, Active
    <3> QED
      BY <3>1 DEF Types, FramesNested
  <2> QED BY <2>1, <2>2, <2>3, <2>4, <2>5, <2>6, <2>7, <2>8, <2>9, <2>10, <2>11
<1>18. ASSUME NEW w \in Workers, Acquire(w)
      PROVE  IInv'
  <2> USE <1>18 DEF Acquire, Wgoto
  <2>a. Acked' = Acked
    BY DEF Types, SlotStable, Acked
  <2>1. Types'
    BY DEF Types
  <2>2. OnePublisher'
    BY DEF Types, OnePublisher
  <2>3. WorkersSurvive'
    BY DEF Types, WorkersSurvive, ClosureAlive
  <2>4. LockHeld'
    BY DEF Types, LockHeld
  <2>5. SlotStable'
    BY <2>a DEF Types, OnePublisher, SlotStable, Quiet, Acked
  <2>6. DoneCounts'
    BY <2>a, AckedAreWorkers, WorkersCounted DEF Types, OnePublisher, SlotStable, DoneCounts
  <2>7. RanSoFar'
    BY <2>a DEF Types, Participants, OnePublisher, SlotStable, RanSoFar, RanOf, Quiet, Acked
  <2>8. PanicsSoFar'
    BY DEF Types, Participants, OnePublisher, SlotStable, RanSoFar, RanOf, PanicsSoFar, PanicsOf, Quiet, Acked
  <2>9. NoLostWakeup'
    BY DEF Types, NoLostWakeup, LockHeld, SlotStable, Quiet, Acked
  <2>10. ClosureAlive'
    BY DEF Types, OnePublisher, SlotStable, ClosureAlive, Quiet, Acked
  <2>11. FramesNested'
    <3>1. \A s \in Shares : Active(s) => Active(s)'
      BY SharesArePairs DEF Types, Participants, Active
    <3> QED
      BY <3>1 DEF Types, FramesNested
  <2> QED BY <2>1, <2>2, <2>3, <2>4, <2>5, <2>6, <2>7, <2>8, <2>9, <2>10, <2>11
<1>19. ASSUME NEW w \in Workers, Recheck(w)
      PROVE  IInv'
  <2> USE <1>19 DEF Recheck, Wgoto
  <2>a. Acked' = Acked
    BY DEF Types, SlotStable, Acked
  <2>1. Types'
    BY DEF Types
  <2>2. OnePublisher'
    BY DEF Types, OnePublisher
  <2>3. WorkersSurvive'
    BY DEF Types, WorkersSurvive, ClosureAlive
  <2>4. LockHeld'
    BY DEF Types, LockHeld
  <2>5. SlotStable'
    BY <2>a DEF Types, OnePublisher, SlotStable, Quiet, Acked
  <2>6. DoneCounts'
    BY <2>a, AckedAreWorkers, WorkersCounted DEF Types, OnePublisher, SlotStable, DoneCounts
  <2>7. RanSoFar'
    BY <2>a DEF Types, Participants, OnePublisher, SlotStable, RanSoFar, RanOf, Quiet, Acked
  <2>8. PanicsSoFar'
    BY DEF Types, Participants, OnePublisher, SlotStable, RanSoFar, RanOf, PanicsSoFar, PanicsOf, Quiet, Acked
  <2>9. NoLostWakeup'
    BY DEF Types, NoLostWakeup, LockHeld, SlotStable, Quiet, Acked
  <2>10. ClosureAlive'
    BY DEF Types, OnePublisher, SlotStable, ClosureAlive, Quiet, Acked
  <2>11. FramesNested'
    <3>1. \A s \in Shares : Active(s) => Active(s)'
      BY SharesArePairs DEF Types, Participants, Active
    <3> QED
      BY <3>1 DEF Types, FramesNested
  <2> QED BY <2>1, <2>2, <2>3, <2>4, <2>5, <2>6, <2>7, <2>8, <2>9, <2>10, <2>11
<1>20. ASSUME NEW w \in Workers, Sleep(w)
      PROVE  IInv'
  <2> USE <1>20 DEF Sleep, Wgoto
  <2>a. Acked' = Acked
    BY DEF Types, SlotStable, Acked
  <2>1. Types'
    BY DEF Types
  <2>2. OnePublisher'
    BY DEF Types, OnePublisher
  <2>3. WorkersSurvive'
    BY DEF Types, WorkersSurvive, ClosureAlive
  <2>4. LockHeld'
    BY DEF Types, LockHeld
  <2>5. SlotStable'
    BY <2>a DEF Types, OnePublisher, SlotStable, Quiet, Acked
  <2>6. DoneCounts'
    BY <2>a, AckedAreWorkers, WorkersCounted DEF Types, OnePublisher, SlotStable, DoneCounts
  <2>7. RanSoFar'
    BY <2>a DEF Types, Participants, OnePublisher, SlotStable, RanSoFar, RanOf, Quiet, Acked
  <2>8. PanicsSoFar'
    BY DEF Types, Participants, OnePublisher, SlotStable, RanSoFar, RanOf, PanicsSoFar, PanicsOf, Quiet, Acked
  <2>9. NoLostWakeup'
    BY DEF Types, NoLostWakeup, LockHeld, SlotStable, Quiet, Acked
  <2>10. ClosureAlive'
    BY DEF Types, OnePublisher, SlotStable, ClosureAlive, Quiet, Acked
  <2>11. FramesNested'
    <3>1. \A s \in Shares : Active(s) => Active(s)'
      BY SharesArePairs DEF Types, Participants, Active
    <3> QED
      BY <3>1 DEF Types, FramesNested
  <2> QED BY <2>1, <2>2, <2>3, <2>4, <2>5, <2>6, <2>7, <2>8, <2>9, <2>10, <2>11
<1>21. ASSUME NEW w \in Workers, SpuriousWakeup(w)
      PROVE  IInv'
  <2> USE <1>21 DEF SpuriousWakeup, Wgoto
  <2>a. Acked' = Acked
    BY DEF Types, SlotStable, Acked
  <2>1. Types'
    BY DEF Types
  <2>2. OnePublisher'
    BY DEF Types, OnePublisher
  <2>3. WorkersSurvive'
    BY DEF Types, WorkersSurvive, ClosureAlive
  <2>4. LockHeld'
    BY DEF Types, LockHeld
  <2>5. SlotStable'
    BY <2>a DEF Types, OnePublisher, SlotStable, Quiet, Acked
  <2>6. DoneCounts'
    BY <2>a, AckedAreWorkers, WorkersCounted DEF Types, OnePublisher, SlotStable, DoneCounts
  <2>7. RanSoFar'
    BY <2>a DEF Types, Participants, OnePublisher, SlotStable, RanSoFar, RanOf, Quiet, Acked
  <2>8. PanicsSoFar'
    BY DEF Types, Participants, OnePublisher, SlotStable, RanSoFar, RanOf, PanicsSoFar, PanicsOf, Quiet, Acked
  <2>9. NoLostWakeup'
    BY DEF Types, NoLostWakeup, LockHeld, SlotStable, Quiet, Acked
  <2>10. ClosureAlive'
    BY DEF Types, OnePublisher, SlotStable, ClosureAlive, Quiet, Acked
  <2>11. FramesNested'
    <3>1. \A s \in Shares : Active(s) => Active(s)'
      BY SharesArePairs DEF Types, Participants, Active
    <3> QED
      BY <3>1 DEF Types, FramesNested
  <2> QED BY <2>1, <2>2, <2>3, <2>4, <2>5, <2>6, <2>7, <2>8, <2>9, <2>10, <2>11
<1>22. ASSUME NEW w \in Workers, Reacquire(w)
      PROVE  IInv'
  <2> USE <1>22 DEF Reacquire, Wgoto
  <2>a. Acked' = Acked
    BY DEF Types, SlotStable, Acked
  <2>1. Types'
    BY DEF Types
  <2>2. OnePublisher'
    BY DEF Types, OnePublisher
  <2>3. WorkersSurvive'
    BY DEF Types, WorkersSurvive, ClosureAlive
  <2>4. LockHeld'
    BY DEF Types, LockHeld
  <2>5. SlotStable'
    BY <2>a DEF Types, OnePublisher, SlotStable, Quiet, Acked
  <2>6. DoneCounts'
    BY <2>a, AckedAreWorkers, WorkersCounted DEF Types, OnePublisher, SlotStable, DoneCounts
  <2>7. RanSoFar'
    BY <2>a DEF Types, Participants, OnePublisher, SlotStable, RanSoFar, RanOf, Quiet, Acked
  <2>8. PanicsSoFar'
    BY DEF Types, Participants, OnePublisher, SlotStable, RanSoFar, RanOf, PanicsSoFar, PanicsOf, Quiet, Acked
  <2>9. NoLostWakeup'
    BY DEF Types, NoLostWakeup, LockHeld, SlotStable, Quiet, Acked
  <2>10. ClosureAlive'
    BY DEF Types, OnePublisher, SlotStable, ClosureAlive, Quiet, Acked
  <2>11. FramesNested'
    <3>1. \A s \in Shares : Active(s) => Active(s)'
      BY SharesArePairs DEF Types, Participants, Active
    <3> QED
      BY <3>1 DEF Types, FramesNested
  <2> QED BY <2>1, <2>2, <2>3, <2>4, <2>5, <2>6, <2>7, <2>8, <2>9, <2>10, <2>11
<1>23. ASSUME NEW w \in Workers, ReadJob(w)
      PROVE  IInv'
  <2> USE <1>23 DEF ReadJob, Wgoto
  <2>a. Acked' = Acked
    BY DEF Types, SlotStable, Acked
  <2>1. Types'
    BY DEF Types
  <2>2. OnePublisher'
    BY DEF Types, OnePublisher
  <2>3. WorkersSurvive'
    BY DEF Types, WorkersSurvive, ClosureAlive
  <2>4. LockHeld'
    BY DEF Types, LockHeld
  <2>5. SlotStable'
    BY <2>a DEF Types, OnePublisher, SlotStable, Quiet, Acked
  <2>6. DoneCounts'
    BY <2>a, AckedAreWorkers, WorkersCounted DEF Types, OnePublisher, SlotStable, DoneCounts
  <2>7. RanSoFar'
    BY <2>a DEF Types, Participants, OnePublisher, SlotStable, RanSoFar, RanOf, Quiet, Acked
  <2>8. PanicsSoFar'
    BY DEF Types, Participants, OnePublisher, SlotStable, RanSoFar, RanOf, PanicsSoFar, PanicsOf, Quiet, Acked
  <2>9. NoLostWakeup'
    BY DEF Types, NoLostWakeup, LockHeld, SlotStable, Quiet, Acked
  <2>10. ClosureAlive'
    BY DEF Types, OnePublisher, SlotStable, ClosureAlive, Quiet, Acked
  <2>11. FramesNested'
    <3>1. \A s \in Shares : Active(s) => Active(s)'
      BY SharesArePairs DEF Types, Participants, Active
    <3> QED
      BY <3>1 DEF Types, FramesNested
  <2> QED BY <2>1, <2>2, <2>3, <2>4, <2>5, <2>6, <2>7, <2>8, <2>9, <2>10, <2>11
<1>24. ASSUME NEW w \in Workers, NEW panics \in BOOLEAN, RunShare(w, panics)
      PROVE  IInv'
  <2> USE <1>24 DEF RunShare, Wgoto, EndShare, Active
  <2>a. Acked' = Acked
    BY DEF Types, SlotStable, Acked
  <2>1. Types'
    <3>1. ran' \in [Calls -> [Participants -> Nat]] /\ failed' \in [Calls -> SUBSET Participants]
      BY EndShareTypes DEF Participants, ClosureAlive
    <3> HIDE DEF EndShare
    <3> QED
      BY <3>1 DEF Types
  <2>2. OnePublisher'
    BY DEF Types, OnePublisher
  <2>3. WorkersSurvive'
    BY DEF Types, WorkersSurvive, ClosureAlive
  <2>4. LockHeld'
    BY DEF Types, LockHeld
  <2>5. SlotStable'
    BY <2>a DEF Types, OnePublisher, SlotStable, Quiet, Acked
  <2>6. DoneCounts'
    BY <2>a, AckedAreWorkers, WorkersCounted DEF Types, OnePublisher, SlotStable, DoneCounts
  <2>7. RanSoFar'
    <3> SUFFICES ASSUME NEW d \in Calls PROVE RanOf(d)'
      BY DEF RanSoFar
    <3>1. CASE d = latched[w]
      BY <2>a, <3>1, SMTT(20) DEF Types, Participants, OnePublisher, SlotStable, RanSoFar, RanOf, Quiet, Acked
    <3>2. CASE d # latched[w]
      BY <2>a, <3>2, SMTT(20) DEF Types, Participants, OnePublisher, SlotStable, RanSoFar, RanOf, Quiet, Acked
    <3> QED
      BY <3>1, <3>2
  <2>8. PanicsSoFar'
    <3>0. \A v \in Workers : wpc'[v] = "flag" => v \in failed'[latched'[v]]
      BY DEF Types, Participants, PanicsSoFar, ClosureAlive
    <3> SUFFICES ASSUME NEW d \in Calls PROVE PanicsOf(d)'
      BY <3>0 DEF PanicsSoFar
    <3>1. CASE d = latched[w]
      BY <2>a, <3>1, SMTT(20) DEF Types, Participants, OnePublisher, SlotStable, RanSoFar, RanOf, PanicsSoFar, PanicsOf, Quiet, Acked
    <3>2. CASE d # latched[w]
      BY <2>a, <3>2, SMTT(20) DEF Types, Participants, OnePublisher, SlotStable, RanSoFar, RanOf, PanicsSoFar, PanicsOf, Quiet, Acked
    <3> QED
      BY <3>1, <3>2
  <2>9. NoLostWakeup'
    BY DEF Types, NoLostWakeup, LockHeld, SlotStable, Quiet, Acked
  <2>10. ClosureAlive'
    BY DEF Types, OnePublisher, SlotStable, ClosureAlive, Quiet, Acked
  <2>11. FramesNested'
    <3> SUFFICES ASSUME NEW d \in Calls, pc'[d] \notin {"idle", "returned"}, parent[d] # None
                 PROVE  Active(parent[d])'
      BY DEF FramesNested
    <3>1. parent[d] # <<latched[w], w>>
      BY DEF Types, EndShare, OnTop, ClosureAlive
    <3>2. parent[d] \in Shares /\ Active(parent[d])
      BY DEF Types, FramesNested
    <3> QED
      BY <3>1, <3>2, SharesArePairs DEF Types, Active
  <2> QED BY <2>1, <2>2, <2>3, <2>4, <2>5, <2>6, <2>7, <2>8, <2>9, <2>10, <2>11
<1>25. ASSUME NEW w \in Workers, Flag(w)
      PROVE  IInv'
  <2> USE <1>25 DEF Flag, Wgoto
  <2>a. Acked' = Acked
    BY DEF Types, SlotStable, Acked
  <2>1. Types'
    BY DEF Types
  <2>2. OnePublisher'
    BY DEF Types, OnePublisher
  <2>3. WorkersSurvive'
    BY DEF Types, WorkersSurvive, ClosureAlive
  <2>4. LockHeld'
    BY DEF Types, LockHeld
  <2>5. SlotStable'
    BY <2>a DEF Types, OnePublisher, SlotStable, Quiet, Acked
  <2>6. DoneCounts'
    BY <2>a, AckedAreWorkers, WorkersCounted DEF Types, OnePublisher, SlotStable, DoneCounts
  <2>7. RanSoFar'
    BY <2>a DEF Types, Participants, OnePublisher, SlotStable, RanSoFar, RanOf, Quiet, Acked
  <2>8. PanicsSoFar'
    <3> SUFFICES ASSUME NEW d \in Calls PROVE PanicsOf(d)'
      BY DEF PanicsSoFar, SlotStable, Types, OnePublisher, Quiet, Acked
    <3>1. CASE d = latched[w]
      BY <2>a, <3>1, SMTT(20) DEF Types, Participants, OnePublisher, SlotStable, RanSoFar, RanOf, PanicsSoFar, PanicsOf, Quiet, Acked
    <3>2. CASE d # latched[w]
      BY <2>a, <3>2, SMTT(20) DEF Types, Participants, OnePublisher, SlotStable, RanSoFar, RanOf, PanicsSoFar, PanicsOf, Quiet, Acked
    <3> QED
      BY <3>1, <3>2
  <2>9. NoLostWakeup'
    BY DEF Types, NoLostWakeup, LockHeld, SlotStable, Quiet, Acked
  <2>10. ClosureAlive'
    BY DEF Types, OnePublisher, SlotStable, ClosureAlive, Quiet, Acked
  <2>11. FramesNested'
    <3>1. \A s \in Shares : Active(s) => Active(s)'
      BY SharesArePairs DEF Types, Participants, Active
    <3> QED
      BY <3>1 DEF Types, FramesNested
  <2> QED BY <2>1, <2>2, <2>3, <2>4, <2>5, <2>6, <2>7, <2>8, <2>9, <2>10, <2>11
<1>26. ASSUME NEW w \in Workers, Ack(w)
      PROVE  IInv'
  <2> USE <1>26 DEF Ack, Wgoto
  <2>a. Acked' = Acked \cup {w} /\ w \notin Acked
    BY DEF Types, SlotStable, Acked
  <2>1. Types'
    BY DEF Types
  <2>2. OnePublisher'
    BY DEF Types, OnePublisher
  <2>3. WorkersSurvive'
    BY DEF Types, WorkersSurvive, ClosureAlive
  <2>4. LockHeld'
    BY DEF Types, LockHeld
  <2>5. SlotStable'
    BY <2>a DEF Types, OnePublisher, SlotStable, Quiet, Acked
  <2>6. DoneCounts'
    <3>1. Cardinality(Acked \cup {w}) = Cardinality(Acked) + 1
      BY <2>a, AckedAreWorkers, WorkersCounted, FS_AddElement
    <3>2. Cardinality(Acked \cup {w}) <= Cardinality(Workers)
      BY AckedAreWorkers, WorkersCounted
    <3>3. \E d \in Calls : pc[d] \in Published
      BY <2>a DEF SlotStable, Quiet
    <3>4. done = Cardinality(Acked)
      BY <3>3 DEF DoneCounts
    <3> QED
      BY <2>a, <3>1, <3>2, <3>4, AckedAreWorkers, WorkersCounted
      DEF Types, OnePublisher, SlotStable, DoneCounts
  <2>7. RanSoFar'
    BY <2>a DEF Types, Participants, OnePublisher, SlotStable, RanSoFar, RanOf, Quiet, Acked
  <2>8. PanicsSoFar'
    BY DEF Types, Participants, OnePublisher, SlotStable, RanSoFar, RanOf, PanicsSoFar, PanicsOf, Quiet, Acked
  <2>9. NoLostWakeup'
    BY DEF Types, NoLostWakeup, LockHeld, SlotStable, Quiet, Acked
  <2>10. ClosureAlive'
    BY DEF Types, OnePublisher, SlotStable, ClosureAlive, Quiet, Acked
  <2>11. FramesNested'
    <3>1. \A s \in Shares : Active(s) => Active(s)'
      BY SharesArePairs DEF Types, Participants, Active
    <3> QED
      BY <3>1 DEF Types, FramesNested
  <2> QED BY <2>1, <2>2, <2>3, <2>4, <2>5, <2>6, <2>7, <2>8, <2>9, <2>10, <2>11
<1> QED
  BY <1>1, <1>2, <1>3, <1>4, <1>5, <1>6, <1>7, <1>8, <1>9, <1>10, <1>11, <1>12, <1>13, <1>14, <1>15, <1>16, <1>17, <1>18, <1>19, <1>20, <1>21, <1>22, <1>23, <1>24, <1>25, <1>26
  DEF Next, CallStep, WorkerStep

-----------------------------------------------------------------------------
(* The pool starts, with no call made and every worker spinning, in the    *)
(* inductive invariant.                                                    *)
LEMMA Start == ASSUME PoolAssumption, Init PROVE IInv
<1> USE DEF Init, PoolAssumption
<1>1. Types
  BY DEF Types
<1>2. Acked = Workers
  BY DEF Acked
<1>3. OnePublisher /\ WorkersSurvive /\ LockHeld /\ NoLostWakeup
  BY DEF OnePublisher, WorkersSurvive, LockHeld, NoLostWakeup
<1>4. SlotStable /\ DoneCounts
  BY <1>2, AckedAreWorkers, WorkersCounted DEF SlotStable, DoneCounts, Quiet
<1>5. RanSoFar /\ PanicsSoFar
  BY DEF RanSoFar, RanOf, PanicsSoFar, PanicsOf, Participants
<1>6. BorrowOutlivesUse
  BY DEF BorrowOutlivesUse, ClosureAlive, FramesNested
<1> QED
  BY <1>1, <1>3, <1>4, <1>5, <1>6 DEF IInv

(* A step that changes nothing keeps it.                                   *)
LEMMA Stutter == ASSUME IInv, UNCHANGED vars PROVE IInv'
BY DEF vars, IInv, Types, OnePublisher, WorkersSurvive, LockHeld, SlotStable,
       DoneCounts, Acked, Quiet, RanSoFar, RanOf, PanicsSoFar, PanicsOf,
       NoLostWakeup, BorrowOutlivesUse, ClosureAlive, FramesNested, Active

(* The inductive invariant holds of every behaviour of the pool.           *)
THEOREM PoolInvariant == Spec => []IInv
<1>1. Init => IInv
  BY PoolAssumption, Start
<1>2. IInv /\ [Next]_vars => IInv'
  BY PoolAssumption, Step, Stutter
<1> QED
  BY <1>1, <1>2, PTL DEF Spec

(* The shared fields, the workers' locals and the calls' frames keep their *)
(* types; `done` never counts more workers than there are.                 *)
THEOREM PoolTypeCorrect == Spec => []TypeOK
<1>1. IInv => TypeOK
  BY PoolAssumption, AckedAreWorkers, WorkersCounted DEF IInv, Types, DoneCounts, TypeOK
<1> QED
  BY <1>1, PoolInvariant, PTL

(* One call at a time drives the pool, and Pool::publish says so.          *)
THEOREM TokenExclusive == Spec => []OnePublisher
<1>1. IInv => OnePublisher
  BY DEF IInv
<1> QED
  BY <1>1, PoolInvariant, PTL

(* The lifetime dispatch erases is respected: no worker uses a closure     *)
(* whose frame is gone, and `expect` in worker never fires.                *)
THEOREM BorrowIsSound == Spec => [](BorrowOutlivesUse /\ WorkersSurvive)
<1>1. IInv => BorrowOutlivesUse /\ WorkersSurvive
  BY DEF IInv
<1> QED
  BY <1>1, PoolInvariant, PTL

(* Every participant of a call's team runs its share once before dispatch  *)
(* returns, and no other runs any.                                         *)
THEOREM SharesRunOnce == Spec => []ExactlyOnce
<1>1. ASSUME IInv PROVE ExactlyOnce
  <2> SUFFICES ASSUME NEW c \in Calls
               PROVE  /\ \A p \in Participants : ran[c][p] <= 1
                      /\ pc[c] = "returned" =>
                           /\ ran[c][Zero] = 1
                           /\ \/ \A w \in Workers : ran[c][w] = 1
                              \/ \A w \in Workers : ran[c][w] = 0
    BY DEF ExactlyOnce
  <2>1. \A p \in Participants : ran[c][p] \in {0, 1}
    BY <1>1 DEF IInv, Types, RanSoFar, RanOf, Participants
  <2> QED
    BY <1>1, <2>1 DEF IInv, RanSoFar, RanOf
<1> QED
  BY <1>1, PoolInvariant, PTL

(* dispatch panics exactly when a share of that very call did.             *)
THEOREM PanicsAreReported == Spec => []PanicReachesItsCaller
<1>1. IInv => PanicReachesItsCaller
  BY DEF IInv, PanicsSoFar, PanicsOf, PanicReachesItsCaller
<1> QED
  BY <1>1, PoolInvariant, PTL

(* A worker that goes to sleep on the condition variable has missed no     *)
(* job, unless notify_all is still to come.                                *)
THEOREM NoWakeupLost == Spec => []NoLostWakeup
<1>1. IInv => NoLostWakeup
  BY DEF IInv
<1> QED
  BY <1>1, PoolInvariant, PTL

(* The job slot and the acknowledgement counter are written only while no  *)
(* worker is between its latch and its ack (the SAFETY comments of         *)
(* dispatch).                                                              *)
THEOREM SlotIsStable == Spec => SlotWrittenWhenIdle
<1>1. ASSUME IInv, [Next]_vars, ~UNCHANGED vars, job' # job \/ done' < done
      PROVE  \A w \in Workers : wpc[w] \in Asleep
  <2>1. PICK c \in Calls : WriteJob(c) \/ ResetDone(c) \/ Clear(c)
    <3> USE <1>1 DEF IInv, Types
    <3>1. ASSUME NEW c \in Calls, NEW s \in Shares \cup {None}, Enter(c, s) PROVE FALSE
      BY <3>1 DEF Enter
    <3>2. ASSUME NEW c \in Calls, CallStep(c),
                 ~(WriteJob(c) \/ ResetDone(c) \/ Clear(c)) PROVE FALSE
      BY <3>2 DEF CallStep, Claim, Contended, Serial, Leave, ResetFlag, Bump, Notify,
                  OwnShare, Join, Report, Release
    <3>3. ASSUME NEW w \in Workers, WorkerStep(w) \/ SpuriousWakeup(w) PROVE FALSE
      BY <3>3 DEF WorkerStep, Latch, GiveUp, Acquire, Recheck, Sleep, SpuriousWakeup,
                  Reacquire, ReadJob, RunShare, Flag, Ack
    <3> QED
      BY <3>1, <3>2, <3>3 DEF Next
  <2>2. pc[c] \in {"write", "resetdone", "clear"}
    BY <2>1 DEF WriteJob, ResetDone, Clear, Goto
  <2>3. Quiet
    BY <1>1, <2>2 DEF IInv, Types, OnePublisher, SlotStable
  <2> QED
    BY <2>3 DEF Quiet, Acked
<1>2. IInv /\ [Next]_vars =>
        [job' # job \/ done' < done => \A w \in Workers : wpc[w] \in Asleep]_vars
  BY <1>1
<1> QED
  BY <1>2, PoolInvariant, PTL DEF Spec, SlotWrittenWhenIdle

-----------------------------------------------------------------------------
(* The pool implements ForkJoin: every step of a thread is a step of the   *)
(* contract or leaves the contract's view of every call as it was.         *)

(* A call shows the contract its phase, its team and who has ended.        *)
LEMMA ViewsOf ==
  ASSUME NEW c \in Calls
  PROVE  /\ PhaseOf[c] = IF pc[c] \in {"idle", "claim"} THEN "idle"
                         ELSE IF pc[c] \in {"release", "returned"} THEN "returned"
                         ELSE "open"
         /\ TeamOf[c] = IF pc[c] \in {"idle", "claim"} THEN {}
                        ELSE IF pc[c] \in Publishing \/ \E w \in Workers : ran[c][w] > 0
                             THEN Participants ELSE {Zero}
         /\ EndedIn[c] = {p \in Participants : ran[c][p] > 0}
BY DEF PhaseOf, TeamOf, EndedIn

(* A step within a phase that ends no share is invisible.                  *)
LEMMA Invisible ==
  ASSUME IInv, IInv', UNCHANGED history, UNCHANGED outcome,
         \A c \in Calls :
           \/ pc'[c] = pc[c]
           \/ pc[c] \in {"idle", "claim"} /\ pc'[c] \in {"idle", "claim"}
           \/ pc[c] \in Publishing \ {"release"} /\ pc'[c] \in Publishing \ {"release"}
           \/ pc[c] = "release" /\ pc'[c] = "returned"
  PROVE  UNCHANGED FJ!fjVars
<1>1. UNCHANGED <<EndedIn, failed, outcome>>
  BY DEF EndedIn
<1>2. UNCHANGED PhaseOf
  BY DEF PhaseOf
<1>3. \A c \in Calls : pc[c] = "release" => \E w \in Workers : ran[c][w] > 0
  BY PoolAssumption DEF IInv, RanSoFar, RanOf, PoolAssumption
<1>4. UNCHANGED TeamOf
  BY <1>3 DEF TeamOf
<1> QED
  BY <1>1, <1>2, <1>4 DEF FJ!fjVars

(* Getting a team: the pool for the call that claims the token, the        *)
(* calling thread alone for the others.                                    *)
LEMMA Beginning ==
  ASSUME IInv, UNCHANGED history, UNCHANGED outcome,
         NEW c \in Calls, pc[c] \in {"idle", "claim"},
         NEW to \in {"serial", "write"}, pc' = [pc EXCEPT ![c] = to]
  PROVE  FJ!Begin(c)
<1>1. UNCHANGED <<EndedIn, failed, outcome>>
  BY DEF EndedIn
<1>2. PhaseOf[c] = "idle" /\ PhaseOf' = [PhaseOf EXCEPT ![c] = "open"]
  BY DEF PhaseOf, IInv, Types
<1>3. \A w \in Workers : ran[c][w] = 0
  BY DEF IInv, RanSoFar, RanOf, Participants
<1>4. TeamOf' = [TeamOf EXCEPT ![c] = IF to = "write" THEN Participants ELSE {Zero}]
  <2>1. \A d \in Calls : d # c => TeamOf'[d] = TeamOf[d]
    BY DEF TeamOf, IInv, Types
  <2>2. TeamOf'[c] = IF to = "write" THEN Participants ELSE {Zero}
    BY <1>3 DEF TeamOf, IInv, Types
  <2> QED
    BY <2>1, <2>2 DEF TeamOf
<1>5. FJ!Teams = {Participants, {Zero}}
  BY DEF FJ!Teams, FJ!Participants, Participants
<1> QED
  BY <1>1, <1>2, <1>4, <1>5 DEF FJ!Begin

(* The end of a share is visible as soon as it is recorded.                *)
LEMMA Sharing ==
  ASSUME IInv, UNCHANGED outcome,
         NEW c \in Calls, NEW p \in Participants, NEW panics \in BOOLEAN,
         EndShare(c, p, panics),
         ran[c][p] = 0, p \in TeamOf[c],
         PhaseOf[c] = "open", UNCHANGED PhaseOf, UNCHANGED TeamOf
  PROVE  FJ!Share(c, p, panics)
<1>1. ran[c] \in [Participants -> Nat]
  BY DEF IInv, Types
<1>2. p \notin EndedIn[c]
  BY DEF EndedIn
<1>3. EndedIn' = [EndedIn EXCEPT ![c] = @ \cup {p}]
  <2>1. \A d \in Calls : d # c => ran'[d] = ran[d]
    BY DEF EndShare, IInv, Types
  <2>2. ran'[c] = [ran[c] EXCEPT ![p] = @ + 1]
    BY DEF EndShare, IInv, Types
  <2>3. {q \in Participants : ran'[c][q] > 0} = {q \in Participants : ran[c][q] > 0} \cup {p}
    BY <1>1, <2>2
  <2> QED
    BY <2>1, <2>3 DEF EndedIn
<1>4. failed' = [failed EXCEPT ![c] = IF panics THEN @ \cup {p} ELSE @]
  BY DEF EndShare
<1> QED
  BY <1>2, <1>3, <1>4 DEF FJ!Share

(* Settling the outcome is the return, whatever is left to unwind.         *)
LEMMA Returning ==
  ASSUME IInv, UNCHANGED history, NEW c \in Calls,
         EndedIn[c] = TeamOf[c], PhaseOf[c] = "open",
         PhaseOf' = [PhaseOf EXCEPT ![c] = "returned"], UNCHANGED TeamOf,
         outcome' = [outcome EXCEPT ![c] = IF failed[c] = {} THEN "ok" ELSE "panic"]
  PROVE  FJ!Return(c)
BY DEF FJ!Return, EndedIn

(* Every step of the pool is a step of the contract or changes nothing the *)
(* contract sees.                                                          *)
LEMMA StepRefines ==
  ASSUME PoolAssumption, IInv, IInv', Next
  PROVE  FJ!Next \/ UNCHANGED FJ!fjVars
<1> USE DEF IInv, Goto, Wgoto
<1>1. ASSUME NEW c \in Calls, NEW s \in Shares \cup {None}, Enter(c, s)
      PROVE  FJ!Next \/ UNCHANGED FJ!fjVars
  <2>1. CASE InJob(ThreadOf(s))
    BY <1>1, <2>1, Beginning DEF Enter, Types, FJ!Next
  <2>2. CASE ~InJob(ThreadOf(s))
    BY <1>1, <2>2, Invisible DEF Enter, Types
  <2> QED
    BY <2>1, <2>2
<1>2. ASSUME NEW c \in Calls, Claim(c) \/ Contended(c)
      PROVE  FJ!Next
  BY <1>2, Beginning DEF Claim, Contended, Types, FJ!Next
<1>3. ASSUME NEW c \in Calls, NEW panics \in BOOLEAN, Serial(c, panics) \/ OwnShare(c, panics)
      PROVE  FJ!Next
  <2>1. ran[c][Zero] = 0 /\ Zero \in Participants
    BY <1>3 DEF Serial, OwnShare, RanSoFar, RanOf, Participants
  <2>2. UNCHANGED PhaseOf /\ PhaseOf[c] = "open"
    BY <1>3 DEF Serial, OwnShare, PhaseOf, Types
  <2>3. \A d \in Calls, w \in Workers : ran'[d][w] = ran[d][w]
    <3>1. ran' = [ran EXCEPT ![c] = [ran[c] EXCEPT ![Zero] = @ + 1]]
      BY <1>3 DEF Serial, OwnShare, EndShare, Types
    <3>2. \A w \in Workers : w \in Participants /\ w # Zero
      BY DEF PoolAssumption, Participants
    <3>3. ran \in [Calls -> [Participants -> Nat]]
      BY DEF Types
    <3> QED
      BY <3>1, <3>2, <3>3
  <2>4. UNCHANGED TeamOf /\ Zero \in TeamOf[c]
    BY <1>3, <2>3 DEF Serial, OwnShare, TeamOf, Types, Participants
  <2> QED
    BY <1>3, <2>1, <2>2, <2>4, Sharing DEF Serial, OwnShare, FJ!Next, FJ!Participants, Participants
<1>4. ASSUME NEW w \in Workers, NEW panics \in BOOLEAN, RunShare(w, panics)
      PROVE  FJ!Next
  <2> DEFINE c == latched[w]
  <2>1. c \in Calls /\ pc[c] \in Published /\ w \in Participants /\ EndShare(c, w, panics)
    BY <1>4 DEF RunShare, BorrowOutlivesUse, ClosureAlive, Participants
  <2>2. ran[c][w] = 0
    BY <1>4, <2>1 DEF RunShare, RanSoFar, RanOf, Acked
  <2>3. UNCHANGED PhaseOf /\ PhaseOf[c] = "open"
    BY <1>4, <2>1 DEF RunShare, PhaseOf
  <2>4. UNCHANGED TeamOf /\ w \in TeamOf[c]
    <3>1. \A d \in Calls \ {c} : ran'[d] = ran[d]
      BY <2>1 DEF EndShare, Types
    <3>2. UNCHANGED pc
      BY <1>4 DEF RunShare
    <3> QED
      BY <2>1, <3>1, <3>2 DEF TeamOf
  <2>5. UNCHANGED outcome
    BY <1>4 DEF RunShare
  <2>6. FJ!Share(c, w, panics)
    BY <2>1, <2>2, <2>3, <2>4, <2>5, Sharing
  <2> QED
    BY <2>1, <2>6 DEF FJ!Next, FJ!Participants, Participants
<1>5. ASSUME NEW c \in Calls, Leave(c)
      PROVE  FJ!Next
  <2>1. EndedIn[c] = {Zero} /\ TeamOf[c] = {Zero}
    BY <1>5, PoolAssumption, ViewsOf DEF Leave, Participants, RanSoFar, RanOf
  <2>2. own[c] <=> failed[c] # {}
    BY <1>5 DEF Leave, Types, PanicsSoFar, PanicsOf, RanSoFar, RanOf, Participants
  <2>3. PhaseOf[c] = "open" /\ PhaseOf' = [PhaseOf EXCEPT ![c] = "returned"]
    <3>1. \A d \in Calls : PhaseOf'[d] = IF d = c THEN "returned" ELSE PhaseOf[d]
      BY <1>5 DEF Leave, PhaseOf, Types
    <3> QED
      BY <1>5, <3>1 DEF Leave, PhaseOf
  <2>4. UNCHANGED TeamOf
    BY <1>5 DEF Leave, TeamOf, Types
  <2>5. FJ!Return(c)
    BY <1>5, <2>1, <2>2, <2>3, <2>4, Returning DEF Leave
  <2> QED
    BY <2>5 DEF FJ!Next
<1>6. ASSUME NEW c \in Calls, Report(c)
      PROVE  FJ!Next
  <2>1. \A p \in Participants : ran[c][p] = 1
    BY <1>6 DEF Report, RanSoFar, RanOf, Participants
  <2>2. EndedIn[c] = Participants /\ TeamOf[c] = Participants
    <3>1. EndedIn[c] = Participants
      <4>1. EndedIn[c] = {p \in Participants : ran[c][p] > 0}
        BY ViewsOf
      <4>2. \A p \in Participants : ran[c][p] > 0
        BY <2>1
      <4> QED
        BY <4>1, <4>2
    <3> QED
      BY <1>6, <3>1, ViewsOf DEF Report
  <2>3. own[c] \/ panicked <=> failed[c] # {}
    BY <1>6 DEF Report, Types, PanicsSoFar, PanicsOf, Participants
  <2>4. PhaseOf[c] = "open" /\ PhaseOf' = [PhaseOf EXCEPT ![c] = "returned"]
    <3>1. \A d \in Calls : PhaseOf'[d] = IF d = c THEN "returned" ELSE PhaseOf[d]
      BY <1>6 DEF Report, PhaseOf, Types
    <3> QED
      BY <1>6, <3>1 DEF Report, PhaseOf
  <2>5. UNCHANGED TeamOf
    BY <1>6 DEF Report, TeamOf, Types
  <2>6. FJ!Return(c)
    BY <1>6, <2>2, <2>3, <2>4, <2>5, Returning DEF Report
  <2> QED
    BY <2>6 DEF FJ!Next
<1>7. ASSUME NEW c \in Calls,
             \/ WriteJob(c) \/ ResetDone(c) \/ ResetFlag(c) \/ Bump(c) \/ Notify(c)
             \/ Join(c) \/ Clear(c) \/ Release(c)
      PROVE  UNCHANGED FJ!fjVars
  BY <1>7, Invisible DEF WriteJob, ResetDone, ResetFlag, Bump, Notify, Join, Clear, Release, Types
<1>8. ASSUME NEW w \in Workers,
             \/ Latch(w) \/ GiveUp(w) \/ Acquire(w) \/ Recheck(w) \/ Sleep(w)
             \/ SpuriousWakeup(w) \/ Reacquire(w) \/ ReadJob(w) \/ Flag(w) \/ Ack(w)
      PROVE  UNCHANGED FJ!fjVars
  BY <1>8, Invisible
  DEF Latch, GiveUp, Acquire, Recheck, Sleep, SpuriousWakeup, Reacquire, ReadJob, Flag, Ack
<1> QED
  BY <1>1, <1>2, <1>3, <1>4, <1>5, <1>6, <1>7, <1>8 DEF Next, CallStep, WorkerStep

(* Every behaviour of the pool is one the contract of dispatch allows.     *)
THEOREM PoolImplementsForkJoin == Spec => ForkJoinSpec
<1>1. Init => FJ!Init
  BY DEF Init, FJ!Init, PhaseOf, TeamOf, EndedIn
<1>2. IInv /\ IInv' /\ [Next]_vars => [FJ!Next]_FJ!fjVars
  <2>1. ASSUME UNCHANGED vars PROVE UNCHANGED FJ!fjVars
    BY <2>1 DEF vars, frames, history, FJ!fjVars, PhaseOf, TeamOf, EndedIn
  <2> QED
    BY <2>1, PoolAssumption, StepRefines
<1> QED
  BY <1>1, <1>2, PoolInvariant, PTL DEF Spec, ForkJoinSpec, FJ!Spec
=============================================================================
