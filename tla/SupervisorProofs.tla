--------------------------- MODULE SupervisorProofs ---------------------------
(***************************************************************************)
(* Proofs about the supervisor: whatever the child does and in whatever    *)
(* order, for every number of cards, faults and delays.                    *)
(*                                                                         *)
(* What the three promises need carried along is where each fact lives     *)
(* between two children: the identity in the mapping while a child runs    *)
(* and in uuid while none does, the recovery latch in recovery, then in    *)
(* the mapping, then in the child that took it, the clean flag in the      *)
(* mapping until the supervisor returns.                                   *)
(***************************************************************************)
EXTENDS Supervisor, TLAPS

(* A live child is a watched one.                                          *)
Watched == Alive => sup = "watching"

IdentityCarried ==
  /\ child \in {"bound", "pinned"} => gpu = shared.uuid
  /\ child \in {"pinned", "protecting"} => shared.identified
  /\ served # NoGpu /\ sup = "watching" => shared.identified /\ shared.uuid = served
  /\ served # NoGpu /\ sup \in {"launching", "backoff"} => uuid = served

RecoveryCarried ==
  /\ owed /\ sup = "launching" => recovery
  /\ owed /\ sup = "watching" => shared.recovery \/ inherited
  /\ owed /\ child = "protecting" => inherited

CleanCarried == quit => sup = "gone" \/ (sup = "watching" /\ shared.clean)

IInv == TypeOK /\ Watched /\ IdentityCarried /\ RecoveryCarried /\ CleanCarried

-----------------------------------------------------------------------------

LEMMA Limits ==
  /\ HeartbeatLimit \in Nat /\ HeartbeatLimit > 0
  /\ Watchdog \in Nat /\ Watchdog > 0
  /\ SteadyLimit \in Nat /\ SteadyLimit > 0
  /\ ReadyCount \in Nat /\ ReadyCount > 0
  /\ ReadyGap \in Nat /\ ReadyGap > 0
  /\ BootTime \in Nat /\ BootTime > 0
  /\ MaxFaults \in Nat
  /\ Len(Delays) \in Nat /\ Len(Delays) > 0
  /\ \A i \in 1 .. Len(Delays) : Delays[i] \in Nat
<1>1. {HeartbeatLimit, Watchdog, SteadyLimit, ReadyCount, ReadyGap} \subseteq Nat \ {0}
  BY SupervisorAssumption
<1>2. BootTime \in 1 .. Watchdog /\ MaxFaults \in Nat
  BY SupervisorAssumption
<1>3. Delays \in Seq(Nat \ {0}) /\ Len(Delays) > 0
  BY SupervisorAssumption
<1> QED  BY <1>1, <1>2, <1>3

LEMMA AgedTo ==
  ASSUME NEW limit \in Nat, NEW age \in Absent .. limit
  PROVE  /\ Older(age, limit) \in Absent .. limit
         /\ age # Absent => Older(age, limit) \in 0 .. limit
  BY DEF Older, Absent

(* The two stamps an action writes, and the other constants of the types.  *)
LEMMA Stamps ==
  /\ Absent \in Absent .. HeartbeatLimit /\ 0 \in Absent .. HeartbeatLimit
  /\ Absent \in Absent .. ReadyGap /\ 0 \in Absent .. ReadyGap
  /\ Absent \in Absent .. SteadyLimit
  /\ 0 \in 0 .. Watchdog /\ 0 \in 0 .. ReadyCount /\ 0 \in 0 .. BootTime
  /\ 0 \in 0 .. MaxFaults /\ 1 \in 1 .. Len(Delays)
  BY Limits DEF Absent

LEMMA InitCarries == Init => IInv
<1> SUFFICES ASSUME Init PROVE IInv
  OBVIOUS
<1>1. shared \in Shared
  BY Stamps DEF Init, Shared
<1>2. TypeOK
  BY <1>1, Stamps DEF Init, TypeOK
<1> QED
  BY <1>2 DEF Init, IInv, Watched, Alive, IdentityCarried, RecoveryCarried, CleanCarried

(* The mapping is emptied and filled from the supervisor's own memory.     *)
LEMMA LaunchCarries == IInv /\ Launch => IInv'
<1> SUFFICES ASSUME IInv, Launch PROVE IInv'
  OBVIOUS
<1>1. FreshShared \in Shared
  BY Stamps DEF FreshShared, Shared, IInv, TypeOK
<1>2. TypeOK'
  BY <1>1, Stamps DEF Launch, IInv, TypeOK
<1>3. Watched' /\ CleanCarried'
  BY DEF Launch, IInv, Watched, CleanCarried
<1>4. IdentityCarried'
  BY DEF Launch, IInv, IdentityCarried, FreshShared
<1>5. RecoveryCarried'
  BY DEF Launch, IInv, RecoveryCarried, FreshShared
<1> QED  BY <1>2, <1>3, <1>4, <1>5 DEF IInv

LEMMA GiveUpCarries == IInv /\ GiveUp => IInv'
<1> SUFFICES ASSUME IInv, GiveUp PROVE IInv'
  OBVIOUS
<1>1. TypeOK'
  BY DEF GiveUp, local, worker, observers, IInv, TypeOK
<1> QED
  BY <1>1 DEF GiveUp, local, worker, observers, IInv, Watched, Alive, IdentityCarried,
              RecoveryCarried, CleanCarried

LEMMA PollCarries == IInv /\ Poll => IInv'
<1> SUFFICES ASSUME IInv, Poll PROVE IInv'
  OBVIOUS
<1>1. steadyAge' \in Absent .. SteadyLimit
  BY Limits DEF Poll, IInv, TypeOK, Absent
<1>2. failures' \in 1 .. Len(Delays)
  BY Limits DEF Poll, IInv, TypeOK
<1>3. healthyAge' \in 0 .. Watchdog
  BY Limits DEF Poll, IInv, TypeOK
<1>4. killing' \in BOOLEAN /\ pollDue' \in BOOLEAN
  BY DEF Poll, IInv, TypeOK
<1>5. TypeOK'
  BY <1>1, <1>2, <1>3, <1>4 DEF Poll, worker, observers, IInv, TypeOK
<1> QED
  BY <1>5 DEF Poll, worker, observers, IInv, Watched, Alive, IdentityCarried,
              RecoveryCarried, CleanCarried

LEMMA ReapCarries == IInv /\ Reap => IInv'
<1> SUFFICES ASSUME IInv, Reap PROVE IInv'
  OBVIOUS
<1> USE DEF Reap, Reaped
<1>1. failures' \in 1 .. Len(Delays)
  BY Limits DEF NextFailure, IInv, TypeOK
<1>2. backoff' \in Nat
  BY Limits DEF IInv, TypeOK
<1>3. uuid' \in Gpus \cup {NoGpu} /\ steadyAge' \in Absent .. SteadyLimit
  BY Limits DEF IInv, TypeOK, Shared, Absent
<1>4. TypeOK'
  BY <1>1, <1>2, <1>3 DEF worker, IInv, TypeOK
<1> QED
  BY <1>4 DEF worker, IInv, Watched, Alive, IdentityCarried, RecoveryCarried, CleanCarried

LEMMA BackoffCarries == IInv /\ BackoffEnds => IInv'
<1> SUFFICES ASSUME IInv, BackoffEnds PROVE IInv'
  OBVIOUS
<1>1. TypeOK'
  BY DEF BackoffEnds, worker, observers, IInv, TypeOK
<1> QED
  BY <1>1 DEF BackoffEnds, worker, observers, IInv, Watched, Alive, IdentityCarried,
              RecoveryCarried, CleanCarried

LEMMA BindCarries == IInv /\ Bind => IInv'
<1> SUFFICES ASSUME IInv, Bind PROVE IInv'
  OBVIOUS
<1>1. gpu' \in Gpus \cup {NoGpu}
  BY DEF Bind, IInv, TypeOK, Shared
<1>2. shared' \in Shared
  BY <1>1 DEF Bind, IInv, TypeOK, Shared
<1>3. TypeOK'
  BY <1>1, <1>2 DEF Bind, local, observers, IInv, TypeOK
<1>4. shared'.uuid = gpu' /\ shared'.identified = shared.identified
  BY DEF Bind, IInv, TypeOK, Shared
<1>5. IdentityCarried'
  BY <1>4 DEF Bind, local, observers, IInv, Watched, Alive, IdentityCarried
<1>6. shared'.recovery = shared.recovery /\ shared'.clean = shared.clean
  BY DEF Bind, IInv, TypeOK, Shared
<1> QED
  BY <1>3, <1>5, <1>6 DEF Bind, local, observers, IInv, Watched, Alive,
                          RecoveryCarried, CleanCarried

LEMMA PinCarries == IInv /\ Pin => IInv'
<1> SUFFICES ASSUME IInv, Pin PROVE IInv'
  OBVIOUS
<1>1. shared' \in Shared
  BY DEF Pin, IInv, TypeOK, Shared
<1>2. TypeOK'
  BY <1>1 DEF Pin, local, worker, observers, IInv, TypeOK
<1>3. /\ shared'.identified /\ shared'.uuid = shared.uuid
      /\ shared'.recovery = shared.recovery /\ shared'.clean = shared.clean
  BY DEF Pin, IInv, TypeOK, Shared
<1> QED
  BY <1>2, <1>3 DEF Pin, local, worker, observers, IInv, Watched, Alive, IdentityCarried,
                    RecoveryCarried, CleanCarried

LEMMA TakeCarries == IInv /\ TakeRecoveryLatch => IInv'
<1> SUFFICES ASSUME IInv, TakeRecoveryLatch PROVE IInv'
  OBVIOUS
<1>1. shared' \in Shared
  BY DEF TakeRecoveryLatch, IInv, TypeOK, Shared
<1>2. inherited' \in BOOLEAN
  BY DEF TakeRecoveryLatch, IInv, TypeOK, Shared
<1>3. TypeOK'
  BY <1>1, <1>2, Limits
     DEF TakeRecoveryLatch, local, IInv, TypeOK, Absent
<1>4. /\ shared'.identified = shared.identified /\ shared'.uuid = shared.uuid
      /\ shared'.clean = shared.clean
  BY DEF TakeRecoveryLatch, IInv, TypeOK, Shared
<1>5. sup = "watching"
  BY DEF TakeRecoveryLatch, IInv, Watched, Alive
<1>6. IdentityCarried'
  BY <1>4, <1>5 DEF TakeRecoveryLatch, local, IInv, IdentityCarried
<1>7. RecoveryCarried'
  BY <1>5 DEF TakeRecoveryLatch, local, IInv, RecoveryCarried
<1> QED
  BY <1>3, <1>4, <1>5, <1>6, <1>7
     DEF TakeRecoveryLatch, local, IInv, Watched, CleanCarried

-----------------------------------------------------------------------------
(* The child's other actions leave the identity, the latch and, unless the *)
(* user quits, the flag where they are.                                    *)

Undisturbed ==
  /\ shared'.uuid = shared.uuid /\ shared'.identified = shared.identified
  /\ shared'.recovery = shared.recovery
  /\ UNCHANGED <<sup, recovery, uuid, served, owed, inherited>>

LEMMA UndisturbedCarries ==
  ASSUME IInv, TypeOK', Undisturbed,
         child' \in {"bound", "pinned"} => child' = child /\ gpu' = gpu,
         child' = "protecting" => child = "protecting",
         Alive' => Alive,
         quit' => \/ quit /\ shared'.clean = shared.clean
                  \/ Alive /\ shared'.clean
  PROVE  IInv'
<1>1. Watched'
  BY DEF IInv, Watched, Undisturbed
<1>2. IdentityCarried' /\ RecoveryCarried'
  BY DEF IInv, IdentityCarried, RecoveryCarried, Undisturbed
<1>3. CleanCarried'
  BY DEF IInv, CleanCarried, Watched, Undisturbed
<1> QED  BY <1>1, <1>2, <1>3 DEF IInv

LEMMA ReportCarries == IInv /\ ReportHealth => IInv'
<1> SUFFICES ASSUME IInv, ReportHealth PROVE IInv'
  OBVIOUS
<1>1. row' \in 0 .. ReadyCount /\ rowAge' \in Absent .. ReadyGap
  <2>1. row \in 0 .. ReadyCount
    BY DEF IInv, TypeOK
  <2>2. PICK kept \in {0, row} : row' = kept \/ (kept < ReadyCount /\ row' = kept + 1)
    BY DEF ReportHealth
  <2> QED  BY <2>1, <2>2, Limits, Stamps DEF ReportHealth
<1>2. shared' \in Shared /\ shared'.clean = shared.clean
  <2> DEFINE ready == row' >= ReadyCount
  <2>1. ready \in BOOLEAN
    OBVIOUS
  <2>2. shared' = [shared EXCEPT !.ready = ready, !.beatAge = 0]
    BY DEF ReportHealth
  <2> HIDE DEF ready
  <2> QED  BY <2>1, <2>2, Stamps DEF IInv, TypeOK, Shared
<1>3. TypeOK'
  BY <1>1, <1>2 DEF ReportHealth, local, observers, IInv, TypeOK
<1>4. Undisturbed
  BY DEF ReportHealth, local, observers, IInv, TypeOK, Shared, Undisturbed
<1> QED
  BY <1>2, <1>3, <1>4, UndisturbedCarries DEF ReportHealth, observers, Alive

LEMMA RequestCarries == IInv /\ RequestRecovery => IInv'
<1> SUFFICES ASSUME IInv, RequestRecovery PROVE IInv'
  OBVIOUS
<1>1. shared' \in Shared /\ shared'.clean = shared.clean
  BY DEF RequestRecovery, IInv, TypeOK, Shared
<1>2. faults' \in 0 .. MaxFaults
  BY Limits DEF RequestRecovery, Fault, IInv, TypeOK
<1>3. TypeOK'
  BY <1>1, <1>2 DEF RequestRecovery, local, worker, IInv, TypeOK
<1>4. Undisturbed
  BY DEF RequestRecovery, local, IInv, TypeOK, Shared, Undisturbed
<1> QED
  BY <1>1, <1>3, <1>4, UndisturbedCarries DEF RequestRecovery, worker, Alive

LEMMA ServiceCarries == IInv /\ (ServiceAnswers \/ ServiceLost) => IInv'
<1> SUFFICES ASSUME IInv, ServiceAnswers \/ ServiceLost PROVE IInv'
  OBVIOUS
<1>1. shared' \in Shared /\ shared'.clean = shared.clean
  BY Stamps DEF ServiceAnswers, ServiceLost, local, worker, observers, IInv, TypeOK, Shared
<1>2. TypeOK'
  BY <1>1, Limits
     DEF ServiceAnswers, ServiceLost, local, worker, observers, IInv, TypeOK, Absent
<1>3. Undisturbed
  BY DEF ServiceAnswers, ServiceLost, local, observers, IInv, TypeOK, Shared, Undisturbed
<1> QED
  BY <1>1, <1>2, <1>3, UndisturbedCarries
     DEF ServiceAnswers, ServiceLost, worker, observers, Alive

LEMMA QuitCarries == IInv /\ Quit => IInv'
<1> SUFFICES ASSUME IInv, Quit PROVE IInv'
  OBVIOUS
<1>1. shared' \in Shared /\ shared'.clean
  BY DEF Quit, IInv, TypeOK, Shared
<1>2. TypeOK'
  BY <1>1 DEF Quit, local, worker, IInv, TypeOK
<1>3. Undisturbed
  BY DEF Quit, local, IInv, TypeOK, Shared, Undisturbed
<1> QED
  BY <1>1, <1>2, <1>3, UndisturbedCarries DEF Quit, Alive

(* A hang, a crash and a termination.                                      *)
LEMMA EndCarries == IInv /\ (Hang \/ Crash \/ Terminated) => IInv'
<1> SUFFICES ASSUME IInv, Hang \/ Crash \/ Terminated PROVE IInv'
  OBVIOUS
<1>1. faults' \in 0 .. MaxFaults
  BY Limits DEF Hang, Crash, Terminated, observers, Fault, IInv, TypeOK
<1>2. TypeOK'
  BY <1>1 DEF Hang, Crash, Terminated, local, worker, observers, IInv, TypeOK
<1>3. Undisturbed
  BY DEF Hang, Crash, Terminated, local, observers, Undisturbed
<1> QED
  BY <1>2, <1>3, UndisturbedCarries DEF Hang, Crash, Terminated, observers, Alive

LEMMA ElapseCarries == IInv /\ Elapse => IInv'
<1> SUFFICES ASSUME IInv, Elapse PROVE IInv'
  OBVIOUS
<1>1. /\ HeartbeatLimit \in Nat /\ SteadyLimit \in Nat /\ Watchdog \in Nat
      /\ ReadyGap \in Nat /\ BootTime \in Nat
  BY Limits
<1>2. /\ shared.beatAge \in Absent .. HeartbeatLimit /\ steadyAge \in Absent .. SteadyLimit
      /\ healthyAge \in 0 .. Watchdog /\ rowAge \in Absent .. ReadyGap
      /\ bootAge \in 0 .. BootTime /\ backoff \in Nat
  BY DEF IInv, TypeOK, Shared
<1>3. Older(shared.beatAge, HeartbeatLimit) \in Absent .. HeartbeatLimit
  BY <1>1, <1>2, AgedTo
<1>4. shared' \in Shared /\ shared'.clean = shared.clean
  BY <1>3 DEF Elapse, IInv, TypeOK, Shared
<1>5. steadyAge' \in Absent .. SteadyLimit /\ rowAge' \in Absent .. ReadyGap
  BY <1>1, <1>2, AgedTo DEF Elapse
<1>6. healthyAge' \in 0 .. Watchdog
  <2>1. healthyAge \in Absent .. Watchdog /\ healthyAge # Absent
    BY <1>1, <1>2 DEF Absent
  <2> QED  BY <1>1, <2>1, AgedTo DEF Elapse
<1>7. bootAge' \in 0 .. BootTime
  BY <1>1, <1>2, Limits DEF Elapse, Older, Absent
<1>8. backoff' \in Nat
  BY <1>2 DEF Elapse
<1>9. TypeOK'
  BY <1>4, <1>5, <1>6, <1>7, <1>8 DEF Elapse, observers, IInv, TypeOK
<1>10. Undisturbed
  BY DEF Elapse, observers, IInv, TypeOK, Shared, Undisturbed
<1> QED
  BY <1>4, <1>9, <1>10, UndisturbedCarries DEF Elapse, observers, Alive

LEMMA NextCarries == IInv /\ [Next]_vars => IInv'
<1> SUFFICES ASSUME IInv, [Next]_vars PROVE IInv'
  OBVIOUS
<1>1. CASE UNCHANGED vars
  BY <1>1 DEF vars, local, worker, observers, IInv, TypeOK, Watched, Alive,
              IdentityCarried, RecoveryCarried, CleanCarried
<1> QED
  BY <1>1, LaunchCarries, GiveUpCarries, PollCarries, ReapCarries, BackoffCarries,
     BindCarries, PinCarries, TakeCarries, ReportCarries, RequestCarries, ServiceCarries,
     QuitCarries, EndCarries, ElapseCarries DEF Next

-----------------------------------------------------------------------------

(* The invariant the promises rest on holds in every reachable state.      *)
THEOREM SupervisorInductive == Spec => []IInv
  BY InitCarries, NextCarries, PTL DEF Spec

(* The supervisor's locals, the mapping and the observers keep their types *)
(* (TypeOK): among them the delay index, for a row of delays of any        *)
(* length.                                                                 *)
THEOREM SupervisorTypes == Spec => []TypeOK
<1>1. IInv => TypeOK
  BY DEF IInv
<1> QED  BY <1>1, SupervisorInductive, PTL

(* After a user's exit the supervisor never starts another child           *)
(* (CleanExitIsFinal): the clean flag outlives hangs and kills.            *)
THEOREM UserExitIsFinal == Spec => []CleanExitIsFinal
<1>1. IInv => CleanExitIsFinal
  BY DEF IInv, CleanCarried, CleanExitIsFinal
<1> QED  BY <1>1, SupervisorInductive, PTL

(* No worker protects after an unclean end without its process having      *)
(* taken the recovery latch (RecoveryInherited).                           *)
THEOREM FaultIsInherited == Spec => []RecoveryInherited
<1>1. IInv => RecoveryInherited
  BY DEF IInv, RecoveryCarried, RecoveryInherited
<1> QED  BY <1>1, SupervisorInductive, PTL

(* The card protected under one supervisor never changes (IdentityKept):   *)
(* the one step that names a card finds it where IdentityCarried left it.  *)
THEOREM IdentityIsKept == Spec => IdentityKept
<1>1. IInv /\ [Next]_vars => [served # NoGpu => served' = served]_vars
  <2> SUFFICES ASSUME IInv, [Next]_vars, served # NoGpu PROVE served' = served
    OBVIOUS
  <2>1. CASE TakeRecoveryLatch
    BY <2>1 DEF TakeRecoveryLatch, IInv, Watched, Alive, IdentityCarried
  <2>2. CASE UNCHANGED vars
    BY <2>2 DEF vars, observers
  <2>3. CASE Next /\ ~TakeRecoveryLatch
    BY <2>3 DEF Next, Launch, GiveUp, Poll, Reap, Reaped, BackoffEnds, Bind, Pin,
                ReportHealth, RequestRecovery, ServiceAnswers, ServiceLost, Quit, Hang,
                Crash, Terminated, Elapse, observers
  <2> QED  BY <2>1, <2>2, <2>3
<1> QED  BY <1>1, SupervisorInductive, PTL DEF Spec, IdentityKept
=============================================================================
