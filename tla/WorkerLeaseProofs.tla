-------------------------- MODULE WorkerLeaseProofs --------------------------
(* Proofs about WorkerLease, for every lease time, heartbeat interval and   *)
(* length of a behaviour.                                                   *)
EXTENDS WorkerLease, TLAPS

\* What makes ReadyHasLease inductive.  Until the worker asks for the release
\* the database lease only grows, and an answer "alive" was given no earlier
\* than its call was made, so the lease outlives it by LeaseMs from then on.
LeaseCoversAnswer ==
  /\ started <= now
  /\ leaseUntil <= now + LeaseMs
  /\ "release" \in calls => closed
  /\ answer # "none" => phase = "crashed" \/ Awaiting
  /\ pending => phase = "up"
  /\ ~closed /\ answer = "alive" => leaseUntil >= started + LeaseMs
  /\ ~closed /\ active => leaseUntil >= validUntil + HeartbeatMs

DataOK ==
  /\ now \in Time
  /\ leaseUntil \in 0 .. MaxTime + LeaseMs
  /\ phase \in Phase
  /\ validUntil \in 0 .. MaxTime + LeaseMs
  /\ started \in Time
  /\ calls \subseteq Calls
  /\ answer \in AnswerKind

LeaseInv == DataOK /\ LeaseCoversAnswer

LEMMA InitLease == Init => LeaseInv
<1> USE TimingAssumption DEF Init
<1>1. Init => DataOK
  BY DEF DataOK, Time, Phase, Calls, AnswerKind
<1>2. Init => LeaseCoversAnswer
  BY DEF LeaseCoversAnswer
<1> QED
  BY <1>1, <1>2 DEF LeaseInv

\* The flags are set to truth values whatever else holds.
LEMMA FlagsKeepType == FlagsOK /\ [Next]_vars => FlagsOK'
<1> SUFFICES ASSUME FlagsOK, [Next]_vars
             PROVE  FlagsOK'
  OBVIOUS
<1>0. (now < validUntil') \in BOOLEAN
  OBVIOUS
<1>1. CASE ReceiveRegister
  BY <1>0, <1>1 DEF ReceiveRegister, Confirm, FlagsOK
<1>2. CASE ReceiveBeat
  BY <1>0, <1>2 DEF ReceiveBeat, Confirm, FlagsOK
<1>3. CASE Start \/ Beat \/ Lose \/ Stop \/ Crash
  BY <1>3 DEF Start, Beat, Lose, Stop, Crash, FlagsOK
<1>4. CASE ExecuteRegister \/ ExecuteHeartbeat \/ ExecuteRelease \/ GiveUp \/ Tick \/ UNCHANGED vars
  BY <1>4 DEF ExecuteRegister, ExecuteHeartbeat, ExecuteRelease, GiveUp, Tick, localVars, vars, FlagsOK
<1> QED
  BY <1>1, <1>2, <1>3, <1>4 DEF Next

\* The steps of the worker.
LEMMA WorkerStepsKeepLeaseInv ==
  LeaseInv /\ (Start \/ ReceiveRegister \/ Beat \/ ReceiveBeat \/ Lose \/ Stop \/ Crash) => LeaseInv'
<1> SUFFICES ASSUME LeaseInv,
                    Start \/ ReceiveRegister \/ Beat \/ ReceiveBeat \/ Lose \/ Stop \/ Crash
             PROVE  LeaseInv'
  OBVIOUS
<1> USE TimingAssumption
    DEF LeaseInv, DataOK, LeaseCoversAnswer, Time, Phase, Calls, AnswerKind, Awaiting
<1>1. CASE Start
  BY <1>1 DEF Start
<1>2. CASE ReceiveRegister
  BY <1>2 DEF ReceiveRegister, Confirm
<1>3. CASE Beat
  BY <1>3 DEF Beat, Ready
<1>4. CASE ReceiveBeat
  BY <1>4 DEF ReceiveBeat, Confirm, Ready
<1>5. CASE Lose
  BY <1>5 DEF Lose
<1>6. CASE Stop
  BY <1>6 DEF Stop
<1>7. CASE Crash
  BY <1>7 DEF Crash
<1> QED
  BY <1>1, <1>2, <1>3, <1>4, <1>5, <1>6, <1>7

\* The steps of the database, the network and the clock.
LEMMA CallStepsKeepLeaseInv ==
  LeaseInv /\ (ExecuteRegister \/ ExecuteHeartbeat \/ ExecuteRelease \/ GiveUp \/ Tick) => LeaseInv'
<1> SUFFICES ASSUME LeaseInv,
                    ExecuteRegister \/ ExecuteHeartbeat \/ ExecuteRelease \/ GiveUp \/ Tick
             PROVE  LeaseInv'
  OBVIOUS
<1> USE TimingAssumption
    DEF LeaseInv, DataOK, LeaseCoversAnswer, Time, Phase, Calls, AnswerKind,
        localVars, AnswerWith, Awaiting, LeaseLive
<1>1. CASE ExecuteRegister
  BY <1>1 DEF ExecuteRegister
<1>2. CASE ExecuteHeartbeat
  BY <1>2 DEF ExecuteHeartbeat
<1>3. CASE ExecuteRelease
  BY <1>3 DEF ExecuteRelease
<1>4. CASE GiveUp
  BY <1>4 DEF GiveUp
<1>5. CASE Tick
  BY <1>5 DEF Tick
<1> QED
  BY <1>1, <1>2, <1>3, <1>4, <1>5

LEMMA StutterKeepsLeaseInv == LeaseInv /\ UNCHANGED vars => LeaseInv'
BY DEF LeaseInv, DataOK, LeaseCoversAnswer, Awaiting, vars

\* The inductive invariant holds in every behaviour.
THEOREM LeaseInvHolds == Spec => []LeaseInv
<1>1. LeaseInv /\ [Next]_vars => LeaseInv'
  BY WorkerStepsKeepLeaseInv, CallStepsKeepLeaseInv, StutterKeepsLeaseInv DEF Next
<1> QED
  BY InitLease, <1>1, PTL DEF Spec

\* Every variable keeps its type (the state of workerCoordinator.ts and its row).
THEOREM LeaseTypes == Spec => []TypeOK
<1>1. Init => FlagsOK
  BY DEF Init, FlagsOK
<1>2. LeaseInv /\ FlagsOK => TypeOK
  BY DEF LeaseInv, DataOK, TypeOK
<1> QED
  BY LeaseInvHolds, FlagsKeepType, <1>1, <1>2, PTL DEF Spec

\* A worker whose ready getter is true has a live lease in the database, with
\* more than a heartbeat interval left.
THEOREM ReadyWorkerHasLease == Spec => []ReadyHasLease
<1>1. LeaseInv => ReadyHasLease
  BY TimingAssumption DEF LeaseInv, DataOK, Time, LeaseCoversAnswer, ReadyHasLease, Ready
<1> QED
  BY LeaseInvHolds, <1>1, PTL

\* No late heartbeat or release revives a lease that is over.
THEOREM OverLeaseStaysOver == Spec => LeaseNeverRevives
<1> DEFINE NoRevival == leaseUntil # 0 /\ ~LeaseLive => ~LeaseLive'
<1>1. LeaseInv /\ [Next]_vars => NoRevival
  <2> SUFFICES ASSUME LeaseInv, [Next]_vars, leaseUntil # 0, ~LeaseLive
               PROVE  ~LeaseLive'
    OBVIOUS
  <2>1. leaseUntil' = leaseUntil
    BY DEF Next, vars, localVars, LeaseLive, Start, ReceiveRegister, Beat, ReceiveBeat, Lose,
           Stop, Crash, ExecuteRegister, ExecuteHeartbeat, ExecuteRelease, GiveUp, Tick
  <2>2. now \in Nat /\ (now' = now \/ now' = now + 1)
    BY TimingAssumption
    DEF LeaseInv, DataOK, Time, Next, vars, Start, ReceiveRegister, Beat, ReceiveBeat, Lose,
        Stop, Crash, ExecuteRegister, ExecuteHeartbeat, ExecuteRelease, GiveUp, Tick
  <2>3. leaseUntil \in Nat
    BY TimingAssumption DEF LeaseInv, DataOK
  <2> QED
    BY <2>1, <2>2, <2>3 DEF LeaseLive
<1>2. LeaseInv /\ [Next]_vars => [NoRevival]_vars
  BY <1>1
<1> QED
  BY LeaseInvHolds, <1>2, PTL DEF Spec, LeaseNeverRevives

\* A started worker that is not ready once never becomes ready again.
THEOREM LostWorkerStaysLost == Spec => LostForGood
<1> DEFINE NoReturn == phase = "up" /\ ~Ready => ~Ready'
<1>1. LeaseInv /\ [Next]_vars => NoReturn
  <2> SUFFICES ASSUME LeaseInv, [Next]_vars, phase = "up", ~Ready
               PROVE  ~Ready'
    OBVIOUS
  <2> USE TimingAssumption DEF LeaseInv, DataOK, Time, Ready
  <2>1. CASE ReceiveBeat
    BY <2>1 DEF ReceiveBeat
  <2>2. CASE Tick
    BY <2>2 DEF Tick, localVars
  <2>3. CASE Stop
    BY <2>3 DEF Stop
  <2>4. CASE Lose \/ Crash
    BY <2>4 DEF Lose, Crash
  <2>5. CASE ExecuteRegister \/ ExecuteHeartbeat \/ ExecuteRelease \/ GiveUp \/ UNCHANGED vars
    BY <2>5 DEF ExecuteRegister, ExecuteHeartbeat, ExecuteRelease, GiveUp, localVars, vars
  <2>6. ~Start /\ ~ReceiveRegister /\ ~Beat
    BY DEF Start, ReceiveRegister, Beat
  <2> QED
    BY <2>1, <2>2, <2>3, <2>4, <2>5, <2>6 DEF Next
<1>2. LeaseInv /\ [Next]_vars => [NoReturn]_vars
  BY <1>1
<1> QED
  BY LeaseInvHolds, <1>2, PTL DEF Spec, LostForGood
==============================================================================
