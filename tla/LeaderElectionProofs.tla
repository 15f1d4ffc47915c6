------------------------- MODULE LeaderElectionProofs -------------------------
(* Proofs about LeaderElection: whoever acts as leader holds a lease that is
   still valid, so that there is at most one, for any number of replicas and
   any durations that satisfy TimingAssumption. *)
EXTENDS LeaderElection, TLAPS

\* The longest time between the starts of two ticks one of which ends in a call.
Slowest == IF CallTime > RetryPeriod THEN CallTime ELSE RetryPeriod

\* How old a leader's lease can be when its k-th read in a row has just failed.
Since(k) == IF k = 0 THEN 0 ELSE Slowest + (k - 1) * RetryPeriod

\* How old it can be when a read succeeds, or the shutdown begins.
Margin == Slowest + MaxMisses * RetryPeriod

\* How long a running replica waits between two ticks: after a tick that read
\* the lease the call counts, after one that did not there was none.
Pause(m) == IF misses[m] = 0 THEN Slowest ELSE RetryPeriod

\* No replica stays longer where it is than it may.
Timely == \A m \in Replicas :
    /\ mode[m] = "running" /\ plan[m] = "idle" => clock[m] <= Pause(m)
    /\ mode[m] = "running" /\ plan[m] # "idle" => clock[m] <= CallTime /\ misses[m] = 0
    /\ mode[m] = "releasing" => clock[m] <= ShutdownTimeout

\* Only a release deletes, and what is down has no call under way.
PlansFit == \A m \in Replicas :
    /\ mode[m] = "running" => plan[m] # "delete"
    /\ mode[m] = "releasing" => plan[m] \in {"idle", "delete"}
    /\ mode[m] = "down" => plan[m] = "idle" /\ ~isLeader[m]

\* While the lease is as a replica read it, what it decided is still right.
FreshIsRight == \A m \in Replicas :
    mode[m] = "running" /\ fresh[m] =>
        /\ plan[m] = "renew" => holder = m
        /\ plan[m] = "takeover" => Expired

\* The leader's lease is its own and no older than its clock and its failed
\* reads account for: this is what LeaderHoldsLease lacks.
LeaseIsYoung == \A m \in Replicas :
    Acting(m) =>
        /\ holder = m
        /\ plan[m] \in {"idle", "renew"}
        /\ age <= (IF plan[m] = "idle" THEN Since(misses[m]) ELSE Margin) + clock[m]

\* A replica on its way out still holds the lease, until it gives it up.
ReleaseIsOwn == \A m \in Replicas :
    mode[m] = "releasing" => holder = m /\ age <= Margin + clock[m]

\* The inductive invariant.
IInv == Timely /\ PlansFit /\ FreshIsRight /\ LeaseIsYoung /\ ReleaseIsOwn

-----------------------------------------------------------------------------

\* The durations are numbers, and the margins leave the lease valid.
LEMMA MarginFacts ==
    /\ Slowest \in Nat /\ RetryPeriod <= Slowest /\ CallTime <= Slowest
    /\ Margin \in Nat
    /\ Margin + CallTime <= LeaseDuration
    /\ Margin + ShutdownTimeout <= LeaseDuration
BY ElectionAssumption, TimingAssumption DEF Slowest, Margin

\* One more failed read adds at most a pause, and all of them at most Margin.
LEMMA SinceFacts ==
    ASSUME NEW k \in 0..MaxMisses
    PROVE  /\ Since(k) \in Nat
           /\ Since(k) + (IF k = 0 THEN Slowest ELSE RetryPeriod) = Since(k + 1)
           /\ Since(k + 1) <= Margin
<1>1. MaxMisses \in Nat /\ RetryPeriod \in Nat /\ Slowest \in Nat /\ k \in Nat /\ k <= MaxMisses
    BY ElectionAssumption, MarginFacts
<1>2. k * RetryPeriod <= MaxMisses * RetryPeriod /\ k * RetryPeriod \in Nat
    <2>1. MaxMisses = k + (MaxMisses - k) /\ MaxMisses - k \in Nat
        BY <1>1
    <2>2. MaxMisses * RetryPeriod = k * RetryPeriod + (MaxMisses - k) * RetryPeriod
        BY <1>1, <2>1
    <2>3. (MaxMisses - k) * RetryPeriod \in Nat /\ k * RetryPeriod \in Nat
        BY <1>1, <2>1
    <2> QED
        BY <1>1, <2>2, <2>3
<1>3. k # 0 => (k - 1) * RetryPeriod + RetryPeriod = k * RetryPeriod /\ (k - 1) * RetryPeriod \in Nat
    BY <1>1
<1>4. Since(k + 1) = Slowest + k * RetryPeriod
    BY <1>1 DEF Since
<1> QED
    BY <1>1, <1>2, <1>3, <1>4 DEF Since, Margin

\* A leader between two ticks has a lease no older than Margin.
LEMMA IdleIsYoung ==
    ASSUME TypeOK, IInv, NEW m \in Replicas, Acting(m), plan[m] = "idle"
    PROVE  /\ age <= Since(misses[m]) + Pause(m)
           /\ Since(misses[m]) + Pause(m) = Since(misses[m] + 1)
           /\ age <= Margin
<1>1. misses[m] \in 0..MaxMisses /\ clock[m] \in Nat /\ age \in Nat
    BY DEF TypeOK
<1>2. age <= Since(misses[m]) + clock[m] /\ clock[m] <= Pause(m)
    BY DEF IInv, LeaseIsYoung, Timely, Acting
<1>3. /\ Since(misses[m]) \in Nat
      /\ Since(misses[m]) + Pause(m) = Since(misses[m] + 1)
      /\ Since(misses[m] + 1) <= Margin
    BY <1>1, SinceFacts DEF Pause
<1>4. Pause(m) \in Nat
    BY MarginFacts, ElectionAssumption DEF Pause
<1>5. Margin \in Nat
    BY MarginFacts
<1> QED
    BY <1>1, <1>2, <1>3, <1>4, <1>5

\* The invariant says that the lease of whoever acts, or releases, is valid.
LEMMA HoldersLeaseValid ==
    ASSUME TypeOK, IInv, NEW m \in Replicas, Acting(m) \/ mode[m] = "releasing"
    PROVE  holder = m /\ ~Expired
<1>1. clock[m] \in Nat /\ age \in Nat /\ Margin \in Nat /\ LeaseDuration \in Nat
    BY MarginFacts, ElectionAssumption DEF TypeOK
<1>2. CASE Acting(m) /\ plan[m] = "idle"
    <2>1. age <= Margin /\ Margin <= LeaseDuration
        BY <1>2, IdleIsYoung, MarginFacts, ElectionAssumption
    <2> QED
        BY <1>1, <1>2, <2>1 DEF IInv, LeaseIsYoung, Expired
<1>3. CASE Acting(m) /\ plan[m] # "idle"
    <2>1. age <= Margin + clock[m] /\ clock[m] <= CallTime
        BY <1>3 DEF IInv, LeaseIsYoung, Timely, Acting
    <2>2. Margin + CallTime <= LeaseDuration /\ CallTime \in Nat
        BY MarginFacts, ElectionAssumption
    <2> QED
        BY <1>1, <1>3, <2>1, <2>2 DEF IInv, LeaseIsYoung, Expired
<1>4. CASE mode[m] = "releasing"
    <2>1. age <= Margin + clock[m] /\ clock[m] <= ShutdownTimeout /\ holder = m
        BY <1>4 DEF IInv, ReleaseIsOwn, Timely
    <2>2. Margin + ShutdownTimeout <= LeaseDuration /\ ShutdownTimeout \in Nat
        BY MarginFacts, ElectionAssumption
    <2> QED
        BY <1>1, <2>1, <2>2 DEF Expired
<1> QED
    BY <1>2, <1>3, <1>4

-----------------------------------------------------------------------------
(* Types *)

\* Init is well typed.
LEMMA TypeInit == Init => TypeOK
BY ElectionAssumption DEF Init, TypeOK, None

\* Every step keeps the types.
LEMMA TypeStep == TypeOK /\ [Next]_vars => TypeOK'
<1> SUFFICES ASSUME TypeOK, [Next]_vars PROVE TypeOK'
    OBVIOUS
<1> USE ElectionAssumption DEF TypeOK
<1>1. ASSUME NEW m \in Replicas, TickGet(m) PROVE TypeOK'
    <2>1. Decision(m) \in {"idle", "create", "renew", "takeover"}
        BY DEF Decision
    <2>2. isLeader' \in [Replicas -> BOOLEAN] /\ elected' \subseteq Replicas
        BY <1>1 DEF TickGet, setLeaderStatus
    <2>3. /\ plan' = [plan EXCEPT ![m] = Decision(m)]
          /\ fresh' = [fresh EXCEPT ![m] = TRUE]
          /\ clock' = [clock EXCEPT ![m] = 0]
          /\ misses' = [misses EXCEPT ![m] = 0]
          /\ UNCHANGED <<holder, age, mode, faults>>
        BY <1>1 DEF TickGet, lease
    <2> QED
        BY <2>1, <2>2, <2>3
<1>2. ASSUME NEW m \in Replicas, TickGetFails(m) PROVE TypeOK'
    BY <1>2 DEF TickGetFails, Fault, lease
<1>3. ASSUME NEW m \in Replicas, CallSucceeds(m) PROVE TypeOK'
    BY <1>3 DEF CallSucceeds, StoreLease, setLeaderStatus, EndTick
<1>4. ASSUME NEW m \in Replicas, CallRejected(m) PROVE TypeOK'
    <2>1. isLeader' \in [Replicas -> BOOLEAN]
        BY <1>4 DEF CallRejected, StepsDown, setLeaderStatus
    <2> QED
        BY <1>4, <2>1 DEF CallRejected, EndTick, lease
<1>5. ASSUME NEW m \in Replicas, CallFails(m) PROVE TypeOK'
    <2>1. isLeader' \in [Replicas -> BOOLEAN]
        BY <1>5 DEF CallFails, StepsDown, setLeaderStatus
    <2>2. holder' \in Replicas \union {None} /\ age' \in Nat /\ fresh' \in [Replicas -> BOOLEAN]
        <3>1. CASE UNCHANGED <<holder, age, fresh>>
            BY <3>1
        <3>2. CASE StoreLease(m)
            BY <3>2 DEF StoreLease
        <3> QED
            BY <1>5, <3>1, <3>2 DEF CallFails, lease
    <2>3. faults' \in 0..MaxFaults
        BY <1>5 DEF CallFails, Fault
    <2>4. EndTick(m)
        BY <1>5 DEF CallFails
    <2> QED
        BY <2>1, <2>2, <2>3, <2>4 DEF EndTick
<1>6. ASSUME NEW m \in Replicas, Shutdown(m) PROVE TypeOK'
    BY <1>6 DEF Shutdown, Fault, lease
<1>7. ASSUME NEW m \in Replicas, ReleaseGet(m) PROVE TypeOK'
    <2>1. isLeader' \in [Replicas -> BOOLEAN] /\ fresh' \in [Replicas -> BOOLEAN]
        BY <1>7 DEF ReleaseGet, Exit, setLeaderStatus
    <2>2. /\ plan' \in [Replicas -> {"idle", "create", "renew", "takeover", "delete"}]
          /\ mode' \in [Replicas -> {"running", "releasing", "down"}]
        BY <1>7 DEF ReleaseGet, Exit
    <2> QED
        BY <1>7, <2>1, <2>2 DEF ReleaseGet, lease
<1>8. ASSUME NEW m \in Replicas, ReleaseDelete(m) PROVE TypeOK'
    BY <1>8 DEF ReleaseDelete, Exit, setLeaderStatus, None
<1>9. ASSUME NEW m \in Replicas, ReleaseExpire(m) PROVE TypeOK'
    <2>1. age' \in Nat /\ fresh' \in [Replicas -> BOOLEAN]
        <3>1. CASE age' = LeaseDuration + 1 /\ fresh' = [x \in Replicas |-> FALSE]
            BY <3>1
        <3>2. CASE UNCHANGED <<age, fresh>>
            BY <3>2
        <3> QED
            BY <1>9, <3>1, <3>2 DEF ReleaseExpire
    <2>2. faults' \in 0..MaxFaults
        BY <1>9 DEF ReleaseExpire, Fault
    <2>3. Exit(m) /\ UNCHANGED <<holder, clock, misses, elected>>
        BY <1>9 DEF ReleaseExpire
    <2> QED
        BY <2>1, <2>2, <2>3 DEF Exit, setLeaderStatus
<1>10. ASSUME NEW m \in Replicas, Crash(m) PROVE TypeOK'
    BY <1>10 DEF Crash, Exit, setLeaderStatus, Fault, lease
<1>11. ASSUME NEW m \in Replicas, Restart(m) PROVE TypeOK'
    BY <1>11 DEF Restart, lease
<1>12. CASE Advance
    BY <1>12 DEF Advance
<1>13. CASE UNCHANGED vars
    BY <1>13 DEF vars
<1> QED
    BY <1>1, <1>2, <1>3, <1>4, <1>5, <1>6, <1>7, <1>8, <1>9, <1>10, <1>11, <1>12, <1>13
    DEF Next, TickStep, ReleaseStep, Trouble

-----------------------------------------------------------------------------
(* Who holds the lease *)

\* At the start nobody leads and no call is planned.
LEMMA IInvInit == Init => IInv
BY MarginFacts, ElectionAssumption
DEF Init, IInv, Timely, PlansFit, FreshIsRight, LeaseIsYoung, ReleaseIsOwn, Acting, Pause

\* A tick that reads the lease.
LEMMA TickGetStep ==
    ASSUME TypeOK, IInv, NEW m \in Replicas, TickGet(m)
    PROVE  IInv'
<1> USE DEF IInv
<1>1. /\ mode[m] = "running" /\ plan[m] = "idle"
      /\ plan' = [plan EXCEPT ![m] = Decision(m)]
      /\ clock' = [clock EXCEPT ![m] = 0]
      /\ misses' = [misses EXCEPT ![m] = 0]
      /\ fresh' = [fresh EXCEPT ![m] = TRUE]
      /\ UNCHANGED <<holder, age, mode>>
    BY DEF TickGet, lease
<1>2. \A x \in Replicas : x # m => isLeader'[x] = isLeader[x]
    BY DEF TickGet, setLeaderStatus, TypeOK
<1>3. Decision(m) \in {"idle", "create", "renew", "takeover"}
    BY DEF Decision
<1>4. Timely'
    BY <1>1, MarginFacts, ElectionAssumption DEF Timely, Pause, TypeOK
<1>5. PlansFit'
    BY <1>1, <1>2, <1>3 DEF PlansFit, TypeOK
<1>6. FreshIsRight'
    BY <1>1 DEF FreshIsRight, TypeOK, Decision, Expired
<1>7. ReleaseIsOwn'
    BY <1>1 DEF ReleaseIsOwn, TypeOK
<1>8. LeaseIsYoung'
    <2> SUFFICES ASSUME NEW x \in Replicas, Acting(x)'
                 PROVE  /\ holder' = x
                        /\ plan'[x] \in {"idle", "renew"}
                        /\ age' <= (IF plan'[x] = "idle" THEN Since(misses'[x]) ELSE Margin) + clock'[x]
        BY DEF LeaseIsYoung
    <2>1. CASE x # m
        BY <1>1, <1>2, <2>1 DEF LeaseIsYoung, Acting, TypeOK
    <2>2. CASE x = m
        <3>1. Decision(m) # "idle" /\ isLeader[m]
            BY <2>2 DEF TickGet, setLeaderStatus, Acting, TypeOK
        <3>2. holder = m /\ age <= Margin
            BY <1>1, <3>1, IdleIsYoung DEF Acting, LeaseIsYoung
        <3>3. Decision(m) = "renew"
            BY <3>1, <3>2, ElectionAssumption DEF Decision, None
        <3>4. plan'[m] = "renew" /\ clock'[m] = 0
            BY <1>1, <3>3 DEF TypeOK
        <3> QED
            BY <1>1, <2>2, <3>2, <3>4, MarginFacts DEF TypeOK
    <2> QED
        BY <2>1, <2>2
<1> QED
    BY <1>4, <1>5, <1>6, <1>7, <1>8

\* A tick whose read fails: the lease has aged one pause more.
LEMMA TickGetFailsStep ==
    ASSUME TypeOK, IInv, NEW m \in Replicas, TickGetFails(m)
    PROVE  IInv'
<1> USE DEF IInv
<1>1. /\ mode[m] = "running" /\ plan[m] = "idle" /\ misses[m] < MaxMisses
      /\ clock' = [clock EXCEPT ![m] = 0]
      /\ misses' = [misses EXCEPT ![m] = misses[m] + 1]
      /\ UNCHANGED <<holder, age, isLeader, mode, plan, fresh>>
    BY DEF TickGetFails, lease
<1>2. Timely'
    BY <1>1, MarginFacts, ElectionAssumption DEF Timely, Pause, TypeOK
<1>3. PlansFit' /\ FreshIsRight' /\ ReleaseIsOwn'
    BY <1>1 DEF PlansFit, FreshIsRight, ReleaseIsOwn, TypeOK, Expired
<1>4. LeaseIsYoung'
    <2>1. Acting(m) => age <= Since(misses[m] + 1)
        BY <1>1, IdleIsYoung
    <2>2. misses'[m] = misses[m] + 1 /\ clock'[m] = 0
        BY <1>1 DEF TypeOK
    <2>3. \A x \in Replicas : x # m => misses'[x] = misses[x] /\ clock'[x] = clock[x]
        BY <1>1 DEF TypeOK
    <2>4. Since(misses[m] + 1) \in Nat
        <3>1. misses[m] + 1 \in 0..MaxMisses
            BY <1>1, ElectionAssumption DEF TypeOK
        <3> QED
            BY <3>1, SinceFacts
    <2> QED
        BY <1>1, <2>1, <2>2, <2>3, <2>4 DEF LeaseIsYoung, Acting, TypeOK
<1> QED
    BY <1>2, <1>3, <1>4

\* A call that stores the lease as its sender's: nobody else acts or releases.
LEMMA StoreExcludes ==
    ASSUME TypeOK, IInv, NEW m \in Replicas, mode[m] = "running",
           \/ plan[m] = "create" /\ holder = None
           \/ plan[m] \in {"renew", "takeover"} /\ fresh[m]
    PROVE  \A x \in Replicas : x # m => ~Acting(x) /\ mode[x] # "releasing"
<1> SUFFICES ASSUME NEW x \in Replicas, x # m, Acting(x) \/ mode[x] = "releasing"
             PROVE  FALSE
    OBVIOUS
<1>1. holder = x /\ ~Expired
    BY HoldersLeaseValid
<1>2. holder # None
    BY <1>1, ElectionAssumption DEF None
<1> QED
    BY <1>1, <1>2 DEF IInv, FreshIsRight

\* A call that succeeds.
LEMMA CallSucceedsStep ==
    ASSUME TypeOK, IInv, NEW m \in Replicas, CallSucceeds(m)
    PROVE  IInv'
<1> USE DEF IInv
<1>1. /\ mode[m] = "running" /\ plan[m] # "idle"
      /\ holder' = m /\ age' = clock[m]
      /\ fresh' = [x \in Replicas |-> FALSE]
      /\ isLeader' = [isLeader EXCEPT ![m] = TRUE]
      /\ plan' = [plan EXCEPT ![m] = "idle"]
      /\ UNCHANGED <<mode, clock, misses>>
    BY DEF CallSucceeds, StoreLease, setLeaderStatus, EndTick
<1>2. \A x \in Replicas : x # m => ~Acting(x) /\ mode[x] # "releasing"
    BY StoreExcludes DEF CallSucceeds
<1>3. misses[m] = 0 /\ clock[m] <= CallTime /\ clock[m] \in Nat
    BY <1>1 DEF Timely, TypeOK
<1>4. Timely'
    BY <1>1, <1>3, MarginFacts, ElectionAssumption DEF Timely, Pause, TypeOK
<1>5. PlansFit' /\ FreshIsRight'
    BY <1>1 DEF PlansFit, FreshIsRight, TypeOK
<1>6. ReleaseIsOwn'
    BY <1>1, <1>2 DEF ReleaseIsOwn
<1>7. LeaseIsYoung'
    BY <1>1, <1>2, <1>3 DEF LeaseIsYoung, Acting, TypeOK, Since
<1> QED
    BY <1>4, <1>5, <1>6, <1>7

\* A call that is rejected changes no lease, and ends the leadership of a
\* replica that could not renew.
LEMMA CallRejectedStep ==
    ASSUME TypeOK, IInv, NEW m \in Replicas, mode[m] = "running", plan[m] # "idle",
           StepsDown(m), EndTick(m), UNCHANGED <<holder, age, fresh>>
    PROVE  IInv'
<1> USE DEF IInv
<1>1. /\ plan' = [plan EXCEPT ![m] = "idle"]
      /\ UNCHANGED <<mode, clock, misses>>
    BY DEF EndTick
<1>2. \A x \in Replicas : x # m => isLeader'[x] = isLeader[x]
    BY DEF StepsDown, setLeaderStatus, TypeOK
<1>3. ~isLeader'[m]
    <2>1. CASE plan[m] = "renew"
        BY <2>1 DEF StepsDown, setLeaderStatus, TypeOK
    <2>2. CASE plan[m] # "renew"
        BY <2>2 DEF StepsDown, LeaseIsYoung, Acting
    <2> QED
        BY <2>1, <2>2
<1>4. misses[m] = 0 /\ clock[m] <= CallTime
    BY DEF Timely
<1>5. Timely'
    BY <1>1, <1>4, MarginFacts, ElectionAssumption DEF Timely, Pause, TypeOK
<1>6. PlansFit' /\ FreshIsRight'
    BY <1>1, <1>2 DEF PlansFit, FreshIsRight, TypeOK, Expired
<1>7. ReleaseIsOwn'
    BY <1>1 DEF ReleaseIsOwn
<1>8. LeaseIsYoung'
    BY <1>1, <1>2, <1>3 DEF LeaseIsYoung, Acting, TypeOK
<1> QED
    BY <1>5, <1>6, <1>7, <1>8

\* A call that fails, also after the lease was stored.
LEMMA CallFailsStep ==
    ASSUME TypeOK, IInv, NEW m \in Replicas, CallFails(m)
    PROVE  IInv'
<1> USE DEF IInv
<1>1. CASE UNCHANGED <<holder, age, fresh>>
    BY <1>1, CallRejectedStep DEF CallFails
<1>2. CASE StoreLease(m) /\ IF plan[m] = "create" THEN holder = None ELSE fresh[m]
    <2>1. /\ mode[m] = "running" /\ plan[m] # "idle"
          /\ holder' = m /\ age' = clock[m]
          /\ fresh' = [x \in Replicas |-> FALSE]
          /\ plan' = [plan EXCEPT ![m] = "idle"]
          /\ UNCHANGED <<mode, clock, misses>>
        BY <1>2 DEF CallFails, StoreLease, EndTick
    <2>2. \A x \in Replicas : x # m => isLeader'[x] = isLeader[x]
        BY DEF CallFails, StepsDown, setLeaderStatus, TypeOK
    <2>3. ~isLeader'[m]
        <3>1. CASE plan[m] = "renew"
            BY <3>1 DEF CallFails, StepsDown, setLeaderStatus, TypeOK
        <3>2. CASE plan[m] # "renew"
            BY <2>1, <3>2 DEF CallFails, StepsDown, LeaseIsYoung, Acting
        <3> QED
            BY <3>1, <3>2
    <2>4. \A x \in Replicas : x # m => ~Acting(x) /\ mode[x] # "releasing"
        <3>1. plan[m] \in {"create", "renew", "takeover"}
            BY <2>1 DEF PlansFit, TypeOK
        <3> QED
            BY <1>2, <2>1, <3>1, StoreExcludes
    <2>5. misses[m] = 0 /\ clock[m] <= CallTime
        BY <2>1 DEF Timely
    <2>6. Timely'
        BY <2>1, <2>5, MarginFacts, ElectionAssumption DEF Timely, Pause, TypeOK
    <2>7. PlansFit' /\ FreshIsRight'
        BY <2>1, <2>2 DEF PlansFit, FreshIsRight, TypeOK
    <2>8. ReleaseIsOwn' /\ LeaseIsYoung'
        BY <2>1, <2>2, <2>3, <2>4 DEF ReleaseIsOwn, LeaseIsYoung, Acting
    <2> QED
        BY <2>6, <2>7, <2>8
<1> QED
    BY <1>1, <1>2 DEF CallFails, lease

\* A shutdown begins between two ticks, with a lease no older than Margin.
LEMMA ShutdownStep ==
    ASSUME TypeOK, IInv, NEW m \in Replicas, Shutdown(m)
    PROVE  IInv'
<1> USE DEF IInv
<1>1. /\ mode[m] = "running" /\ plan[m] = "idle"
      /\ mode' = [mode EXCEPT ![m] = IF isLeader[m] THEN "releasing" ELSE "down"]
      /\ clock' = [clock EXCEPT ![m] = 0]
      /\ UNCHANGED <<holder, age, isLeader, plan, fresh, misses>>
    BY DEF Shutdown, lease
<1>2. Timely'
    BY <1>1, ElectionAssumption DEF Timely, Pause, TypeOK
<1>3. PlansFit' /\ FreshIsRight'
    BY <1>1 DEF PlansFit, FreshIsRight, TypeOK, Expired
<1>4. LeaseIsYoung'
    BY <1>1 DEF LeaseIsYoung, Acting, TypeOK
<1>5. isLeader[m] => holder = m /\ age <= Margin
    BY <1>1, IdleIsYoung DEF LeaseIsYoung, Acting
<1>6. ReleaseIsOwn'
    BY <1>1, <1>5, MarginFacts DEF ReleaseIsOwn, TypeOK
<1> QED
    BY <1>2, <1>3, <1>4, <1>6

\* The process of a replica ends while nobody else acts or releases, or leaves
\* the lease alone.
LEMMA ExitStep ==
    ASSUME TypeOK, IInv, NEW m \in Replicas, Exit(m), UNCHANGED <<clock, misses>>,
           \/ UNCHANGED <<holder, age, fresh>>
           \/ UNCHANGED <<holder, age>> /\ fresh' = [x \in Replicas |-> FALSE]
           \/ /\ \A x \in Replicas : x # m => ~Acting(x) /\ mode[x] # "releasing"
              /\ fresh' = [x \in Replicas |-> FALSE]
    PROVE  IInv'
<1> USE DEF IInv
<1>1. /\ mode' = [mode EXCEPT ![m] = "down"]
      /\ plan' = [plan EXCEPT ![m] = "idle"]
      /\ isLeader' = [isLeader EXCEPT ![m] = FALSE]
    BY DEF Exit, setLeaderStatus
<1>2. Timely' /\ PlansFit'
    BY <1>1 DEF Timely, PlansFit, Pause, TypeOK
<1>3. FreshIsRight'
    BY <1>1 DEF FreshIsRight, Expired, TypeOK
<1>4. LeaseIsYoung'
    BY <1>1 DEF LeaseIsYoung, Acting, TypeOK
<1>5. ReleaseIsOwn'
    BY <1>1 DEF ReleaseIsOwn, Acting, TypeOK
<1> QED
    BY <1>2, <1>3, <1>4, <1>5

\* While a replica releases the lease, nobody else acts or releases: its Delete,
\* which has no precondition, removes its own lease.
LEMMA ReleaseExcludes ==
    ASSUME TypeOK, IInv, NEW m \in Replicas, mode[m] = "releasing"
    PROVE  \A x \in Replicas : x # m => ~Acting(x) /\ mode[x] # "releasing"
BY HoldersLeaseValid

\* The steps of a release, and a crash.
LEMMA ReleaseSteps ==
    ASSUME TypeOK, IInv, NEW m \in Replicas,
           ReleaseGet(m) \/ ReleaseDelete(m) \/ ReleaseExpire(m) \/ Crash(m)
    PROVE  IInv'
<1>1. CASE ReleaseGet(m)
    <2>1. mode[m] = "releasing" /\ holder = m
        BY <1>1 DEF ReleaseGet, IInv, ReleaseIsOwn
    <2>2. /\ plan' = [plan EXCEPT ![m] = "delete"]
          /\ fresh' = [fresh EXCEPT ![m] = TRUE]
          /\ UNCHANGED <<holder, age, isLeader, mode, clock, misses>>
        BY <1>1, <2>1 DEF ReleaseGet, lease
    <2>3. Timely' /\ PlansFit'
        BY <2>1, <2>2 DEF IInv, Timely, PlansFit, Pause, TypeOK
    <2>4. FreshIsRight' /\ LeaseIsYoung' /\ ReleaseIsOwn'
        BY <2>1, <2>2 DEF IInv, FreshIsRight, LeaseIsYoung, ReleaseIsOwn, Acting, Expired, TypeOK
    <2> QED
        BY <2>3, <2>4 DEF IInv
<1>2. CASE ReleaseDelete(m)
    <2>1. \A x \in Replicas : x # m => ~Acting(x) /\ mode[x] # "releasing"
        BY <1>2, ReleaseExcludes DEF ReleaseDelete
    <2> QED
        BY <1>2, <2>1, ExitStep DEF ReleaseDelete
<1>3. CASE ReleaseExpire(m)
    <2>1. \A x \in Replicas : x # m => ~Acting(x) /\ mode[x] # "releasing"
        BY <1>3, ReleaseExcludes DEF ReleaseExpire
    <2>2. CASE fresh[m]
        BY <1>3, <2>1, <2>2, ExitStep DEF ReleaseExpire
    <2>3. CASE ~fresh[m]
        BY <1>3, <2>3, ExitStep DEF ReleaseExpire
    <2> QED
        BY <2>2, <2>3
<1>4. CASE Crash(m)
    BY <1>4, ExitStep DEF Crash, lease
<1> QED
    BY <1>1, <1>2, <1>3, <1>4

\* A replica that comes back does not take itself for the leader.
LEMMA RestartStep ==
    ASSUME TypeOK, IInv, NEW m \in Replicas, Restart(m)
    PROVE  IInv'
<1> USE DEF IInv
<1>1. /\ mode[m] = "down"
      /\ mode' = [mode EXCEPT ![m] = "running"]
      /\ clock' = [clock EXCEPT ![m] = 0]
      /\ misses' = [misses EXCEPT ![m] = 0]
      /\ UNCHANGED <<holder, age, isLeader, plan, fresh>>
    BY DEF Restart, lease
<1>2. plan[m] = "idle" /\ ~isLeader[m]
    BY <1>1 DEF PlansFit
<1>3. Timely'
    BY <1>1, <1>2, MarginFacts DEF Timely, Pause, TypeOK
<1>4. PlansFit' /\ FreshIsRight'
    BY <1>1, <1>2 DEF PlansFit, FreshIsRight, Expired, TypeOK
<1>5. LeaseIsYoung' /\ ReleaseIsOwn'
    BY <1>1, <1>2 DEF LeaseIsYoung, ReleaseIsOwn, Acting, TypeOK
<1> QED
    BY <1>3, <1>4, <1>5

\* Time passes for the lease and for whoever counts on it alike.
LEMMA AdvanceStep == TypeOK /\ IInv /\ Advance => IInv'
<1> SUFFICES ASSUME TypeOK, IInv, Advance PROVE IInv'
    OBVIOUS
<1> USE DEF IInv
<1>1. /\ \A m \in Replicas : mode[m] # "down" => clock[m] < Patience(m)
      /\ clock' = [m \in Replicas |-> IF mode[m] = "down" THEN clock[m] ELSE clock[m] + 1]
      /\ UNCHANGED <<holder, isLeader, mode, plan, fresh, misses>>
    BY DEF Advance
<1>2. age <= age' /\ age' <= age + 1 /\ age' \in Nat
    BY DEF Advance, TypeOK
<1>3. \A m \in Replicas : mode[m] # "down" => clock'[m] = clock[m] + 1
    BY <1>1
<1>4. Timely'
    <2>1. ASSUME NEW m \in Replicas, mode[m] = "running", plan[m] = "idle"
          PROVE  clock'[m] <= Pause(m)'
        <3>1. clock[m] < RetryPeriod
            BY <1>1, <2>1 DEF Patience
        <3>2. Pause(m)' = Pause(m) /\ RetryPeriod <= Pause(m) /\ Pause(m) \in Nat
            BY <1>1, MarginFacts, ElectionAssumption DEF Pause
        <3> QED
            BY <1>3, <2>1, <3>1, <3>2, ElectionAssumption DEF TypeOK
    <2>2. ASSUME NEW m \in Replicas, mode[m] = "running", plan[m] # "idle"
          PROVE  clock'[m] <= CallTime /\ misses'[m] = 0
        BY <1>1, <1>3, <2>2, ElectionAssumption DEF Patience, Timely, TypeOK
    <2>3. ASSUME NEW m \in Replicas, mode[m] = "releasing"
          PROVE  clock'[m] <= ShutdownTimeout
        BY <1>1, <1>3, <2>3, ElectionAssumption DEF Patience, TypeOK
    <2> QED
        BY <1>1, <2>1, <2>2, <2>3 DEF Timely
<1>5. PlansFit'
    BY <1>1 DEF PlansFit
<1>6. FreshIsRight'
    BY <1>1, <1>2, ElectionAssumption DEF FreshIsRight, Expired, TypeOK
<1>7. LeaseIsYoung'
    <2> SUFFICES ASSUME NEW m \in Replicas, Acting(m)
                 PROVE  /\ holder = m /\ plan[m] \in {"idle", "renew"}
                        /\ age' <= (IF plan[m] = "idle" THEN Since(misses[m]) ELSE Margin) + clock'[m]
        BY <1>1 DEF LeaseIsYoung, Acting
    <2> DEFINE base == IF plan[m] = "idle" THEN Since(misses[m]) ELSE Margin
    <2>1. base \in Nat
        BY SinceFacts, MarginFacts DEF TypeOK
    <2>2. age <= base + clock[m] /\ holder = m /\ plan[m] \in {"idle", "renew"}
        BY DEF LeaseIsYoung
    <2>3. clock'[m] = clock[m] + 1 /\ clock[m] \in Nat /\ age \in Nat
        BY <1>3 DEF Acting, TypeOK
    <2> HIDE DEF base
    <2>4. age' <= base + clock'[m]
        BY <1>2, <2>1, <2>2, <2>3
    <2> QED
        BY <2>2, <2>4 DEF base
<1>8. ReleaseIsOwn'
    BY <1>1, <1>2, <1>3, MarginFacts DEF ReleaseIsOwn, TypeOK
<1> QED
    BY <1>4, <1>5, <1>6, <1>7, <1>8

\* Every step keeps the inductive invariant.
LEMMA IInvStep == TypeOK /\ IInv /\ [Next]_vars => IInv'
<1> SUFFICES ASSUME TypeOK, IInv, [Next]_vars PROVE IInv'
    OBVIOUS
<1>1. ASSUME NEW m \in Replicas, CallRejected(m) PROVE IInv'
    BY <1>1, CallRejectedStep DEF CallRejected, lease
<1>2. CASE UNCHANGED vars
    BY <1>2 DEF vars, IInv, Timely, PlansFit, FreshIsRight, LeaseIsYoung, ReleaseIsOwn,
                Acting, Pause, Expired
<1> QED
    BY <1>1, <1>2, TickGetStep, TickGetFailsStep, CallSucceedsStep, CallFailsStep, ShutdownStep,
       ReleaseSteps, RestartStep, AdvanceStep
    DEF Next, TickStep, ReleaseStep, Trouble

-----------------------------------------------------------------------------
(* The theorems *)

\* Every variable has its type: no renewal stamps the lease with a time to come
\* (leader.go, Manager.Start).
THEOREM TypeCorrect == Safe => []TypeOK
BY TypeInit, TypeStep, PTL DEF Safe

\* The inductive invariant holds throughout.
THEOREM Invariance == Safe => [](TypeOK /\ IInv)
BY TypeInit, TypeStep, IInvInit, IInvStep, PTL DEF Safe

\* A replica that acts as leader holds a lease that is not expired, for any
\* durations within TimingAssumption.
THEOREM LeaderLeaseValid == Safe => []LeaderHoldsLease
<1>1. TypeOK /\ IInv => LeaderHoldsLease
    BY HoldersLeaseValid DEF LeaderHoldsLease
<1> QED
    BY <1>1, Invariance, PTL

\* Two replicas never both act as leader.
THEOREM OneLeader == Safe => []AtMostOneLeader
<1>1. TypeOK /\ IInv => AtMostOneLeader
    BY HoldersLeaseValid DEF AtMostOneLeader
<1> QED
    BY <1>1, Invariance, PTL

=============================================================================
