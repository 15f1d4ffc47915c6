----------------------------- MODULE LeaderElection -----------------------------
(***************************************************************************)
(* Leader election over one Kubernetes Lease (pkg/leader).                 *)
(*                                                                         *)
(* Every replica ticks: it reads the lease, decides, and may send one call *)
(* that creates or updates it.  The API server rejects an update of a      *)
(* lease that changed since it was read (resourceVersion); Delete has no   *)
(* such check.  Calls may fail, also after they took effect, and replicas  *)
(* crash, shut down with a release, and come back under the same name.     *)
(*                                                                         *)
(* Time is a common clock in units of the retry period.  Only ages are     *)
(* kept: of the lease since its RenewTime, and of the step a replica is    *)
(* in.  A tick starts within RetryPeriod of the last one.                  *)
(*                                                                         *)
(* Two bounds are ASSUMED, the code sets neither: a call returns within    *)
(* CallTime (the client has no timeout, the calls no deadline), and at     *)
(* most MaxMisses reads of the lease fail in a row (a leader whose reads   *)
(* fail stays leader, however often).  Without them two replicas may act   *)
(* as leader (README, section 5).                                          *)
(***************************************************************************)
EXTENDS Naturals, FiniteSets

CONSTANTS
    Replicas,         \* the replicas, by node identifier
    LeaseDuration,    \* a lease not renewed for longer may be taken over
    RenewDeadline,    \* ElectionConfig.RenewDeadline
    RetryPeriod,      \* longest time between the starts of two ticks
    CallTime,         \* assumed: longest time from the decision to the call's answer
    ShutdownTimeout,  \* longest time from the signal to the end of the process
    MaxMisses,        \* assumed: most reads of the lease that fail in a row
    MaxFaults         \* bound: failed calls, crashes and shutdowns in all

ASSUME ElectionAssumption ==
    /\ Replicas # {}
    /\ LeaseDuration \in Nat /\ RenewDeadline \in Nat
    /\ RetryPeriod \in Nat \ {0} /\ CallTime \in Nat
    /\ ShutdownTimeout \in Nat
    /\ MaxMisses \in Nat /\ MaxFaults \in Nat
    /\ "none" \notin Replicas

\* The environment the election is safe in: a lease read late (MaxMisses reads
\* failed) is still valid when the renewal, or the whole shutdown, is over.
\* DefaultElectionConfig and the server's shutdown timeout leave room for one
\* failed read and for calls of up to 3 s; nothing in the code enforces it.
ASSUME TimingAssumption ==
    LET slowest == IF CallTime > RetryPeriod THEN CallTime ELSE RetryPeriod
        margin == slowest + MaxMisses * RetryPeriod
    IN  margin + CallTime <= LeaseDuration /\ margin + ShutdownTimeout <= LeaseDuration

None == "none"

VARIABLES
    holder,    \* spec.holderIdentity of the lease; None while it does not exist
    age,       \* time since spec.renewTime, at most LeaseDuration + 1
    isLeader,  \* Manager.isLeader of each replica
    mode,      \* "running", "releasing" or "down"
    plan,      \* the call a tick or a release is about to make, "idle" for none
    fresh,     \* is the lease as this replica read it?
    clock,     \* time since the replica's tick or release began
    misses,    \* reads that failed in a row
    elected,   \* replicas whose initialElectionDone is closed
    faults     \* number of faults so far

lease == <<holder, age>>
vars == <<holder, age, isLeader, mode, plan, fresh, clock, misses, elected, faults>>

Expired == age > LeaseDuration

\* The replica counts itself leader and its controllers run.
Acting(m) == mode[m] = "running" /\ isLeader[m]

Fault == faults < MaxFaults /\ faults' = faults + 1

-----------------------------------------------------------------------------
(* The lease, as the API server changes it. *)

\* Mutant of StoreLease: RenewTime is stamped one unit ahead of the clock.
StampsAhead(m) ==
    /\ holder' = m
    /\ age' = clock[m] - 1
    /\ fresh' = [x \in Replicas |-> FALSE]

\* The lease is stored with m as holder and the time m read before the call.
StoreLease(m) ==
    /\ holder' = m
    /\ age' = clock[m]
    /\ fresh' = [x \in Replicas |-> FALSE]

-----------------------------------------------------------------------------
(* Manager.Start: one tick *)

setLeaderStatus(m, b) == isLeader' = [isLeader EXCEPT ![m] = b]

\* Mutant of Decision: the age of the lease is not looked at.
DecisionEager(m) ==
    IF holder = None THEN "create"
    ELSE IF holder = m THEN "renew"
    ELSE "takeover"

\* What a tick does after reading the lease.
Decision(m) ==
    IF holder = None THEN "create"
    ELSE IF holder = m THEN "renew"
    ELSE IF Expired THEN "takeover"
    ELSE "idle"

\* The tick reads the lease; with nothing to call it ends, and a replica that
\* finds another holder steps down.
TickGet(m) ==
    /\ mode[m] = "running"
    /\ plan[m] = "idle"
    /\ plan' = [plan EXCEPT ![m] = Decision(m)]
    /\ IF Decision(m) = "idle"
       THEN setLeaderStatus(m, FALSE) /\ elected' = elected \union {m}
       ELSE UNCHANGED <<isLeader, elected>>
    /\ fresh' = [fresh EXCEPT ![m] = TRUE]
    /\ clock' = [clock EXCEPT ![m] = 0]
    /\ misses' = [misses EXCEPT ![m] = 0]
    /\ UNCHANGED <<lease, mode, faults>>

\* The read fails: the tick ends, a leader stays leader.  That no more than
\* MaxMisses reads fail in a row is an assumption, not a check of the code.
TickGetFails(m) ==
    /\ mode[m] = "running"
    /\ plan[m] = "idle"
    /\ misses[m] < MaxMisses
    /\ Fault
    /\ misses' = [misses EXCEPT ![m] = @ + 1]
    /\ elected' = elected \union {m}
    /\ clock' = [clock EXCEPT ![m] = 0]
    /\ UNCHANGED <<lease, isLeader, mode, plan, fresh>>

\* Mutant of EndTick: only a replica that finds another holder, or reads
\* nothing, reports its initial election.
EndTickSilently(m) ==
    /\ plan' = [plan EXCEPT ![m] = "idle"]
    /\ UNCHANGED <<mode, clock, misses, elected>>

\* The tick ends; the first one to end closes initialElectionDone.
EndTick(m) ==
    /\ plan' = [plan EXCEPT ![m] = "idle"]
    /\ elected' = elected \union {m}
    /\ UNCHANGED <<mode, clock, misses>>

\* The create or the update succeeds.
CallSucceeds(m) ==
    /\ mode[m] = "running"
    /\ \/ plan[m] = "create" /\ holder = None
       \/ plan[m] \in {"renew", "takeover"} /\ fresh[m]
    /\ StoreLease(m)
    /\ setLeaderStatus(m, TRUE)
    /\ EndTick(m)
    /\ UNCHANGED faults

\* Mutant of StepsDown: a failed renewal leaves the status alone.
NeverStepsDown(m) == UNCHANGED isLeader

\* A failed renewal ends the leadership; a failed create or takeover does not.
StepsDown(m) ==
    IF plan[m] = "renew" THEN setLeaderStatus(m, FALSE) ELSE UNCHANGED isLeader

\* The call is rejected: the lease exists by now, or changed since the read.
CallRejected(m) ==
    /\ mode[m] = "running"
    /\ \/ plan[m] = "create" /\ holder # None
       \/ plan[m] \in {"renew", "takeover"} /\ ~fresh[m]
    /\ StepsDown(m)
    /\ EndTick(m)
    /\ UNCHANGED <<lease, fresh, faults>>

\* The call fails on its way there, or its answer is lost on the way back.
CallFails(m) ==
    /\ mode[m] = "running"
    /\ plan[m] # "idle"
    /\ Fault
    /\ \/ UNCHANGED <<lease, fresh>>
       \/ /\ IF plan[m] = "create" THEN holder = None ELSE fresh[m]
          /\ StoreLease(m)
    /\ StepsDown(m)
    /\ EndTick(m)

-----------------------------------------------------------------------------
(* ReleaseLeadership, once the manager and its controllers have stopped *)

\* The context is cancelled between two ticks.  The manager stops its
\* controllers before the lease is released; all of it, and the kill that ends
\* it, falls within ShutdownTimeout (terminationGracePeriodSeconds is as long).
Shutdown(m) ==
    /\ mode[m] = "running"
    /\ plan[m] = "idle"
    /\ Fault
    /\ mode' = [mode EXCEPT ![m] = IF isLeader[m] THEN "releasing" ELSE "down"]
    /\ clock' = [clock EXCEPT ![m] = 0]
    /\ UNCHANGED <<lease, isLeader, plan, fresh, misses, elected>>

\* The process ends.
Exit(m) ==
    /\ mode' = [mode EXCEPT ![m] = "down"]
    /\ plan' = [plan EXCEPT ![m] = "idle"]
    /\ setLeaderStatus(m, FALSE)

\* Read the lease: only its holder goes on to delete it.
ReleaseGet(m) ==
    /\ mode[m] = "releasing"
    /\ plan[m] = "idle"
    /\ IF holder = m
       THEN /\ plan' = [plan EXCEPT ![m] = "delete"]
            /\ fresh' = [fresh EXCEPT ![m] = TRUE]
            /\ UNCHANGED <<isLeader, mode>>
       ELSE Exit(m) /\ UNCHANGED fresh
    /\ UNCHANGED <<lease, clock, misses, elected, faults>>

\* Delete carries no precondition: it removes whatever lease there is now.
ReleaseDelete(m) ==
    /\ mode[m] = "releasing"
    /\ plan[m] = "delete"
    /\ holder' = None
    /\ age' = 0
    /\ fresh' = [x \in Replicas |-> FALSE]
    /\ Exit(m)
    /\ UNCHANGED <<clock, misses, elected, faults>>

\* The delete failed: set RenewTime to the past instead, if nothing changed.
ReleaseExpire(m) ==
    /\ mode[m] = "releasing"
    /\ plan[m] = "delete"
    /\ Fault
    /\ IF fresh[m]
       THEN age' = LeaseDuration + 1 /\ fresh' = [x \in Replicas |-> FALSE]
       ELSE UNCHANGED <<age, fresh>>
    /\ Exit(m)
    /\ UNCHANGED <<holder, clock, misses, elected>>

\* Any call of the release fails for good, or the process is killed.
Crash(m) ==
    /\ mode[m] # "down"
    /\ Fault
    /\ Exit(m)
    /\ UNCHANGED <<lease, fresh, clock, misses, elected>>

Restart(m) ==
    /\ mode[m] = "down"
    /\ mode' = [mode EXCEPT ![m] = "running"]
    /\ clock' = [clock EXCEPT ![m] = 0]
    /\ misses' = [misses EXCEPT ![m] = 0]
    /\ elected' = elected \ {m}
    /\ UNCHANGED <<lease, isLeader, plan, fresh, faults>>

-----------------------------------------------------------------------------

\* How long a replica may stay where it is: RetryPeriod is the ticker's and
\* ShutdownTimeout the server's, CallTime is assumed.
Patience(m) ==
    IF mode[m] = "releasing" THEN ShutdownTimeout
    ELSE IF plan[m] = "idle" THEN RetryPeriod
    ELSE CallTime

Advance ==
    /\ \A m \in Replicas : mode[m] # "down" => clock[m] < Patience(m)
    /\ age' = IF holder = None \/ Expired THEN age ELSE age + 1
    /\ clock' = [m \in Replicas |-> IF mode[m] = "down" THEN clock[m] ELSE clock[m] + 1]
    /\ UNCHANGED <<holder, isLeader, mode, plan, fresh, misses, elected, faults>>

Init ==
    /\ holder = None
    /\ age = 0
    /\ isLeader = [m \in Replicas |-> FALSE]
    /\ mode = [m \in Replicas |-> "running"]
    /\ plan = [m \in Replicas |-> "idle"]
    /\ fresh = [m \in Replicas |-> FALSE]
    /\ clock = [m \in Replicas |-> 0]
    /\ misses = [m \in Replicas |-> 0]
    /\ elected = {}
    /\ faults = 0

TickStep(m) == TickGet(m) \/ CallSucceeds(m) \/ CallRejected(m)
ReleaseStep(m) == ReleaseGet(m) \/ ReleaseDelete(m)
Trouble(m) ==
    TickGetFails(m) \/ CallFails(m) \/ Shutdown(m) \/ ReleaseExpire(m) \/ Crash(m)

Next ==
    \/ \E m \in Replicas : TickStep(m) \/ ReleaseStep(m) \/ Restart(m) \/ Trouble(m)
    \/ Advance

Safe == Init /\ [][Next]_vars

\* Time passes, replicas tick on time, and the Deployment restarts them.
Fairness ==
    /\ WF_vars(Advance)
    /\ \A m \in Replicas : WF_vars(TickStep(m)) /\ WF_vars(ReleaseStep(m)) /\ WF_vars(Restart(m))

Spec == Safe /\ Fairness

-----------------------------------------------------------------------------
(* Properties *)

\* Every variable has its type: no renewal stamps the lease with a time to come.
TypeOK ==
    /\ holder \in Replicas \union {None}
    /\ age \in Nat
    /\ isLeader \in [Replicas -> BOOLEAN]
    /\ mode \in [Replicas -> {"running", "releasing", "down"}]
    /\ plan \in [Replicas -> {"idle", "create", "renew", "takeover", "delete"}]
    /\ fresh \in [Replicas -> BOOLEAN]
    /\ clock \in [Replicas -> Nat]
    /\ misses \in [Replicas -> 0..MaxMisses]
    /\ elected \subseteq Replicas
    /\ faults \in 0..MaxFaults

\* A replica that acts as leader holds a lease that is not expired, so that no
\* other can take it over: within TimingAssumption, the order of stamping,
\* storing and stepping down leaves no gap.
LeaderHoldsLease == \A m \in Replicas : Acting(m) => holder = m /\ ~Expired

\* Two replicas never both act as leader, and so never both order the same
\* certificate, across failed and lost calls, crashes and releases, as long as
\* TimingAssumption holds: no more reads fail in a row, and no call lasts longer,
\* than it says.
AtMostOneLeader == \A m, x \in Replicas : Acting(m) /\ Acting(x) => m = x

\* "RenewDeadline is the duration that the acting leader will retry refreshing
\* leadership before giving up" (ElectionConfig).  It does not hold: no code reads
\* RenewDeadline (README, section 5).
GivesUpAtDeadline == \A m \in Replicas : Acting(m) /\ holder = m => age <= RenewDeadline

\* Once the faults stop there is a leader again, for good, and every replica
\* has passed its initial election.
LeaderEmerges == <>[](/\ \E m \in Replicas : Acting(m)
                      /\ elected = Replicas)

=============================================================================
