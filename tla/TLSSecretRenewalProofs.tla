------------------------ MODULE TLSSecretRenewalProofs ------------------------
(* Proofs about TLSSecretRenewal, for any replicas, backoff, edits and failures:
   its types, that a certificate is never taken back from Envoy and, for a single
   replica, that backoffs are waited out and force-renew requests kept. *)
EXTENDS TLSSecretRenewal, FiniteSetTheorems, WellFoundedInduction, TLAPS

-----------------------------------------------------------------------------
(* The backoff *)

\* Induction: a claim that fails somewhere fails at a first number.
LEMMA FirstFailure ==
    ASSUME NEW T \in SUBSET Nat, 0 \notin T,
           \A n \in Nat : n \notin T => n + 1 \notin T
    PROVE  T = {}
<1> DEFINE R == OpToRel(<, Nat)
<1>1. IsWellFoundedOn(R, Nat)
    BY NatLessThanWellFounded
<1>2. \A x, y \in Nat : y < x => <<y, x>> \in R
    BY DEF OpToRel
<1> HIDE DEF R
<1>3. ASSUME T # {} PROVE FALSE
    <2>1. PICK x \in T : \A y \in T : ~(<<y, x>> \in R)
        BY <1>1, <1>3, WFMin
    <2>2. x \in Nat /\ x - 1 \in Nat /\ (x - 1) + 1 = x /\ x - 1 < x
        OBVIOUS
    <2> QED
        BY <1>2, <2>1, <2>2
<1> QED
    BY <1>3

\* g has the first k powers of the multiplier.
PowersTo(g, k) == g \in [Nat -> Nat] /\ g[0] = 1 /\ \A i \in 1..k : g[i] = Multiplier * g[i - 1]

\* The recursion of Pow has a solution.
LEMMA PowersExist ==
    \A k \in Nat : \E g : PowersTo(g, k)
<1> DEFINE T == {k \in Nat : ~ \E g : PowersTo(g, k)}
<1>1. 0 \notin T
    <2>1. PowersTo([n \in Nat |-> 1], 0)
        BY DEF PowersTo
    <2> QED
        BY <2>1
<1>2. ASSUME NEW k \in Nat, k \notin T PROVE k + 1 \notin T
    <2>1. PICK g : PowersTo(g, k)
        BY <1>2
    <2> DEFINE h == [n \in Nat |-> IF n = k + 1 THEN Multiplier * g[k] ELSE g[n]]
    <2>2. Multiplier * g[k] \in Nat
        BY <2>1, RenewalAssumption DEF PowersTo
    <2>3. h \in [Nat -> Nat] /\ h[0] = 1
        BY <2>1, <2>2 DEF PowersTo
    <2>4. ASSUME NEW i \in 1..(k + 1) PROVE h[i] = Multiplier * h[i - 1]
        <3>1. CASE i = k + 1
            BY <3>1
        <3>2. CASE i \in 1..k
            BY <2>1, <3>2 DEF PowersTo
        <3> QED
            BY <3>1, <3>2
    <2>5. PowersTo(h, k + 1)
        BY <2>3, <2>4 DEF PowersTo
    <2> QED
        BY <2>5
<1> HIDE DEF T
<1>3. T = {}
    BY <1>1, <1>2, FirstFailure DEF T
<1> QED
    BY <1>3 DEF T

\* Two that have the first k powers agree on them.
LEMMA PowersAgree ==
    ASSUME NEW k \in Nat, NEW g, NEW h, PowersTo(g, k), PowersTo(h, k)
    PROVE  \A i \in 0..k : g[i] = h[i]
<1> DEFINE T == {i \in 0..k : g[i] # h[i]}
<1>1. 0 \notin T
    BY DEF PowersTo
<1>2. ASSUME NEW n \in Nat, n \notin T PROVE n + 1 \notin T
    <2> SUFFICES ASSUME n + 1 \in 0..k PROVE g[n + 1] = h[n + 1]
        OBVIOUS
    <2>1. n \in 0..k /\ n + 1 \in 1..k /\ (n + 1) - 1 = n
        OBVIOUS
    <2> QED
        BY <1>2, <2>1 DEF PowersTo
<1>3. T \in SUBSET Nat
    OBVIOUS
<1> HIDE DEF T
<1>4. T = {}
    BY <1>1, <1>2, <1>3, FirstFailure
<1> QED
    BY <1>4 DEF T

\* Pow is the recursion it is written as.
LEMMA PowIs ==
    Pow[0] = 1 /\ \A n \in Nat : Pow[n + 1] = Multiplier * Pow[n]
<1> DEFINE G == [k \in Nat |-> CHOOSE g : PowersTo(g, k)]
           f == [n \in Nat |-> G[n][n]]
           Is(p) == p = [n \in Nat |-> IF n = 0 THEN 1 ELSE Multiplier * p[n - 1]]
<1>1. \A k \in Nat : PowersTo(G[k], k)
    BY PowersExist
<1> HIDE DEF G
<1>2. ASSUME NEW n \in Nat, n # 0 PROVE f[n] = Multiplier * f[n - 1]
    <2>1. n - 1 \in Nat /\ n - 1 \in 0..(n - 1) /\ n \in 1..n
        BY <1>2
    <2>2. PowersTo(G[n], n - 1)
        BY <1>1, <2>1 DEF PowersTo
    <2>3. G[n][n - 1] = G[n - 1][n - 1]
        BY <1>1, <2>1, <2>2, PowersAgree
    <2>4. G[n][n] = Multiplier * G[n][n - 1]
        BY <1>1, <2>1 DEF PowersTo
    <2> QED
        BY <2>1, <2>3, <2>4
<1>3. f[0] = 1
    BY <1>1 DEF PowersTo
<1>4. Is(f)
    <2> DEFINE e == [n \in Nat |-> IF n = 0 THEN 1 ELSE Multiplier * f[n - 1]]
    <2>1. \A n \in Nat : f[n] = e[n]
        BY <1>2, <1>3
    <2> QED
        BY <2>1
<1> HIDE DEF f
<1> DEFINE p == CHOOSE q : Is(q)
<1>5. Is(p)
    BY <1>4
<1>6. Pow = p
    BY DEF Pow
<1> HIDE DEF p
<1>7. p[0] = 1
    BY <1>5
<1>8. ASSUME NEW n \in Nat PROVE p[n + 1] = Multiplier * p[n]
    <2>1. n + 1 \in Nat /\ n + 1 # 0 /\ (n + 1) - 1 = n
        OBVIOUS
    <2> QED
        BY <1>5, <2>1
<1> QED
    BY <1>6, <1>7, <1>8

\* The powers of the multiplier, which is at least 1, never fall.
LEMMA PowersGrow ==
    \A n \in Nat : Pow[n] \in Nat /\ Pow[n] <= Pow[n + 1]
<1> DEFINE T == {n \in Nat : Pow[n] \notin Nat}
<1>1. 0 \notin T
    BY PowIs
<1>2. ASSUME NEW n \in Nat, n \notin T PROVE n + 1 \notin T
    <2>1. Pow[n] \in Nat /\ Pow[n + 1] = Multiplier * Pow[n]
        BY <1>2, PowIs
    <2> QED
        BY <2>1, RenewalAssumption
<1> HIDE DEF T
<1>3. T = {}
    BY <1>1, <1>2, FirstFailure DEF T
<1>4. \A n \in Nat : Pow[n] \in Nat
    BY <1>3 DEF T
<1>5. ASSUME NEW n \in Nat PROVE Pow[n] <= Pow[n + 1]
    <2>1. Pow[n] \in Nat /\ Pow[n + 1] = Multiplier * Pow[n]
        BY <1>4, PowIs
    <2> QED
        BY <2>1, RenewalAssumption
<1> QED
    BY <1>4, <1>5

\* No backoff is longer than the cap.
LEMMA DelayFits ==
    /\ LongestDelay \in Nat \ {0} /\ BaseDelay <= LongestDelay
    /\ \A n \in Nat : DelayFor(n) \in 0..LongestDelay
<1>1. LongestDelay \in Nat \ {0} /\ BaseDelay <= LongestDelay
    BY RenewalAssumption DEF LongestDelay
<1>2. ASSUME NEW n \in Nat PROVE DelayFor(n) \in 0..LongestDelay
    <2>1. CASE n <= 1
        BY <1>1, <2>1, RenewalAssumption DEF DelayFor
    <2>2. CASE ~(n <= 1)
        <3>1. n - 1 \in Nat
            BY <2>2
        <3>2. Pow[n - 1] \in Nat
            BY <3>1, PowersGrow
        <3>3. BaseDelay * Pow[n - 1] \in Nat
            BY <3>2, RenewalAssumption
        <3> QED
            BY <1>1, <2>2, <3>3 DEF DelayFor
    <2> QED
        BY <2>1, <2>2
<1> QED
    BY <1>1, <1>2

-----------------------------------------------------------------------------
(* Types *)

\* What a reconcile may know of the object.
Sights == [request: Nat, forced: BOOLEAN, expiration: Nat, cert: Nat, failures: Nat, acted: Nat]

\* The empty status and the sight of nothing are of their types.
LEMMA BasicTypes ==
    /\ NoCert \in Nat /\ NoRequest \in Nat /\ EmptyStatus \in Statuses
    /\ EmptyStatus.backoff = 0 /\ EmptyStatus.cert = 0 /\ EmptyStatus.failures = 0
    /\ EmptyStatus.acted = 0 /\ NothingSeen \in Sights
BY DEF NoCert, NoRequest, EmptyStatus, Statuses, NothingSeen, Sights

\* A reconcile that returns leaves nothing behind.
LEMMA ReturnTypes ==
    ASSUME TypeOK, NEW r \in Replicas, NEW from, Return(r, from)
    PROVE  /\ pc' \in [Replicas -> Steps] /\ seen' \in [Replicas -> Sights]
           /\ cert' \in [Replicas -> Nat] /\ acted' \in [Replicas -> Nat]
           /\ SecretConfigs' \in [Replicas -> Nat \union {Absent}]
           /\ UNCHANGED <<deployed, manual, leader, edits>>
BY BasicTypes DEF TypeOK, Return, Goto, Steps, Sights

\* The count of failures that a reconcile records, and the backoff.
LEMMA CountsTypes ==
    ASSUME TypeOK, NEW r \in Replicas
    PROVE  seen[r].failures + 1 \in Nat /\ DelayFor(seen[r].failures + 1) \in 0..LongestDelay
<1>1. seen[r].failures + 1 \in Nat
    BY DEF TypeOK
<1> QED
    BY <1>1, DelayFits

\* What a reconcile knows after it has patched the object.
LEMMA PatchedFields ==
    ASSUME TypeOK, NEW r \in Replicas, Patch(r)
    PROVE  /\ seen' \in [Replicas -> Sights]
           /\ \A q \in Replicas \ {r} : seen'[q] = seen[q]
           /\ seen'[r].request = seen[r].request /\ seen'[r].forced = seen[r].forced
           /\ seen'[r].failures = seen[r].failures
           /\ seen'[r].cert = (IF status.cert # NoCert THEN status.cert ELSE seen[r].cert)
           /\ seen'[r].acted = (IF status.acted # NoRequest THEN status.acted ELSE seen[r].acted)
<1> DEFINE c == IF status.cert # NoCert THEN status.cert ELSE seen[r].cert
           a == IF status.acted # NoRequest THEN status.acted ELSE seen[r].acted
           f == [seen EXCEPT ![r].cert = c]
           g == [f EXCEPT ![r].acted = a]
<1>1. seen \in [Replicas -> Sights] /\ status \in Statuses
    BY DEF TypeOK, Sights
<1>2. c \in Nat /\ a \in Nat
    BY <1>1 DEF Sights, Statuses
<1> HIDE DEF c, a
<1>3. f \in [Replicas -> Sights] /\ f[r].acted = seen[r].acted
    BY <1>1, <1>2 DEF Sights
<1>4. seen' = [seen EXCEPT ![r].cert = c, ![r].acted = a]
    BY <1>1 DEF Patch, c, a
<1>5. seen' = g
    BY <1>4
<1>6. /\ f[r].request = seen[r].request /\ f[r].forced = seen[r].forced
      /\ f[r].failures = seen[r].failures /\ f[r].cert = c
      /\ \A q \in Replicas \ {r} : f[q] = seen[q]
    BY <1>1, <1>2 DEF Sights
<1> HIDE DEF f
<1>7. /\ g \in [Replicas -> Sights]
      /\ g[r].request = f[r].request /\ g[r].forced = f[r].forced
      /\ g[r].failures = f[r].failures /\ g[r].cert = f[r].cert /\ g[r].acted = a
      /\ \A q \in Replicas \ {r} : g[q] = f[q]
    BY <1>2, <1>3 DEF Sights
<1> HIDE DEF g
<1> QED
    BY <1>5, <1>6, <1>7 DEF c, a

\* Init is well typed.
LEMMA TypeInit == Init => TypeOK
<1> SUFFICES ASSUME Init PROVE TypeOK
    OBVIOUS
<1>1. deployed # {}
    BY RenewalAssumption DEF Init
<1>2. leader \in deployed
    BY <1>1 DEF Init
<1>3. status \in Statuses /\ status.backoff <= LongestDelay
    <2>1. store \in Nat /\ status = [EmptyStatus EXCEPT !.cert = store]
        BY BasicTypes DEF Init
    <2> QED
        BY <2>1, BasicTypes, DelayFits DEF Statuses
<1>4. store \in Nat /\ issued \in Nat /\ expiration \in Nat /\ forceRenew \in Nat
    BY BasicTypes DEF Init
<1>8. due \in BOOLEAN /\ exists \in BOOLEAN /\ pause \in BOOLEAN
    BY Zenon DEF Init
<1>5. pc \in [Replicas -> Steps] /\ seen \in [Replicas -> Sights]
    BY BasicTypes DEF Init, Steps
<1>6. /\ cert \in [Replicas -> Nat] /\ acted \in [Replicas -> Nat]
      /\ SecretConfigs \in [Replicas -> Nat \union {Absent}]
    BY BasicTypes DEF Init
<1>7. asked \in Nat /\ botched \in Nat /\ owed \in 0..LongestDelay /\ edits \in Nat /\ fails \in Nat
    BY BasicTypes, DelayFits DEF Init
<1> QED
    BY <1>2, <1>3, <1>4, <1>5, <1>6, <1>7, <1>8 DEF Init, TypeOK, Sights

\* What the operator, the store, the election and the clock do.
LEMMA TypeEnvironment == TypeOK /\ (Environment \/ Tick) => TypeOK'
<1> SUFFICES ASSUME TypeOK, Environment \/ Tick PROVE TypeOK'
    OBVIOUS
<1> USE BasicTypes, DelayFits DEF TypeOK
<1>1. CASE RequestRenewal
    BY <1>1 DEF RequestRenewal, Edit, replica, stored, Statuses
<1>2. CASE TogglePause
    BY <1>2 DEF TogglePause, Edit, replica, stored, history
<1>3. CASE DeleteTLSSecret
    <2>1. exists' \in BOOLEAN /\ pause' \in BOOLEAN
        BY <1>3, Zenon DEF DeleteTLSSecret
    <2> QED
        BY <1>3, <2>1 DEF DeleteTLSSecret, Edit, replica, stored
<1>4. CASE CreateTLSSecret
    BY <1>4 DEF CreateTLSSecret, Edit, replica, stored, history
<1>5. CASE LoseStored
    <2>1. due' \in BOOLEAN
        BY <1>5, Zenon DEF LoseStored
    <2> QED
        BY <1>5, <2>1 DEF LoseStored, Edit, replica, object, history
<1>6. CASE CertificateAges
    BY <1>6 DEF CertificateAges, Edit, replica, object, history
<1>7. CASE \E m \in deployed \union {NoLeader} : MoveLeader(m)
    BY <1>7 DEF MoveLeader, Edit, replica, object, history, stored
<1>8. CASE Tick
    BY <1>8 DEF Tick, replica, stored, Statuses
<1> QED
    BY <1>1, <1>2, <1>3, <1>4, <1>5, <1>6, <1>7, <1>8 DEF Environment

\* A status write leaves the status that it was to write, but for the backoff.
LEMMA StatusWritten ==
    ASSUME status \in Statuses, NEW new \in Statuses, updateTLSSecretStatus(new)
    PROVE  /\ exists
           /\ status' \in {status, new} /\ status' \in Statuses
           /\ status'.cert = new.cert /\ status'.failures = new.failures
           /\ status'.acted = new.acted /\ status'.paused = new.paused
<1>1. exists /\ (status' = new \/ (tlsSecretStatusEqual(status, new) /\ status' = status))
    BY DEF updateTLSSecretStatus
<1>2. CASE status' = new
    BY <1>1, <1>2
<1>3. CASE tlsSecretStatusEqual(status, new) /\ status' = status
    <2>1. [status EXCEPT !.backoff = 0] = [new EXCEPT !.backoff = 0]
        BY <1>3 DEF tlsSecretStatusEqual
    <2>2. status.cert = new.cert /\ status.failures = new.failures /\ status.acted = new.acted
        BY <2>1, SMT DEF Statuses
    <2>3. status.paused = new.paused
        BY <2>1 DEF Statuses
    <2> QED
        BY <1>1, <1>3, <2>2, <2>3
<1> QED
    BY <1>1, <1>2, <1>3

\* What a pause writes.
LEMMA PausedStatus ==
    ASSUME TypeOK, NEW r, Paused(r)
    PROVE  status' = [status EXCEPT !.paused = TRUE]
<1>1. [status EXCEPT !.paused = TRUE] \in Statuses /\ [status EXCEPT !.paused = TRUE].paused
    BY DEF TypeOK, Statuses
<1>2. updateTLSSecretStatus([status EXCEPT !.paused = TRUE]) /\ ~status.paused
    BY DEF Paused
<1>3. status \in Statuses
    BY DEF TypeOK
<1>4. status' \in {status, [status EXCEPT !.paused = TRUE]}
      /\ status'.paused = [status EXCEPT !.paused = TRUE].paused
    BY <1>1, <1>2, <1>3, StatusWritten
<1> QED
    BY <1>1, <1>2, <1>4

\* What a success writes.
LEMMA RecordStatus ==
    ASSUME TypeOK, NEW r \in Replicas, Record(r)
    PROVE  /\ status' \in Statuses /\ status'.backoff \in {0, status.backoff}
           /\ status'.cert = cert[r] /\ status'.failures = 0 /\ status'.acted = acted[r]
           /\ status'.backoff # 0 => status.failures = 0
<1> DEFINE new == [cert |-> cert[r], failures |-> 0, backoff |-> 0, acted |-> acted[r],
                   paused |-> FALSE]
<1>1. status \in Statuses /\ new \in Statuses
    BY DEF TypeOK, Statuses
<1>2. updateTLSSecretStatus(new)
    BY DEF Record
<1>3. new.cert = cert[r] /\ new.failures = 0 /\ new.backoff = 0 /\ new.acted = acted[r]
    OBVIOUS
<1> HIDE DEF new
<1> QED
    BY <1>1, <1>2, <1>3, StatusWritten

\* What a failure writes: the backoff too, when it counts one failure more.
LEMMA FailureStatus ==
    ASSUME TypeOK, NEW r \in Replicas, RecordFailure(r)
    PROVE  /\ status' \in Statuses
           /\ status'.backoff \in {status.backoff, DelayFor(seen[r].failures + 1)}
           /\ status'.cert = status.cert /\ status'.failures = seen[r].failures + 1
           /\ status'.acted = seen[r].request
           /\ status.failures # seen[r].failures + 1
                => status'.backoff = DelayFor(seen[r].failures + 1)
<1> DEFINE new == [cert |-> status.cert, failures |-> seen[r].failures + 1,
                   backoff |-> DelayFor(seen[r].failures + 1), acted |-> seen[r].request,
                   paused |-> FALSE]
<1>1. status \in Statuses /\ new \in Statuses
    BY DelayFits DEF TypeOK, Statuses
<1>2. updateTLSSecretStatus(new)
    BY DEF RecordFailure
<1>3. /\ new.cert = status.cert /\ new.failures = seen[r].failures + 1
      /\ new.backoff = DelayFor(seen[r].failures + 1) /\ new.acted = seen[r].request
    OBVIOUS
<1> HIDE DEF new
<1> QED
    BY <1>1, <1>2, <1>3, StatusWritten

\* What a replica does.
LEMMA TypeReplica ==
    ASSUME TypeOK, NEW r \in deployed, Progress(r) \/ Failure(r)
    PROVE  TypeOK'
<1> USE DelayFits DEF TypeOK
<1>0. r \in Replicas
    BY RenewalAssumption
<1>1. CASE Gone(r)
    BY <1>0, <1>1 DEF Gone, Goto, object, history, stored, Steps, Absent
<1>2. CASE Paused(r)
    <2>1. status' = [status EXCEPT !.paused = TRUE]
        BY <1>2, PausedStatus
    <2>2. status' \in Statuses /\ status'.backoff <= LongestDelay
        BY <2>1 DEF Statuses
    <2> QED
        BY <1>0, <1>2, <2>2 DEF Paused, Goto, history, stored, Steps
<1>3. CASE Begin(r)
    BY <1>0, <1>3 DEF Begin, Goto, object, history, stored, Steps, Statuses, NewRequest
<1>4. CASE ReadMissing(r)
    BY <1>0, <1>4 DEF ReadMissing, Goto, object, history, stored, Steps
<1>5. CASE ReadFound(r)
    BY <1>0, <1>5 DEF ReadFound, Goto, object, history, stored, Steps, StorageConfigRead
<1>6. CASE ReadFails(r)
    BY <1>0, <1>6 DEF ReadFails, CallFails, Goto, object, history, stored, Steps
<1>7. CASE AwaitLeader(r)
    <2>1. CASE Return(r, "missing")
        BY <1>0, <1>7, <2>1, ReturnTypes DEF AwaitLeader, object, history, stored, Sights
    <2>2. CASE Goto(r, "missing", "fail") /\ UNCHANGED <<SecretConfigs, seen, cert, acted>>
        BY <1>0, <1>7, <2>2 DEF AwaitLeader, Goto, object, history, stored, Steps
    <2> QED
        BY <1>7, <2>1, <2>2 DEF AwaitLeader
<1>8. CASE OrderSucceeds(r)
    BY <1>0, <1>8 DEF OrderSucceeds, Goto, object, history, Steps
<1>9. CASE OrderFails(r)
    BY <1>0, <1>9 DEF OrderFails, CallFails, Goto, object, history, stored, Steps
<1>10. CASE WriteSucceeds(r)
    BY <1>0, <1>10 DEF WriteSucceeds, Written, Goto, object, history, Steps
<1>11. CASE WriteFails(r)
    <2>1. fails' \in Nat /\ UNCHANGED <<object, SecretConfigs, seen, cert, acted>>
        BY <1>11 DEF WriteFails, CallFails
    <2>2. store' \in Nat /\ due' \in BOOLEAN /\ issued' \in Nat
        BY <1>0, <1>11 DEF WriteFails, Written, stored
    <2>3. pc' \in [Replicas -> Steps] /\ UNCHANGED <<deployed, manual, leader, edits>>
        BY <1>11 DEF WriteFails, Goto, Steps
    <2> QED
        BY <2>1, <2>2, <2>3 DEF object, history
<1>12. CASE Patch(r)
    BY <1>0, <1>12, PatchedFields DEF Patch, Goto, history, stored, Steps, Sights
<1>13. CASE NoPatch(r)
    BY <1>0, <1>13 DEF NoPatch, CallFails, Goto, object, history, stored, Steps
<1>14. CASE ServeAndClear(r)
    BY <1>0, <1>14 DEF ServeAndClear, Goto, history, stored, Steps, NoRequest
<1>15. CASE Serve(r)
    BY <1>0, <1>15 DEF Serve, CallFails, Goto, object, history, stored, Steps, NoRequest
<1>16. CASE Record(r)
    <2>1. status' \in Statuses /\ status'.backoff <= LongestDelay
        BY <1>0, <1>16, RecordStatus
    <2>2. /\ Return(r, "record") /\ owed' \in {0, owed}
          /\ UNCHANGED <<exists, pause, forceRenew, expiration, asked, botched, stored, fails>>
        BY <1>16 DEF Record
    <2> QED
        BY <1>0, <2>1, <2>2, ReturnTypes DEF stored, Sights
<1>17. CASE RecordFailure(r)
    <2>1. /\ Return(r, "fail")
          /\ owed' \in {owed, DelayFor(seen[r].failures + 1)} /\ botched' \in {botched, seen[r].request}
          /\ UNCHANGED <<exists, pause, forceRenew, expiration, asked, stored, fails>>
        BY <1>17 DEF RecordFailure
    <2>2. /\ status' \in Statuses /\ status'.backoff <= LongestDelay
          /\ owed' \in 0..LongestDelay /\ botched' \in Nat
        BY <1>0, <1>17, <2>1, FailureStatus, CountsTypes
    <2> QED
        BY <1>0, <2>1, <2>2, ReturnTypes DEF stored, Sights
<1>18. CASE RecordFails(r)
    <2>1. /\ fails' \in Nat /\ UNCHANGED <<object, stored>>
          /\ Return(r, "record") \/ Return(r, "fail")
        BY <1>18 DEF RecordFails, CallFails
    <2> QED
        BY <1>0, <2>1, ReturnTypes DEF object, history, stored, Sights
<1> QED
    BY <1>1, <1>2, <1>3, <1>4, <1>5, <1>6, <1>7, <1>8, <1>9, <1>10, <1>11, <1>12, <1>13, <1>14,
       <1>15, <1>16, <1>17, <1>18 DEF Progress, Failure

\* Every step keeps the types.
LEMMA TypeStep == TypeOK /\ [Next]_vars => TypeOK'
<1> SUFFICES ASSUME TypeOK, [Next]_vars PROVE TypeOK'
    OBVIOUS
<1>1. CASE UNCHANGED vars
    BY <1>1 DEF TypeOK, vars, object, history, stored, replica
<1> QED
    BY <1>1, TypeEnvironment, TypeReplica DEF Next

\* Every variable keeps its type, and a backoff never exceeds its cap.
THEOREM TypeCorrect == Safe => []TypeOK
BY TypeInit, TypeStep, PTL DEF Safe

-----------------------------------------------------------------------------
(* A certificate is never taken back *)

\* A reconcile that stores, patches or serves has a certificate in hand; with a
\* manual challenge it may serve a secret without one.
InHand ==
    \A r \in Replicas :
        pc[r] \in {"write", "rewrite", "patch"} \/ (pc[r] = "serve" /\ ~manual) => cert[r] > 0

\* A step of a replica leaves the others' reconciles alone.
LEMMA Local ==
    ASSUME TypeOK, NEW r \in deployed, Progress(r) \/ Failure(r)
    PROVE  /\ r \in Replicas
           /\ UNCHANGED <<deployed, manual, leader, edits>>
           /\ \A q \in Replicas \ {r} :
                pc'[q] = pc[q] /\ seen'[q] = seen[q] /\ cert'[q] = cert[q] /\ acted'[q] = acted[q]
                /\ SecretConfigs'[q] = SecretConfigs[q]
<1>0. r \in Replicas
    BY RenewalAssumption DEF TypeOK
<1> USE <1>0 DEF TypeOK, Goto
<1>1. CASE Gone(r) \/ Paused(r) \/ Begin(r) \/ ReadMissing(r) \/ ReadFound(r) \/ ReadFails(r)
    BY <1>1 DEF Gone, Paused, Begin, ReadMissing, ReadFound, ReadFails
<1>2. CASE OrderSucceeds(r) \/ OrderFails(r) \/ WriteSucceeds(r) \/ WriteFails(r)
    BY <1>2 DEF OrderSucceeds, OrderFails, WriteSucceeds, WriteFails
<1>3. CASE NoPatch(r) \/ ServeAndClear(r) \/ Serve(r)
    BY <1>3 DEF NoPatch, ServeAndClear, Serve
<1>4. CASE Patch(r)
    BY <1>4, PatchedFields DEF Patch
<1>5. CASE AwaitLeader(r) \/ Record(r) \/ RecordFailure(r) \/ RecordFails(r)
    BY <1>5 DEF AwaitLeader, Record, RecordFailure, RecordFails, Return
<1> QED
    BY <1>1, <1>2, <1>3, <1>4, <1>5 DEF Progress, Failure

\* The environment leaves every reconcile alone.
LEMMA EnvironmentLocal ==
    ASSUME Environment \/ Tick
    PROVE  UNCHANGED <<deployed, manual, replica>>
BY DEF Environment, Tick, RequestRenewal, TogglePause, DeleteTLSSecret, CreateTLSSecret, LoseStored,
       CertificateAges, MoveLeader, Edit

\* At the start no replica is in a reconcile.
LEMMA InHandInit == Init => InHand
BY DEF Init, InHand

\* No step brings a reconcile to where it stores, patches or serves empty-handed.
LEMMA InHandStep == TypeOK /\ InHand /\ [Next]_vars => InHand'
<1> SUFFICES ASSUME TypeOK, InHand, [Next]_vars PROVE InHand'
    OBVIOUS
<1>1. CASE UNCHANGED vars \/ Environment \/ Tick
    BY <1>1, EnvironmentLocal DEF InHand, vars, replica
<1>2. ASSUME NEW r \in deployed, Progress(r) \/ Failure(r)
      PROVE  InHand'
    <2>0. /\ r \in Replicas /\ manual' = manual
          /\ \A q \in Replicas \ {r} : pc'[q] = pc[q] /\ cert'[q] = cert[q]
        BY <1>2, Local
    <2> SUFFICES pc'[r] \in {"write", "rewrite", "patch"} \/ (pc'[r] = "serve" /\ ~manual')
                    => cert'[r] > 0
        BY <2>0 DEF InHand
    <2>1. pc \in [Replicas -> Steps] /\ cert \in [Replicas -> Nat] /\ store \in Nat /\ issued \in Nat
        BY DEF TypeOK
    <2> USE <2>0, <2>1 DEF InHand, Goto
    <2>2. CASE Gone(r) \/ Paused(r) \/ Begin(r) \/ ReadFails(r)
        BY <2>2 DEF Gone, Paused, Begin, ReadFails
    <2>3. CASE ReadMissing(r)
        BY <2>3 DEF ReadMissing
    <2>4. CASE ReadFound(r)
        BY <2>4 DEF ReadFound, StorageConfigRead, NoCert
    <2>5. CASE OrderSucceeds(r)
        BY <2>5 DEF OrderSucceeds
    <2>6. CASE OrderFails(r) \/ WriteFails(r)
        BY <2>6 DEF OrderFails, WriteFails
    <2>7. CASE WriteSucceeds(r)
        BY <2>7 DEF WriteSucceeds
    <2>8. CASE Patch(r) \/ NoPatch(r)
        BY <2>8 DEF Patch, NoPatch
    <2>9. CASE ServeAndClear(r) \/ Serve(r)
        BY <2>9 DEF ServeAndClear, Serve
    <2>10. CASE AwaitLeader(r) \/ Record(r) \/ RecordFailure(r) \/ RecordFails(r)
        BY <2>10 DEF AwaitLeader, Record, RecordFailure, RecordFails, Return
    <2> QED
        BY <1>2, <2>2, <2>3, <2>4, <2>5, <2>6, <2>7, <2>8, <2>9, <2>10 DEF Progress, Failure
<1> QED
    BY <1>1, <1>2 DEF Next

\* Only a TLSSecret that is gone takes a certificate back.
LEMMA ServingStep ==
    ASSUME TypeOK, InHand, [Next]_vars, ~manual, exists,
           NEW q \in Replicas, SecretConfigs[q] > NoCert
    PROVE  SecretConfigs'[q] > NoCert
<1>1. CASE UNCHANGED vars \/ Environment \/ Tick
    BY <1>1, EnvironmentLocal DEF vars, replica
<1>2. ASSUME NEW r \in deployed, Progress(r) \/ Failure(r)
      PROVE  SecretConfigs'[q] > NoCert
    <2>0. r \in Replicas /\ (q # r => SecretConfigs'[q] = SecretConfigs[q])
        BY <1>2, Local
    <2>1. CASE ServeAndClear(r) \/ Serve(r)
        <3>1. cert[r] > 0 /\ SecretConfigs' = [SecretConfigs EXCEPT ![r] = cert[r]]
            BY <2>0, <2>1 DEF InHand, ServeAndClear, Serve, Goto
        <3> QED
            BY <2>0, <3>1 DEF NoCert, TypeOK
    <2>2. CASE Gone(r)
        BY <2>2 DEF Gone
    <2>3. CASE ~(ServeAndClear(r) \/ Serve(r) \/ Gone(r))
        <3>1. SecretConfigs' = SecretConfigs
            BY <1>2, <2>3 DEF Progress, Failure, Paused, Begin, ReadMissing, ReadFound, ReadFails,
                AwaitLeader, OrderSucceeds, OrderFails, WriteSucceeds, WriteFails, Patch, NoPatch,
                Record, RecordFailure, RecordFails, Return
        <3> QED
            BY <3>1
    <2> QED
        BY <2>1, <2>2, <2>3
<1> QED
    BY <1>1, <1>2 DEF Next

\* Envoy keeps the certificate it was given while the TLSSecret exists, whatever
\* fails: no call, leader change, pause or loss of the store takes it back.
THEOREM CertificateKept == Safe => KeepsServing
<1>1. TypeOK /\ InHand /\ [Next]_vars =>
        [\A r \in Replicas : ~manual /\ SecretConfigs[r] > NoCert /\ exists
            => SecretConfigs'[r] > NoCert]_vars
    BY ServingStep
<1> QED
    BY <1>1, TypeInit, TypeStep, InHandInit, InHandStep, PTL DEF Safe, KeepsServing

-----------------------------------------------------------------------------
(* A single replica waits its backoffs out *)

\* One more failure never shortens the backoff.
LEMMA DelayGrows ==
    ASSUME NEW n \in Nat
    PROVE  DelayFor(n) <= DelayFor(n + 1)
<1>1. CASE n <= 1
    <2>1. DelayFor(n) = BaseDelay /\ LongestDelay \in Nat /\ BaseDelay <= LongestDelay
        BY <1>1, DelayFits DEF DelayFor
    <2>2. CASE n = 0
        BY <2>1, <2>2, RenewalAssumption DEF DelayFor
    <2>3. CASE n = 1
        <3>1. Pow[1] = Multiplier * 1
            BY PowIs
        <3>2. BaseDelay * Pow[1] \in Nat /\ BaseDelay <= BaseDelay * Pow[1]
            BY <3>1, RenewalAssumption
        <3>3. DelayFor(n + 1) = IF BaseDelay * Pow[1] < LongestDelay THEN BaseDelay * Pow[1] ELSE LongestDelay
            BY <2>3 DEF DelayFor
        <3> QED
            BY <2>1, <3>2, <3>3
    <2> QED
        BY <1>1, <2>2, <2>3
<1>2. CASE n > 1
    <2> DEFINE a == Pow[n - 1]
               b == Pow[n]
    <2>1. a \in Nat /\ b \in Nat /\ a <= b
        <3>1. n - 1 \in Nat /\ (n - 1) + 1 = n
            BY <1>2
        <3> QED
            BY <3>1, PowersGrow
    <2>2. (n + 1) - 1 = n /\ ~(n <= 1) /\ ~(n + 1 <= 1)
        BY <1>2
    <2>3. /\ DelayFor(n) = (IF BaseDelay * a < LongestDelay THEN BaseDelay * a ELSE LongestDelay)
          /\ DelayFor(n + 1) = (IF BaseDelay * b < LongestDelay THEN BaseDelay * b ELSE LongestDelay)
        BY <2>2 DEF DelayFor
    <2> HIDE DEF a, b
    <2>4. BaseDelay * a \in Nat /\ BaseDelay * b \in Nat /\ BaseDelay * a <= BaseDelay * b
        BY <2>1, RenewalAssumption
    <2> QED
        BY <2>3, <2>4, DelayFits
<1> QED
    BY <1>1, <1>2

\* The backoff in the status is at most the one its count of failures gives.  For
\* a single replica it covers what is owed, and a reconcile knows the count of
\* failures, unless that began anew with the TLSSecret.
BackoffCovers ==
    /\ status.backoff <= DelayFor(status.failures)
    /\ Alone => /\ owed <= status.backoff
                /\ \A r \in deployed :
                     pc[r] # "idle" => \/ seen[r].failures = status.failures
                                       \/ status.failures = 0 /\ owed = 0

\* Who is alone is the only one deployed.
LEMMA OneReplica ==
    ASSUME TypeOK, Alone, NEW r \in deployed
    PROVE  deployed = {r}
<1>1. IsFiniteSet(deployed) /\ Cardinality(deployed) = 1
    BY RenewalAssumption DEF TypeOK, Alone
<1>2. PICK x : deployed = {x}
    BY <1>1, FS_Singleton
<1> QED
    BY <1>2

\* At the start no backoff is owed.
LEMMA BackoffInit == Init => BackoffCovers
<1> SUFFICES ASSUME Init PROVE BackoffCovers
    OBVIOUS
<1>1. TypeOK
    BY TypeInit
<1>2. status.backoff = 0 /\ DelayFor(status.failures) \in 0..LongestDelay
    BY <1>1, BasicTypes, DelayFits DEF TypeOK, Statuses, Init
<1>3. deployed \in SUBSET Replicas /\ \A r \in Replicas : pc[r] = "idle"
    BY RenewalAssumption DEF Init
<1> QED
    BY <1>2, <1>3, DelayFits DEF BackoffCovers, Init

\* Edits and the clock keep the backoff covered.
LEMMA BackoffEnvironment ==
    ASSUME TypeOK, BackoffCovers, Environment \/ Tick
    PROVE  BackoffCovers'
<1>1. UNCHANGED <<deployed, pc, seen>> /\ (Alone <=> Alone')
    BY EnvironmentLocal DEF replica, Alone
<1>2. CASE Tick
    <2>1. /\ status'.failures = status.failures
          /\ status'.backoff = IF status.backoff > 0 THEN status.backoff - 1 ELSE 0
          /\ owed' = IF owed > 0 THEN owed - 1 ELSE 0
        BY <1>2 DEF Tick, TypeOK, Statuses
    <2>2. /\ status.backoff \in Nat /\ owed \in Nat
          /\ DelayFor(status.failures) \in 0..LongestDelay /\ LongestDelay \in Nat
        BY DelayFits DEF TypeOK, Statuses
    <2> QED
        BY <1>1, <2>1, <2>2 DEF BackoffCovers
<1>3. CASE DeleteTLSSecret
    <2>1. status'.backoff = 0 /\ status'.failures = 0 /\ owed' = 0
        BY <1>3, BasicTypes DEF DeleteTLSSecret
    <2>2. DelayFor(0) \in 0..LongestDelay /\ LongestDelay \in Nat
        BY DelayFits
    <2> QED
        BY <1>1, <2>1, <2>2 DEF BackoffCovers
<1>4. CASE Environment /\ ~DeleteTLSSecret
    <2>1. UNCHANGED <<status, owed>>
        BY <1>4 DEF Environment, RequestRenewal, TogglePause, CreateTLSSecret, LoseStored,
                    CertificateAges, MoveLeader, object, history
    <2> QED
        BY <1>1, <2>1 DEF BackoffCovers
<1> QED
    BY <1>2, <1>3, <1>4

\* A step of a reconcile keeps the backoff covered.
LEMMA BackoffReplica ==
    ASSUME TypeOK, BackoffCovers, NEW r \in deployed, Progress(r) \/ Failure(r)
    PROVE  BackoffCovers'
<1>0. /\ r \in Replicas /\ UNCHANGED deployed /\ (Alone <=> Alone')
      /\ Alone => deployed = {r}
    BY Local, OneReplica DEF Alone
<1>1. /\ status.backoff \in Nat /\ owed \in Nat /\ status.failures \in Nat
      /\ pc \in [Replicas -> Steps] /\ seen[r].failures \in Nat
      /\ DelayFor(status.failures) \in Nat
    BY <1>0, DelayFits DEF TypeOK, Statuses
<1>2. CASE Begin(r)
    <2>1. /\ seen'[r].failures = status.failures /\ UNCHANGED <<status, owed>>
        BY <1>0, <1>2 DEF Begin, TypeOK, object, history
    <2> QED
        BY <1>0, <2>1 DEF BackoffCovers
<1>3. CASE Gone(r) \/ Paused(r)
    <2>1. /\ pc'[r] = "idle" /\ owed' = owed
          /\ status'.failures = status.failures /\ status'.backoff = status.backoff
        <3>1. CASE Gone(r)
            BY <1>0, <1>1, <3>1 DEF Gone, Goto, object, history
        <3>2. CASE Paused(r)
            BY <1>0, <1>1, <3>2, PausedStatus DEF Paused, Goto, history, TypeOK, Statuses
        <3> QED
            BY <1>3, <3>1, <3>2
    <2> QED
        BY <1>0, <2>1 DEF BackoffCovers
<1>4. CASE Record(r)
    <2>1. /\ status'.failures = 0 /\ pc[r] # "idle" /\ pc'[r] = "idle"
          /\ status'.backoff = 0 \/ (status'.backoff = status.backoff /\ status.failures = 0)
        BY <1>0, <1>1, <1>4, RecordStatus DEF Record, Return, Goto
    <2>2. owed' = IF leader = r \/ seen[r].failures = status.failures THEN 0 ELSE owed
        BY <1>4 DEF Record
    <2>3. DelayFor(0) \in 0..LongestDelay /\ LongestDelay \in Nat
        BY DelayFits
    <2>4. status'.backoff <= DelayFor(0) /\ status'.backoff \in Nat
        BY <1>1, <2>1, <2>3 DEF BackoffCovers
    <2>5. Alone => owed' = 0
        BY <1>0, <2>1, <2>2 DEF BackoffCovers
    <2> QED
        BY <1>0, <2>1, <2>4, <2>5 DEF BackoffCovers
<1>5. CASE RecordFailure(r)
    <2> DEFINE f == seen[r].failures
    <2>1. /\ pc[r] # "idle" /\ pc'[r] = "idle"
          /\ owed' = IF leader = r THEN DelayFor(f + 1) ELSE owed
        BY <1>0, <1>1, <1>5 DEF RecordFailure, Return, Goto
    <2>2. DelayFor(f) <= DelayFor(f + 1) /\ DelayFor(f) \in Nat /\ DelayFor(f + 1) \in Nat
        BY <1>1, DelayGrows, DelayFits
    <2>3. /\ status'.failures = f + 1
          /\ status'.backoff \in {status.backoff, DelayFor(f + 1)}
          /\ status.failures # f + 1 => status'.backoff = DelayFor(f + 1)
        BY <1>0, <1>5, FailureStatus
    <2>4. status'.backoff <= DelayFor(status'.failures)
        BY <1>1, <2>2, <2>3 DEF BackoffCovers
    <2>5. Alone => status'.backoff = DelayFor(f + 1) /\ owed <= DelayFor(f + 1)
        BY <1>0, <1>1, <2>1, <2>2, <2>3 DEF BackoffCovers
    <2> HIDE DEF f
    <2> QED
        BY <1>0, <1>1, <2>1, <2>2, <2>4, <2>5 DEF BackoffCovers
<1>6. CASE RecordFails(r)
    <2>1. pc'[r] = "idle" /\ UNCHANGED <<status, owed>>
        BY <1>0, <1>1, <1>6 DEF RecordFails, Return, Goto, object, history
    <2> QED
        BY <1>0, <2>1 DEF BackoffCovers
<1>7. CASE AwaitLeader(r)
    <2>1. /\ UNCHANGED <<status, owed>> /\ pc[r] # "idle"
          /\ pc'[r] = "idle" \/ UNCHANGED seen
        BY <1>0, <1>1, <1>7 DEF AwaitLeader, Return, Goto, object, history
    <2> QED
        BY <1>0, <2>1 DEF BackoffCovers
<1>8. CASE Patch(r)
    <2>1. seen'[r].failures = seen[r].failures
        BY <1>0, <1>8, PatchedFields
    <2>2. UNCHANGED <<status, owed>> /\ pc[r] # "idle"
        BY <1>8 DEF Patch, Goto, history
    <2> QED
        BY <1>0, <2>1, <2>2 DEF BackoffCovers
<1>9. CASE \/ ReadMissing(r) \/ ReadFound(r) \/ ReadFails(r) \/ OrderSucceeds(r) \/ OrderFails(r)
           \/ WriteSucceeds(r) \/ WriteFails(r) \/ NoPatch(r) \/ ServeAndClear(r) \/ Serve(r)
    <2>1. UNCHANGED <<status, owed, seen>> /\ pc[r] # "idle"
        BY <1>9 DEF ReadMissing, ReadFound, ReadFails, OrderSucceeds, OrderFails, WriteSucceeds,
                    WriteFails, NoPatch, ServeAndClear, Serve, Goto, object, history
    <2> QED
        BY <1>0, <2>1 DEF BackoffCovers
<1> QED
    BY <1>2, <1>3, <1>4, <1>5, <1>6, <1>7, <1>8, <1>9 DEF Progress, Failure

\* Every step keeps the backoff covered.
LEMMA BackoffStep ==
    ASSUME TypeOK, BackoffCovers, [Next]_vars
    PROVE  BackoffCovers'
<1>1. CASE UNCHANGED vars
    BY <1>1 DEF BackoffCovers, Alone, vars, object, history, replica
<1> QED
    BY <1>1, BackoffEnvironment, BackoffReplica DEF Next

\* A reconcile that starts has found no backoff, or a new request.
LEMMA WaitStep ==
    ASSUME TypeOK, BackoffCovers, [Next]_vars, Alone, NEW q \in deployed, StartsUnasked(q)
    PROVE  owed = 0
<1>1. pc[q] = "idle" /\ pc'[q] = "read" /\ ~seen'[q].forced
    BY DEF StartsUnasked
<1>2. CASE UNCHANGED vars \/ Environment \/ Tick
    BY <1>1, <1>2, EnvironmentLocal DEF vars, replica
<1>3. ASSUME NEW r \in deployed, Progress(r) \/ Failure(r)
      PROVE  owed = 0
    <2>1. r = q /\ r \in Replicas
        BY <1>3, OneReplica, Local
    <2>2. Begin(r)
        BY <1>1, <1>3, <2>1 DEF TypeOK, Progress, Failure, Gone, Paused, ReadMissing, ReadFound,
            ReadFails, AwaitLeader, OrderSucceeds, OrderFails, WriteSucceeds, WriteFails, Patch,
            NoPatch, ServeAndClear, Serve, Record, RecordFailure, RecordFails, Return, Goto
    <2>3. status.backoff = 0
        BY <1>1, <2>1, <2>2 DEF Begin, TypeOK
    <2> QED
        BY <2>3 DEF BackoffCovers, TypeOK
<1> QED
    BY <1>2, <1>3 DEF Next

\* With one replica, no attempt starts while the backoff after the last failure
\* lasts, unless a success or a new force-renew request came between.
THEOREM LoneReplicaWaits == Safe => LoneAttemptsWait
<1>1. Init => TypeOK /\ BackoffCovers
    BY TypeInit, BackoffInit
<1>2. TypeOK /\ BackoffCovers /\ [Next]_vars => (TypeOK /\ BackoffCovers)'
    BY TypeStep, BackoffStep
<1>3. TypeOK /\ BackoffCovers /\ [Next]_vars =>
        [Alone => \A r \in deployed : StartsUnasked(r) => owed = 0]_vars
    BY WaitStep
<1> QED
    BY <1>1, <1>2, <1>3, PTL DEF Safe, LoneAttemptsWait

-----------------------------------------------------------------------------
(* A single replica keeps the requests *)

\* A request has the number of its edit: a new one is unlike any that is recorded.
RequestsNumbered ==
    /\ forceRenew <= edits /\ status.acted <= edits /\ botched <= edits
    /\ \A r \in Replicas : seen[r].request <= edits /\ seen[r].acted <= edits /\ acted[r] <= edits

\* Certificates are in the order of issue: the status never shows a newer one
\* than the store, and a reconcile holds none older than the status shows.
HoldsInOrder(r) ==
    /\ cert[r] <= issued
    /\ pc[r] \in {"write", "rewrite"} => cert[r] = issued
    /\ pc[r] \in {"patch", "serve", "record"} =>
        (store # NoCert => cert[r] <= store) /\ status.cert <= cert[r]
CertificatesInOrder ==
    Alone /\ ~manual =>
        /\ asked <= status.cert /\ status.cert <= issued /\ store <= issued
        /\ store # NoCert => status.cert <= store
        /\ \A r \in deployed : HoldsInOrder(r)

\* Of the request that is there, a reconcile knows what the status says, or it
\* has not read it; and it records it as served with a new certificate only.
KnowsRequest(r) ==
    pc[r] # "idle" /\ forceRenew # NoRequest =>
        /\ seen[r].request = forceRenew =>
            seen[r].cert = status.cert /\ seen[r].acted = status.acted
        /\ forceRenew \in {seen[r].acted, status.acted} => seen[r].request = forceRenew
        /\ pc[r] = "record" /\ acted[r] = forceRenew /\ forceRenew # botched => cert[r] > asked
RequestsAnswered ==
    Alone /\ ~manual =>
        /\ status.acted = forceRenew /\ forceRenew \notin {NoRequest, botched} => status.cert > asked
        /\ \A r \in deployed : KnowsRequest(r)

\* The inductive invariant.
RequestInv == RequestsNumbered /\ CertificatesInOrder /\ RequestsAnswered

\* At the start there is no request.
LEMMA RequestInit == Init => RequestInv
<1> SUFFICES ASSUME Init PROVE RequestInv
    OBVIOUS
<1>1. status.cert = store /\ status.acted = 0 /\ store \in Nat
    BY BasicTypes DEF Init, Statuses
<1>2. deployed \in SUBSET Replicas
    BY RenewalAssumption DEF Init
<1>3. RequestsNumbered
    BY <1>1 DEF Init, RequestsNumbered, NothingSeen, NoRequest
<1>4. CertificatesInOrder
    BY <1>1, <1>2 DEF Init, CertificatesInOrder, HoldsInOrder, NoCert
<1>5. RequestsAnswered
    BY <1>1, <1>2 DEF Init, RequestsAnswered, KnowsRequest, NoRequest
<1> QED
    BY <1>3, <1>4, <1>5 DEF RequestInv

\* The numbers among the types, for the replica r.
LEMMA Numbers ==
    ASSUME TypeOK, NEW r \in Replicas
    PROVE  /\ status.cert \in Nat /\ status.acted \in Nat /\ store \in Nat /\ issued \in Nat
           /\ forceRenew \in Nat /\ asked \in Nat /\ botched \in Nat /\ edits \in Nat
           /\ seen[r].request \in Nat /\ seen[r].cert \in Nat /\ seen[r].acted \in Nat
           /\ cert[r] \in Nat /\ acted[r] \in Nat
BY DEF TypeOK, Statuses

\* No step records a request that was not made yet.
LEMMA NumberedStep ==
    ASSUME TypeOK, RequestsNumbered, [Next]_vars
    PROVE  RequestsNumbered'
<1>1. CASE UNCHANGED vars
    BY <1>1 DEF RequestsNumbered, vars, object, history, replica
<1>2. CASE Environment \/ Tick
    <2>1. UNCHANGED <<seen, acted>> /\ edits' \in {edits, edits + 1}
        BY <1>2, EnvironmentLocal DEF replica, Environment, Tick, RequestRenewal, TogglePause,
            DeleteTLSSecret, CreateTLSSecret, LoseStored, CertificateAges, MoveLeader, Edit
    <2>2. /\ forceRenew' \in {forceRenew, NoRequest, edits'}
          /\ status'.acted \in {status.acted, NoRequest}
          /\ botched' \in {botched, NoRequest}
        <3>1. CASE RequestRenewal
            BY <3>1 DEF RequestRenewal, Edit
        <3>2. CASE DeleteTLSSecret
            BY <3>2, BasicTypes DEF DeleteTLSSecret, NoRequest
        <3>3. CASE Tick
            BY <3>3 DEF Tick, TypeOK, Statuses
        <3>4. CASE Environment /\ ~RequestRenewal /\ ~DeleteTLSSecret
            BY <3>4 DEF Environment, TogglePause, CreateTLSSecret, LoseStored, CertificateAges,
                MoveLeader, object, history
        <3> QED
            BY <1>2, <3>1, <3>2, <3>3, <3>4
    <2> QED
        BY <2>1, <2>2, Numbers DEF RequestsNumbered, NoRequest, TypeOK, Statuses
<1>3. ASSUME NEW r \in deployed, Progress(r) \/ Failure(r)
      PROVE  RequestsNumbered'
    <2>0. /\ r \in Replicas /\ edits' = edits
          /\ \A q \in Replicas \ {r} : seen'[q] = seen[q] /\ acted'[q] = acted[q]
        BY <1>3, Local
    <2> SUFFICES /\ forceRenew' <= edits /\ status'.acted <= edits /\ botched' <= edits
                 /\ seen'[r].request <= edits /\ seen'[r].acted <= edits /\ acted'[r] <= edits
        BY <2>0 DEF RequestsNumbered
    <2>1. /\ seen \in [Replicas -> Sights] /\ acted \in [Replicas -> Nat] /\ status \in Statuses
          /\ edits \in Nat
        BY DEF TypeOK, Sights
    <2>2. CASE Begin(r)
        BY <2>0, <2>1, <2>2, Numbers DEF Begin, RequestsNumbered, object, history
    <2>3. CASE Paused(r)
        BY <2>0, <2>1, <2>3, PausedStatus DEF Paused, RequestsNumbered, history, Statuses
    <2>4. CASE Patch(r)
        BY <2>0, <2>1, <2>4, PatchedFields DEF Patch, RequestsNumbered, history
    <2>5. CASE ServeAndClear(r) \/ Serve(r)
        BY <2>0, <2>1, <2>5 DEF ServeAndClear, Serve, RequestsNumbered, object, history, NoRequest
    <2>6. CASE Record(r)
        <3>1. status'.acted = acted[r]
            BY <2>0, <2>6, RecordStatus
        <3> QED
            BY <2>0, <2>1, <2>6, <3>1 DEF Record, Return, RequestsNumbered, NothingSeen, NoRequest
    <2>7. CASE RecordFailure(r)
        <3>1. status'.acted = seen[r].request
            BY <2>0, <2>7, FailureStatus
        <3> QED
            BY <2>0, <2>1, <2>7, <3>1 DEF RecordFailure, Return, RequestsNumbered, NothingSeen,
                NoRequest
    <2>8. CASE AwaitLeader(r) \/ RecordFails(r)
        BY <2>0, <2>1, <2>8 DEF AwaitLeader, RecordFails, Return, RequestsNumbered, NothingSeen,
            NoRequest, object, history
    <2>9. CASE \/ Gone(r) \/ ReadMissing(r) \/ ReadFound(r) \/ ReadFails(r) \/ OrderSucceeds(r)
               \/ OrderFails(r) \/ WriteSucceeds(r) \/ WriteFails(r) \/ NoPatch(r)
        BY <2>0, <2>9 DEF Gone, ReadMissing, ReadFound, ReadFails, OrderSucceeds, OrderFails,
            WriteSucceeds, WriteFails, NoPatch, RequestsNumbered, object, history
    <2> QED
        BY <1>3, <2>2, <2>3, <2>4, <2>5, <2>6, <2>7, <2>8, <2>9 DEF Progress, Failure
<1> QED
    BY <1>1, <1>2, <1>3 DEF Next

\* What the operator, the store, the election and the clock do.
LEMMA RequestEnvironment ==
    ASSUME TypeOK, RequestInv, Environment \/ Tick
    PROVE  CertificatesInOrder' /\ RequestsAnswered'
<1> SUFFICES ASSUME Alone, ~manual
             PROVE  /\ asked' <= status'.cert /\ status'.cert <= issued' /\ store' <= issued'
                    /\ store' # NoCert => status'.cert <= store'
                    /\ \A r \in deployed : HoldsInOrder(r)'
                    /\ status'.acted = forceRenew' /\ forceRenew' \notin {NoRequest, botched'}
                        => status'.cert > asked'
                    /\ \A r \in deployed : KnowsRequest(r)'
    BY EnvironmentLocal DEF CertificatesInOrder, RequestsAnswered, Alone
<1>1. UNCHANGED <<deployed, manual, pc, seen, cert, acted>>
    BY EnvironmentLocal DEF replica
<1>2. PICK r : deployed = {r} /\ r \in Replicas
    <2>1. PICK q \in deployed : TRUE
        BY RenewalAssumption DEF TypeOK
    <2> QED
        BY <2>1, OneReplica, RenewalAssumption DEF TypeOK
<1>3. /\ asked <= status.cert /\ status.cert <= issued /\ store <= issued
      /\ store # NoCert => status.cert <= store
      /\ HoldsInOrder(r) /\ KnowsRequest(r)
      /\ status.acted = forceRenew /\ forceRenew \notin {NoRequest, botched} => status.cert > asked
      /\ forceRenew <= edits /\ status.acted <= edits /\ botched <= edits
      /\ seen[r].request <= edits /\ seen[r].acted <= edits /\ acted[r] <= edits
    BY <1>2 DEF RequestInv, RequestsNumbered, CertificatesInOrder, RequestsAnswered
<1>4. /\ status.cert \in Nat /\ status.acted \in Nat /\ store \in Nat /\ issued \in Nat
      /\ forceRenew \in Nat /\ asked \in Nat /\ botched \in Nat /\ edits \in Nat
      /\ cert[r] \in Nat /\ seen[r].request \in Nat /\ seen[r].acted \in Nat /\ acted[r] \in Nat
    BY <1>2, Numbers
<1> USE <1>1, <1>2, <1>3, <1>4 DEF HoldsInOrder, KnowsRequest
<1>5. CASE RequestRenewal
    BY <1>5 DEF RequestRenewal, stored, Edit
<1>6. CASE DeleteTLSSecret
    <2>1. /\ status'.cert = 0 /\ status'.acted = 0 /\ asked' = 0 /\ forceRenew' = NoRequest
          /\ UNCHANGED <<store, issued>>
        BY <1>6, BasicTypes DEF DeleteTLSSecret, stored, NoCert
    <2> QED
        BY <2>1
<1>7. CASE LoseStored
    BY <1>7 DEF LoseStored, object, history, NoCert
<1>8. CASE Tick
    <2>1. /\ status'.cert = status.cert /\ status'.acted = status.acted
          /\ UNCHANGED <<forceRenew, asked, botched, store, issued>>
        BY <1>8 DEF Tick, TypeOK, Statuses, stored
    <2> QED
        BY <2>1
<1>9. CASE Environment /\ ~RequestRenewal /\ ~DeleteTLSSecret /\ ~LoseStored
    <2>1. UNCHANGED <<status, forceRenew, asked, botched, store, issued>>
        BY <1>9 DEF Environment, TogglePause, CreateTLSSecret, CertificateAges, MoveLeader,
                    object, history, stored
    <2> QED
        BY <2>1
<1> QED
    BY <1>5, <1>6, <1>7, <1>8, <1>9

\* The request that a reconcile read is served only when it holds a certificate
\* newer than the one in the status when it was made, or an attempt has failed.
LEMMA ServedIsNewer ==
    ASSUME TypeOK, RequestInv, Alone, ~manual, NEW r \in deployed, pc[r] = "serve", Served(r),
           forceRenew # NoRequest, forceRenew = seen[r].request, forceRenew # botched
    PROVE  cert[r] > asked
<1>0. r \in Replicas
    BY RenewalAssumption DEF TypeOK
<1>1. /\ asked <= status.cert /\ status.cert <= cert[r]
      /\ status.acted = forceRenew => status.cert > asked
      /\ seen[r].cert = status.cert /\ seen[r].acted = status.acted
    BY DEF RequestInv, CertificatesInOrder, RequestsAnswered, HoldsInOrder, KnowsRequest
<1> QED
    BY <1>0, <1>1, Numbers DEF Served

\* What the replica does.
LEMMA RequestReplica ==
    ASSUME TypeOK, RequestInv, NEW r \in deployed, Progress(r) \/ Failure(r)
    PROVE  CertificatesInOrder' /\ RequestsAnswered'
<1>0. r \in Replicas /\ UNCHANGED <<deployed, manual>>
    BY Local
<1> SUFFICES ASSUME Alone, ~manual
             PROVE  /\ asked' <= status'.cert /\ status'.cert <= issued' /\ store' <= issued'
                    /\ store' # NoCert => status'.cert <= store'
                    /\ HoldsInOrder(r)'
                    /\ status'.acted = forceRenew' /\ forceRenew' \notin {NoRequest, botched'}
                        => status'.cert > asked'
                    /\ KnowsRequest(r)'
    BY <1>0, OneReplica DEF CertificatesInOrder, RequestsAnswered, Alone
<1>3. /\ asked <= status.cert /\ status.cert <= issued /\ store <= issued
      /\ store # NoCert => status.cert <= store
      /\ HoldsInOrder(r) /\ KnowsRequest(r)
      /\ status.acted = forceRenew /\ forceRenew \notin {NoRequest, botched} => status.cert > asked
    BY DEF RequestInv, CertificatesInOrder, RequestsAnswered
<1>4. /\ status.cert \in Nat /\ status.acted \in Nat /\ store \in Nat /\ issued \in Nat
      /\ forceRenew \in Nat /\ asked \in Nat /\ botched \in Nat
      /\ cert[r] \in Nat /\ seen[r].request \in Nat /\ seen[r].acted \in Nat /\ acted[r] \in Nat
    BY <1>0, Numbers
<1>5. /\ pc \in [Replicas -> Steps] /\ seen \in [Replicas -> Sights] /\ cert \in [Replicas -> Nat]
      /\ acted \in [Replicas -> Nat] /\ status \in Statuses
    BY DEF TypeOK, Sights
<1> USE <1>0, <1>3, <1>4, <1>5 DEF Goto, HoldsInOrder, KnowsRequest
<1>6. CASE Begin(r)
    BY <1>6 DEF Begin, object, history, stored
<1>7. CASE Gone(r)
    BY <1>7 DEF Gone, object, history, stored
<1>8. CASE Paused(r)
    <2>1. /\ status'.cert = status.cert /\ status'.acted = status.acted /\ pc'[r] = "idle"
          /\ UNCHANGED <<cert, forceRenew, asked, botched, store, issued>>
        BY <1>8, PausedStatus DEF Paused, history, stored, Statuses
    <2> QED
        BY <2>1
<1>9. CASE ReadMissing(r) \/ ReadFails(r) \/ OrderFails(r)
    BY <1>9 DEF ReadMissing, ReadFails, OrderFails, object, history, stored
<1>10. CASE ReadFound(r)
    BY <1>10 DEF ReadFound, StorageConfigRead, object, history, stored
<1>11. CASE OrderSucceeds(r)
    BY <1>11 DEF OrderSucceeds, object, history
<1>12. CASE WriteSucceeds(r)
    BY <1>12 DEF WriteSucceeds, Written, object, history
<1>13. CASE WriteFails(r)
    BY <1>13 DEF WriteFails, Written, object, history, stored
<1>14. CASE Patch(r)
    BY <1>14, PatchedFields DEF Patch, history, stored, NoCert, NoRequest
<1>15. CASE NoPatch(r)
    BY <1>15 DEF NoPatch, object, history, stored
<1>16. CASE ServeAndClear(r)
    BY <1>16 DEF ServeAndClear, history, stored
<1>17. CASE Serve(r)
    <2>1. /\ pc[r] = "serve" /\ pc'[r] = "record"
          /\ acted'[r] = IF seen[r].request = NoRequest THEN NoRequest
                         ELSE IF Served(r) THEN seen[r].request ELSE seen[r].acted
          /\ UNCHANGED <<status, cert, seen, forceRenew, asked, botched, store, issued>>
        BY <1>17 DEF Serve, object, history, stored
    <2>2. acted'[r] = forceRenew /\ forceRenew # NoRequest
            => Served(r) /\ forceRenew = seen[r].request
        BY <2>1 DEF Served
    <2>3. acted'[r] = forceRenew /\ forceRenew \notin {NoRequest, botched} => cert[r] > asked
        BY <2>1, <2>2, ServedIsNewer
    <2> QED
        BY <2>1, <2>3
<1>18. CASE Record(r)
    <2>1. /\ status'.cert = cert[r] /\ status'.acted = acted[r] /\ pc[r] = "record"
          /\ pc'[r] = "idle" /\ cert'[r] = 0
          /\ UNCHANGED <<forceRenew, asked, botched, store, issued>>
        BY <1>18, RecordStatus DEF Record, Return, NoCert, stored
    <2> QED
        BY <2>1
<1>19. CASE RecordFailure(r)
    <2>1. /\ status'.cert = status.cert /\ status'.acted = seen[r].request
          /\ botched' = IF seen[r].request # NoRequest THEN seen[r].request ELSE botched
          /\ pc'[r] = "idle" /\ cert'[r] = 0
          /\ UNCHANGED <<forceRenew, asked, store, issued>>
        BY <1>19, FailureStatus DEF RecordFailure, Return, NoCert, stored
    <2> QED
        BY <2>1
<1>20. CASE RecordFails(r)
    <2>1. /\ pc'[r] = "idle" /\ cert'[r] = 0
          /\ UNCHANGED <<status, forceRenew, asked, botched, store, issued>>
        BY <1>20 DEF RecordFails, Return, NoCert, object, history, stored
    <2> QED
        BY <2>1
<1>21. CASE AwaitLeader(r)
    <2>1. /\ \/ pc'[r] = "idle" /\ cert'[r] = 0
             \/ pc'[r] = "fail" /\ pc[r] = "missing" /\ UNCHANGED <<seen, cert, acted>>
          /\ UNCHANGED <<status, forceRenew, asked, botched, store, issued>>
        BY <1>21 DEF AwaitLeader, Return, NoCert, object, history, stored
    <2> QED
        BY <2>1
<1> QED
    BY <1>6, <1>7, <1>8, <1>9, <1>10, <1>11, <1>12, <1>13, <1>14, <1>15, <1>16, <1>17, <1>18, <1>19,
       <1>20, <1>21 DEF Progress, Failure

\* Every step keeps the requests in order.
LEMMA RequestStep == TypeOK /\ RequestInv /\ [Next]_vars => RequestInv'
<1> SUFFICES ASSUME TypeOK, RequestInv, [Next]_vars PROVE RequestInv'
    OBVIOUS
<1>1. RequestsNumbered'
    BY NumberedStep DEF RequestInv
<1>2. CASE UNCHANGED vars
    <2>1. CertificatesInOrder' /\ RequestsAnswered'
        BY <1>2 DEF RequestInv, CertificatesInOrder, RequestsAnswered, HoldsInOrder, KnowsRequest,
                    Alone, vars, object, history, stored, replica
    <2> QED
        BY <1>1, <2>1 DEF RequestInv
<1>3. CASE Next
    BY <1>1, <1>3, RequestEnvironment, RequestReplica DEF Next, RequestInv
<1> QED
    BY <1>2, <1>3

\* Only a reconcile that serves removes a request.
LEMMA RemovalStep ==
    ASSUME TypeOK, RequestInv, [Next]_vars, Alone, ~manual, RemovesRequest
    PROVE  \E r \in deployed : /\ pc[r] # pc'[r]
                               /\ forceRenew = seen[r].request /\ forceRenew # botched
                                    => cert[r] # asked
<1>1. forceRenew # NoRequest /\ forceRenew' = NoRequest /\ forceRenew' # forceRenew /\ exists'
    BY DEF RemovesRequest
<1>2. ~(UNCHANGED vars \/ Environment \/ Tick)
    <2>1. CASE RequestRenewal
        BY <1>1, <2>1 DEF RequestRenewal, TypeOK, NoRequest
    <2>2. CASE DeleteTLSSecret
        BY <1>1, <2>2 DEF DeleteTLSSecret
    <2>3. CASE \/ UNCHANGED vars \/ Tick \/ (Environment /\ ~RequestRenewal /\ ~DeleteTLSSecret)
        BY <1>1, <2>3 DEF vars, Tick, Environment, TogglePause, CreateTLSSecret, LoseStored,
            CertificateAges, MoveLeader, object, history
    <2> QED
        BY <2>1, <2>2, <2>3
<1>3. PICK r \in deployed : Progress(r) \/ Failure(r)
    BY <1>2 DEF Next
<1>4. ServeAndClear(r)
    BY <1>1, <1>3 DEF Progress, Failure, Gone, Paused, Begin, ReadMissing, ReadFound, ReadFails,
        AwaitLeader, OrderSucceeds, OrderFails, WriteSucceeds, WriteFails, Patch, NoPatch, Serve,
        Record, RecordFailure, RecordFails, object
<1>5. r \in Replicas /\ pc[r] = "serve" /\ pc'[r] = "record" /\ Served(r)
    BY <1>3, <1>4, Local DEF ServeAndClear, Goto, TypeOK
<1>6. forceRenew = seen[r].request /\ forceRenew # botched => cert[r] > asked
    BY <1>1, <1>5, ServedIsNewer
<1> QED
    BY <1>5, <1>6, Numbers

\* With one replica a force-renew request is removed only when the certificate
\* was really replaced, or an attempt at the replacement has failed.
THEOREM LoneReplicaKeepsRequests == Safe => LoneKeepsRequests
<1>1. TypeOK /\ RequestInv /\ [Next]_vars =>
        [Alone /\ ~manual /\ RemovesRequest => \E r \in deployed :
            /\ pc[r] # pc'[r]
            /\ forceRenew = seen[r].request /\ forceRenew # botched => cert[r] # asked]_vars
    BY RemovalStep
<1> QED
    BY <1>1, TypeInit, TypeStep, RequestInit, RequestStep, PTL DEF Safe, LoneKeepsRequests

=============================================================================
