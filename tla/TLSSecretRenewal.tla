---------------------------- MODULE TLSSecretRenewal ----------------------------
(***************************************************************************)
(* The life of one certificate: how the TLSSecret controllers (SDS) of the *)
(* deployed replicas issue, store, serve and renew it.                     *)
(*                                                                         *)
(* The replicas share the TLSSecret in Kubernetes, its status included,    *)
(* and the certificate store.  Each serves the certificate from its own    *)
(* SecretConfigs.  Only the leader orders certificates.  A reconcile is a  *)
(* chain of calls: it reads the object, reads the store, orders, stores,   *)
(* patches the annotations and writes the status, and others act between   *)
(* any two of them.  A replica reconciles one TLSSecret once at a time.    *)
(*                                                                         *)
(* A certificate is a number, in the order of issue.  Time is counted in   *)
(* ticks, and only a backoff takes time.  A reconcile may start whenever   *)
(* the replica is idle: events, a refresh and the end of a backoff start   *)
(* one (requeueInterval and the watches).                                  *)
(***************************************************************************)
EXTENDS Integers, FiniteSets

CONSTANTS
    Replicas,       \* replicas of the controller
    NoLeader,       \* no replica is leader
    Deployments,    \* the sets of replicas that may be deployed
    BaseDelay,      \* backoff after the first failure, in ticks
    MaxDelay,       \* upper bound of the backoff
    Multiplier,     \* growth of the backoff
    MaxEdits,       \* bound: edits of the object and the store, moves of the leader
    MaxFails        \* bound: failed calls; both by the number of replicas

ASSUME RenewalAssumption ==
    /\ NoLeader \notin Replicas
    /\ Deployments \subseteq (SUBSET Replicas) \ {{}}
    /\ \A d \in Deployments : IsFiniteSet(d)
    /\ BaseDelay \in Nat \ {0} /\ MaxDelay \in Nat \ {0} /\ Multiplier \in Nat \ {0}
    /\ \A d \in Deployments : /\ MaxEdits[Cardinality(d)] \in Nat
                              /\ MaxFails[Cardinality(d)] \in Nat

NoRequest == 0      \* no force-renew annotation
NoCert == 0         \* no certificate; as a secret, one without a certificate
Absent == -1        \* no secret in SecretConfigs

VARIABLES
    deployed,       \* the replicas
    manual,         \* manual challenge: the controller orders nothing
    leader,         \* the replica that is leader, or NoLeader
    exists,         \* does the TLSSecret exist?
    pause,          \* its pause annotation
    forceRenew,     \* its force-renew annotation: the number of the request
    expiration,     \* its cert-expiration annotation: the certificate it was taken from
    status,         \* its status
    store,          \* the certificate store
    due,            \* the stored certificate nears its end, or no longer fits the spec
    issued,         \* number of certificates issued
    SecretConfigs,  \* what each replica serves
    pc,             \* where each replica is
    seen,           \* what its reconcile knows of the object
    cert,           \* the certificate it has in hand
    acted,          \* the request it will record as acted on
    edits, fails,   \* number of edits and of failed calls
    asked,          \* history: the certificate in the status when forceRenew was set
    botched,        \* history: the last request that a failed attempt recorded
    owed            \* history: what is left of the last backoff that a leader recorded

history == <<asked, botched, owed>>
object == <<exists, pause, forceRenew, expiration, status, history>>
stored == <<store, due, issued>>
replica == <<SecretConfigs, pc, seen, cert, acted>>
vars == <<deployed, manual, leader, object, stored, replica, edits, fails>>

Statuses == [cert: Nat, failures: Nat, backoff: Nat, acted: Nat, paused: BOOLEAN]
EmptyStatus == [cert |-> NoCert, failures |-> 0, backoff |-> 0, acted |-> NoRequest,
                paused |-> FALSE]

-----------------------------------------------------------------------------
(* RetryPolicy *)

\* math.Pow of the multiplier.
Pow[n \in Nat] == IF n = 0 THEN 1 ELSE Multiplier * Pow[n - 1]

\* Mutant of DelayFor: the backoff is not capped.
DelayUncapped(failureCount) == BaseDelay * Pow[failureCount - 1]

\* normalize: the cap is not below the first delay.
LongestDelay == IF MaxDelay < BaseDelay THEN BaseDelay ELSE MaxDelay

\* A delay past the cap, as one too large for a duration, is the cap.
DelayFor(failureCount) ==
    IF failureCount <= 1 THEN BaseDelay
    ELSE LET delay == BaseDelay * Pow[failureCount - 1]
         IN  IF delay < LongestDelay THEN delay ELSE LongestDelay

-----------------------------------------------------------------------------
(* The operator, the clock, the leader election and the store. *)

Edit ==
    /\ edits < MaxEdits[Cardinality(deployed)]
    /\ edits' = edits + 1
    /\ UNCHANGED <<deployed, manual, replica, fails>>

\* kubectl annotate force-renew: every request has a value of its own.
RequestRenewal ==
    /\ Edit
    /\ exists
    /\ forceRenew' = edits + 1
    /\ asked' = status.cert
    /\ UNCHANGED <<leader, exists, pause, expiration, status, botched, owed, stored>>

TogglePause ==
    /\ Edit
    /\ exists
    /\ pause' = ~pause
    /\ UNCHANGED <<leader, exists, forceRenew, expiration, status, history, stored>>

DeleteTLSSecret ==
    /\ Edit
    /\ exists
    /\ exists' = FALSE
    /\ pause' = FALSE
    /\ forceRenew' = NoRequest
    /\ expiration' = NoCert
    /\ status' = EmptyStatus
    /\ asked' = NoCert
    /\ botched' = NoRequest
    /\ owed' = 0
    /\ UNCHANGED <<leader, stored>>

CreateTLSSecret ==
    /\ Edit
    /\ ~exists
    /\ exists' = TRUE
    /\ UNCHANGED <<leader, pause, forceRenew, expiration, status, history, stored>>

LoseStored ==
    /\ Edit
    /\ store # NoCert
    /\ store' = NoCert
    /\ due' = FALSE
    /\ UNCHANGED <<leader, object, issued>>

CertificateAges ==
    /\ Edit
    /\ store # NoCert /\ ~due
    /\ due' = TRUE
    /\ UNCHANGED <<leader, object, store, issued>>

MoveLeader(m) ==
    /\ Edit
    /\ leader # m
    /\ leader' = m
    /\ UNCHANGED <<object, stored>>

Tick ==
    /\ status.backoff > 0 \/ owed > 0
    /\ status' = [status EXCEPT !.backoff = IF @ > 0 THEN @ - 1 ELSE 0]
    /\ owed' = IF owed > 0 THEN owed - 1 ELSE 0
    /\ UNCHANGED <<deployed, manual, leader, exists, pause, forceRenew, expiration, asked,
                   botched, stored, replica, edits, fails>>

-----------------------------------------------------------------------------
(* TLSSecretReconciler.Reconcile *)

\* The replica goes on from one step to another.
Goto(r, from, to) ==
    /\ pc[r] = from
    /\ pc' = [pc EXCEPT ![r] = to]
    /\ UNCHANGED <<deployed, manual, leader, edits>>

NothingSeen == [request |-> NoRequest, forced |-> FALSE, expiration |-> NoCert, cert |-> NoCert,
                failures |-> 0, acted |-> NoRequest]

\* Reconcile returns, and its local variables are gone.
Return(r, from) ==
    /\ Goto(r, from, "idle")
    /\ seen' = [seen EXCEPT ![r] = NothingSeen]
    /\ cert' = [cert EXCEPT ![r] = NoCert]
    /\ acted' = [acted EXCEPT ![r] = NoRequest]
    /\ UNCHANGED SecretConfigs

\* A call fails.
CallFails ==
    /\ fails < MaxFails[Cardinality(deployed)]
    /\ fails' = fails + 1

\* The statuses differ at most in the backoff (tlsSecretStatusEqual).
tlsSecretStatusEqual(s, t) == [s EXCEPT !.backoff = 0] = [t EXCEPT !.backoff = 0]

\* Writes the status of the object as it is now: conflicts are tried again.  An
\* equal status is not written, unless its message changed or it is stale: the
\* second of two equal failures leaves the first one's backoff.
updateTLSSecretStatus(new) ==
    /\ exists
    /\ \/ status' = new
       \/ tlsSecretStatusEqual(status, new) /\ UNCHANGED status

\* StorageConfigRead: the certificate, in Vault, a Kubernetes Secret or a file.
\* NoCert stands for ErrCertNotFound and ErrCertNil.
StorageConfigRead == store

\* The TLSSecret is gone: its secret is served no more (removeSecretFromConfigs).
Gone(r) ==
    /\ ~exists
    /\ SecretConfigs[r] # Absent
    /\ SecretConfigs' = [SecretConfigs EXCEPT ![r] = Absent]
    /\ Goto(r, "idle", "idle")
    /\ UNCHANGED <<object, stored, seen, cert, acted, fails>>

\* Mutant of Paused: a pause clears the backoff.
PausedResets(r) ==
    /\ pause /\ ~status.paused
    /\ updateTLSSecretStatus([status EXCEPT !.paused = TRUE, !.failures = 0, !.backoff = 0])
    /\ Goto(r, "idle", "idle")
    /\ UNCHANGED <<exists, pause, forceRenew, expiration, history, stored, SecretConfigs,
                   seen, cert, acted, fails>>

\* The TLSSecret is paused: only its status says so, the backoff included.
Paused(r) ==
    /\ pause /\ ~status.paused
    /\ updateTLSSecretStatus([status EXCEPT !.paused = TRUE])
    /\ Goto(r, "idle", "idle")
    /\ UNCHANGED <<exists, pause, forceRenew, expiration, history, stored, SecretConfigs,
                   seen, cert, acted, fails>>

\* A force-renew request that was not acted on: it overrides the backoff.
NewRequest == forceRenew # NoRequest /\ forceRenew # status.acted

\* The object is read, and no backoff is to be waited out.
Begin(r) ==
    /\ exists /\ ~pause
    /\ status.backoff = 0 \/ NewRequest
    /\ seen' = [seen EXCEPT ![r] = [request |-> forceRenew, forced |-> NewRequest,
                                    expiration |-> expiration, cert |-> status.cert,
                                    failures |-> status.failures, acted |-> status.acted]]
    /\ Goto(r, "idle", "read")
    /\ UNCHANGED <<object, stored, SecretConfigs, cert, acted, fails>>

\* makeSecret, when the store has no certificate.
ReadMissing(r) ==
    /\ StorageConfigRead = NoCert
    /\ \/ leader # r /\ Goto(r, "read", "missing")
       \/ leader = r /\ ~manual /\ Goto(r, "read", "issue")
       \/ leader = r /\ manual /\ Goto(r, "read", "serve")
    /\ UNCHANGED <<object, stored, SecretConfigs, seen, cert, acted, fails>>

\* Must the stored certificate be replaced?
MustRenew(r) == ~manual /\ (seen[r].forced \/ due)

\* makeSecret, when it has one: only the leader renews it.
ReadFound(r) ==
    /\ StorageConfigRead # NoCert
    /\ \/ leader = r /\ MustRenew(r) /\ Goto(r, "read", "renew") /\ UNCHANGED cert
       \/ /\ ~(leader = r /\ MustRenew(r)) /\ Goto(r, "read", "patch")
          /\ cert' = [cert EXCEPT ![r] = StorageConfigRead]
    /\ UNCHANGED <<object, stored, SecretConfigs, seen, acted, fails>>

ReadFails(r) ==
    /\ CallFails
    /\ Goto(r, "read", "fail")
    /\ UNCHANGED <<object, stored, SecretConfigs, seen, cert, acted>>

\* A follower waits for the leader; one that has become leader since counts a failure.
AwaitLeader(r) ==
    /\ \/ leader # r /\ Return(r, "missing")
       \/ leader = r /\ Goto(r, "missing", "fail") /\ UNCHANGED <<SecretConfigs, seen, cert, acted>>
    /\ UNCHANGED <<object, stored, fails>>

\* CertGetter.Get
OrderSucceeds(r) ==
    /\ issued' = issued + 1
    /\ cert' = [cert EXCEPT ![r] = issued + 1]
    /\ Goto(r, "issue", "write") \/ Goto(r, "renew", "rewrite")
    /\ UNCHANGED <<object, store, due, SecretConfigs, seen, acted, fails>>

\* Mutant of OrderFails: the error is swallowed, and a secret without a certificate served.
OrderSwallowed(r) ==
    /\ CallFails
    /\ Goto(r, "issue", "serve") \/ Goto(r, "renew", "serve")
    /\ UNCHANGED <<object, stored, SecretConfigs, seen, cert, acted>>

OrderFails(r) ==
    /\ CallFails
    /\ Goto(r, "issue", "fail") \/ Goto(r, "renew", "fail")
    /\ UNCHANGED <<object, stored, SecretConfigs, seen, cert, acted>>

\* StorageConfigWrite takes effect.
Written(r) == store' = cert[r] /\ due' = FALSE /\ UNCHANGED issued

\* After the first certificate makeSecret goes on as if it had been found: a
\* force-renew request has it replaced at once.
WriteSucceeds(r) ==
    /\ Written(r)
    /\ \/ Goto(r, "rewrite", "patch")
       \/ ~seen[r].forced /\ Goto(r, "write", "patch")
       \/ seen[r].forced /\ Goto(r, "write", "renew")
    /\ UNCHANGED <<object, SecretConfigs, seen, cert, acted, fails>>

\* The write fails, or its answer is lost.
WriteFails(r) ==
    /\ CallFails
    /\ Written(r) \/ UNCHANGED stored
    /\ Goto(r, "write", "fail") \/ Goto(r, "rewrite", "fail")
    /\ UNCHANGED <<object, SecretConfigs, seen, cert, acted>>

\* The cert-expiration annotation is patched if it changed.  The answer to the
\* patch brings the status of now, except for fields that are empty in it.
Patch(r) ==
    /\ exists
    /\ seen[r].expiration # cert[r]
    /\ expiration' = cert[r]
    /\ seen' = [seen EXCEPT ![r].cert = IF status.cert # NoCert THEN status.cert ELSE @,
                            ![r].acted = IF status.acted # NoRequest THEN status.acted ELSE @]
    /\ Goto(r, "patch", "serve")
    /\ UNCHANGED <<exists, pause, forceRenew, status, history, stored, SecretConfigs, cert,
                   acted, fails>>

\* Nothing to patch, or the patch fails, which is only logged.
NoPatch(r) ==
    /\ \/ (seen[r].expiration = cert[r] \/ ~exists) /\ UNCHANGED fails
       \/ seen[r].expiration # cert[r] /\ exists /\ CallFails
    /\ Goto(r, "patch", "serve")
    /\ UNCHANGED <<object, stored, SecretConfigs, seen, cert, acted>>

\* Mutant of Served: any reconcile that succeeds serves the request.
ServedAlways(r) == seen[r].request # NoRequest

\* Mutant of Served: a request is served only by the reconcile that issued.
ServedOnce(r) == seen[r].forced /\ cert[r] # NoCert /\ cert[r] # seen[r].cert

\* servedNow: another certificate is in place than the status said.
\* alreadyServed: the request was recorded, only its removal is outstanding.
Served(r) ==
    \/ seen[r].forced /\ cert[r] # NoCert /\ cert[r] # seen[r].cert
    \/ seen[r].request # NoRequest /\ seen[r].request = seen[r].acted

\* The request is served and its annotation removed, whatever it says by now
\* (clearForceRenew); the secret is served.
ServeAndClear(r) ==
    /\ exists
    /\ Served(r)
    /\ forceRenew' = NoRequest
    /\ SecretConfigs' = [SecretConfigs EXCEPT ![r] = cert[r]]
    /\ acted' = [acted EXCEPT ![r] = NoRequest]
    /\ Goto(r, "serve", "record")
    /\ UNCHANGED <<exists, pause, expiration, status, history, stored, seen, cert, fails>>

\* There is no request, or it is not served yet, or its removal fails.
Serve(r) ==
    /\ \/ (Served(r) => ~exists) /\ UNCHANGED fails
       \/ Served(r) /\ exists /\ CallFails
    /\ SecretConfigs' = [SecretConfigs EXCEPT ![r] = cert[r]]
    /\ acted' = [acted EXCEPT ![r] = IF seen[r].request = NoRequest THEN NoRequest
                                     ELSE IF Served(r) THEN seen[r].request
                                     ELSE seen[r].acted]
    /\ Goto(r, "serve", "record")
    /\ UNCHANGED <<object, stored, seen, cert>>

\* updateTLSSecretStatus after a success: the backoff is over.  The history
\* counts it over only if this reconcile knew of it, or is the leader's.
Record(r) ==
    /\ updateTLSSecretStatus([cert |-> cert[r], failures |-> 0, backoff |-> 0,
                              acted |-> acted[r], paused |-> FALSE])
    /\ owed' = IF leader = r \/ seen[r].failures = status.failures THEN 0 ELSE owed
    /\ Return(r, "record")
    /\ UNCHANGED <<exists, pause, forceRenew, expiration, asked, botched, stored, fails>>

\* updateTLSSecretStatus after a failure: the certificate stays, the backoff
\* grows, and the request counts as acted on.
RecordFailure(r) ==
    LET failureCount == seen[r].failures + 1 IN
    /\ updateTLSSecretStatus([cert |-> status.cert, failures |-> failureCount,
                              backoff |-> DelayFor(failureCount),
                              acted |-> seen[r].request, paused |-> FALSE])
    /\ botched' = IF seen[r].request # NoRequest THEN seen[r].request ELSE botched
    /\ owed' = IF leader = r THEN DelayFor(failureCount) ELSE owed
    /\ Return(r, "fail")
    /\ UNCHANGED <<exists, pause, forceRenew, expiration, asked, stored, fails>>

\* The status is not written: the call fails, or the object is gone.
RecordFails(r) ==
    /\ \/ ~exists /\ UNCHANGED fails
       \/ exists /\ CallFails
    /\ Return(r, "record") \/ Return(r, "fail")
    /\ UNCHANGED <<object, stored>>

-----------------------------------------------------------------------------

\* The replicas start on a new TLSSecret, or on one that has its certificate.
Init ==
    /\ deployed \in Deployments
    /\ manual \in BOOLEAN
    /\ leader = CHOOSE m \in deployed : TRUE
    /\ exists = TRUE
    /\ pause = FALSE
    /\ forceRenew = NoRequest
    /\ store \in {NoCert, 1}
    /\ due = FALSE
    /\ issued = store
    /\ expiration = store
    /\ status = [EmptyStatus EXCEPT !.cert = store]
    /\ SecretConfigs = [r \in Replicas |-> Absent]
    /\ pc = [r \in Replicas |-> "idle"]
    /\ seen = [r \in Replicas |-> NothingSeen]
    /\ cert = [r \in Replicas |-> NoCert]
    /\ acted = [r \in Replicas |-> NoRequest]
    /\ edits = 0
    /\ fails = 0
    /\ asked = NoCert
    /\ botched = NoRequest
    /\ owed = 0

Environment ==
    \/ RequestRenewal \/ TogglePause \/ DeleteTLSSecret \/ CreateTLSSecret
    \/ LoseStored \/ CertificateAges
    \/ \E m \in deployed \union {NoLeader} : MoveLeader(m)

\* The steps of a reconcile that do not fail.
Progress(r) ==
    \/ Gone(r) \/ Paused(r) \/ Begin(r) \/ ReadMissing(r) \/ ReadFound(r) \/ AwaitLeader(r)
    \/ OrderSucceeds(r) \/ WriteSucceeds(r) \/ Patch(r) \/ NoPatch(r)
    \/ ServeAndClear(r) \/ Serve(r) \/ Record(r) \/ RecordFailure(r)
    \/ (~exists /\ RecordFails(r))

Failure(r) == ReadFails(r) \/ OrderFails(r) \/ WriteFails(r) \/ RecordFails(r)

Next ==
    \/ Environment
    \/ Tick
    \/ \E r \in deployed : Progress(r) \/ Failure(r)

Safe == Init /\ [][Next]_vars

\* Time passes, and every replica goes on with its reconciles: a call that
\* fails is tried again after the backoff, and fails finitely often.
Fairness == WF_vars(Tick) /\ \A r \in Replicas : WF_vars(r \in deployed /\ Progress(r))

Spec == Safe /\ Fairness

-----------------------------------------------------------------------------
(* Properties *)

Steps == {"idle", "read", "missing", "issue", "write", "renew", "rewrite", "patch", "serve",
          "record", "fail"}

\* Every variable has its type; a backoff never exceeds its cap.
TypeOK ==
    /\ deployed \in Deployments /\ manual \in BOOLEAN
    /\ leader \in deployed \union {NoLeader}
    /\ exists \in BOOLEAN /\ pause \in BOOLEAN
    /\ forceRenew \in Nat /\ expiration \in Nat
    /\ status \in Statuses /\ status.backoff <= LongestDelay
    /\ store \in Nat /\ due \in BOOLEAN /\ issued \in Nat
    /\ SecretConfigs \in [Replicas -> Nat \union {Absent}]
    /\ pc \in [Replicas -> Steps]
    /\ seen \in [Replicas -> [request: Nat, forced: BOOLEAN, expiration: Nat, cert: Nat,
                              failures: Nat, acted: Nat]]
    /\ cert \in [Replicas -> Nat]
    /\ acted \in [Replicas -> Nat]
    /\ edits \in Nat /\ fails \in Nat
    /\ asked \in Nat /\ botched \in Nat /\ owed \in 0..LongestDelay

\* A certificate that Envoy was given is never taken back or replaced by an
\* empty secret while the TLSSecret exists: not when the store loses it, an
\* order or a call fails, the leader moves or the TLSSecret is paused.  (With a
\* manual challenge it is: a lost certificate is replaced by the empty secret.)
KeepsServing ==
    [][\A r \in Replicas : ~manual /\ SecretConfigs[r] > NoCert /\ exists
        => SecretConfigs'[r] > NoCert]_vars

\* The controller removes the force-renew annotation.
RemovesRequest == forceRenew # NoRequest /\ forceRenew' = NoRequest /\ exists'

\* "removes the annotation only once a different certificate has actually been
\* stored" (README of SDS): the replica that removes it holds, from the store,
\* another certificate than the status showed when the request was made.
NeverDropsRequest ==
    [][~manual /\ RemovesRequest => \E r \in deployed : pc[r] # pc'[r] /\ cert[r] # asked]_vars

\* The leader starts a reconcile, and not for the sake of a new force-renew request.
StartsUnasked(r) == leader = r /\ pc[r] = "idle" /\ pc'[r] = "read" /\ ~seen'[r].forced

\* backoffUntil is the "earliest time of the next attempt" (README of SDS): no
\* attempt starts while the backoff after the leader's last failure lasts, unless
\* a success that knew of it came between or a new force-renew request asks for it.
\* With two replicas it does not hold (README, section 5).
AttemptsWait == [][~manual => \A r \in deployed : StartsUnasked(r) => owed = 0]_vars

\* The Deployment has one replica.
Alone == Cardinality(deployed) = 1

\* With one replica, a reconcile removes the request that it read only if it
\* holds another certificate than the status showed when that was made, or an
\* attempt at it has failed: whatever pauses, leader changes, lost store, and
\* failed patches and status writes.  (With a manual challenge the reconcile that
\* finishes a removal may hold no certificate: the store has lost it.)
LoneKeepsRequests ==
    [][Alone /\ ~manual /\ RemovesRequest => \E r \in deployed :
        /\ pc[r] # pc'[r]
        /\ forceRenew = seen[r].request /\ forceRenew # botched => cert[r] # asked]_vars

\* AttemptsWait, for one replica: pauses, leader changes and failed status
\* writes included.
LoneAttemptsWait == [][Alone => \A r \in deployed : StartsUnasked(r) => owed = 0]_vars

\* Once the operator and the faults stop, and there is a leader, a certificate
\* that must be renewed is renewed, the requests are gone, and every replica
\* serves what is stored.
Renews ==
    <>[](/\ ~exists => \A r \in deployed : SecretConfigs[r] = Absent
         /\ exists /\ ~pause /\ ~manual /\ leader # NoLeader =>
              /\ store # NoCert /\ ~due
              /\ forceRenew = NoRequest
              /\ \A r \in deployed : SecretConfigs[r] = store)

=============================================================================
