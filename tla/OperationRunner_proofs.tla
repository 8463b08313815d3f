------------------------ MODULE OperationRunner_proofs ------------------------
(***************************************************************************)
(* What the host promises of model requests, and then an AI operation of   *)
(* the page with the host and the audit store behind it: for any set of    *)
(* request ids, and any numbers of threads, of heads and of events that    *)
(* wait.                                                                   *)
(***************************************************************************)
EXTENDS OperationRunner, OperationStore_proofs, FiniteSetTheorems

-----------------------------------------------------------------------------
(* The maps of the host: the inductive invariant *)

\* The authorization of t was taken and its request is not yet registered.
OnItsWay(t) == call[t].stage = "taken"

\* The request of t is registered: it runs, or has not been removed yet.
Registered(t) == Busy(t) /\ ~OnItsWay(t)

\* The thread between the two has the session mutex, so the project it compared
\* its authorization with is still open at the same head; nobody has told it to
\* stop, as nobody finds it yet.
MutexGuardsTheWay ==
    \A t \in Threads :
        /\ OnItsWay(t) <=> session.holder = t
        /\ OnItsWay(t) => /\ session.open /\ session.head = call[t].auth.base
                          /\ call[t].control = "active" /\ ~call[t].answered

\* The map of running requests holds exactly the registered threads.
ActiveIsRegistered ==
    /\ \A r \in Requests : active[r] # NoThread =>
          Registered(active[r]) /\ RequestOf(active[r]) = r
    /\ \A t \in Threads : Registered(t) => active[RequestOf(t)] = t

\* A request id has one place: it waits once, or one thread has it.
OnePlace ==
    /\ \A p, q \in pending : p.request = q.request => p = q
    /\ \A t \in Threads : Busy(t) => \A p \in pending : p.request # RequestOf(t)
    /\ \A t, u \in Threads : Busy(t) /\ Busy(u) /\ RequestOf(t) = RequestOf(u) => t = u

\* A stream has an outcome only when its transport is done; one that a cancel
\* command found running stays cancelled to its end.
EndsAsStopped(c) ==
    /\ c.stage \in {"taken", "streaming"} => c.outcome = "none"
    /\ c.stage = "returning" => c.outcome # "none"
    /\ c.answered => /\ c.control = "cancelled"
                     /\ c.stage \in {"streaming", "returning"}
                     /\ c.outcome \in {"none", "cancelled"}

StoppedStays == \A t \in Threads : Busy(t) => EndsAsStopped(call[t])

GatewayInvariant ==
    /\ MgTypeOK
    /\ MutexGuardsTheWay
    /\ ActiveIsRegistered
    /\ OnePlace
    /\ StoppedStays
    /\ ClosedProjectRunsNothing

LEMMA InitGateway == MgInit => GatewayInvariant
<1> SUFFICES ASSUME MgInit PROVE GatewayInvariant
  OBVIOUS
<1>1. MgTypeOK
  BY FS_EmptySet, BoundsAreNatural DEF MgInit, MgTypeOK, Idle, Call
<1>2. \A t \in Threads : ~Busy(t) /\ ~OnItsWay(t) /\ ~Registered(t)
  BY DEF MgInit, Busy, Idle, OnItsWay, Registered
<1>3. MutexGuardsTheWay
  BY <1>2, NoThreadIsNone DEF MgInit, MutexGuardsTheWay
<1>4. ActiveIsRegistered /\ OnePlace /\ StoppedStays /\ ClosedProjectRunsNothing
  BY <1>2 DEF MgInit, ActiveIsRegistered, OnePlace, StoppedStays, ClosedProjectRunsNothing
<1>5. QED BY <1>1, <1>3, <1>4 DEF GatewayInvariant

-----------------------------------------------------------------------------
(* The actions that leave every thread alone *)

\* A set of waiting authorizations that lost some is still finite and small enough.
LEMMA FewerWait ==
    ASSUME MgTypeOK, NEW waiting \in SUBSET pending
    PROVE  IsFiniteSet(waiting) /\ Cardinality(waiting) \in Nat
           /\ Cardinality(waiting) <= MaxPending
<1>1. /\ IsFiniteSet(pending) /\ Cardinality(pending) \in Nat
      /\ Cardinality(pending) <= MaxPending
  BY FS_CardinalityType DEF MgTypeOK
<1>2. /\ IsFiniteSet(waiting) /\ Cardinality(waiting) \in Nat
      /\ Cardinality(waiting) <= Cardinality(pending)
  BY <1>1, FS_Subset, FS_CardinalityType
<1>3. QED BY <1>1, <1>2, BoundsAreNatural

\* One element more.
LEMMA OneMore ==
    ASSUME NEW S, IsFiniteSet(S), NEW n \in Nat, Cardinality(S) < n, NEW x
    PROVE  IsFiniteSet(S \cup {x}) /\ Cardinality(S \cup {x}) <= n
<1>1. Cardinality(S) \in Nat
  BY FS_CardinalityType
<1>2. /\ IsFiniteSet(S \cup {x})
      /\ Cardinality(S \cup {x}) = IF x \in S THEN Cardinality(S) ELSE Cardinality(S) + 1
  BY FS_AddElement
<1>3. QED BY <1>1, <1>2

LEMMA AuthorizeKeeps ==
    ASSUME GatewayInvariant, NEW r \in Requests, Authorize(r)
    PROVE  GatewayInvariant'
<1> USE DEF GatewayInvariant
<1> DEFINE waiting == {p \in pending : ~p.expired}
           fresh == [id |-> issued + 1, request |-> r, base |-> session.head, expired |-> FALSE]
<1>1. UNCHANGED <<session, active, call, cancel>> /\ session.open
  BY DEF Authorize
<1>2. /\ waiting \subseteq pending /\ IsFiniteSet(waiting)
      /\ Cardinality(waiting) \in Nat /\ Cardinality(waiting) <= MaxPending
  BY FewerWait
<1>3. \/ pending' = waiting /\ issued' = issued
      \/ /\ pending' = waiting \cup {fresh} /\ issued' = issued + 1
         /\ issued < MaxAuthorizations
         /\ Cardinality(waiting) < MaxPending
         /\ \A p \in waiting : p.request # r
         /\ active[r] = NoThread
  BY <1>2, BoundsAreNatural DEF Authorize, AtCapacity, InUse
<1> HIDE DEF waiting
<1>4. MgTypeOK'
  <2>1. issued < MaxAuthorizations =>
           fresh \in Pending /\ issued + 1 \in 0 .. MaxAuthorizations
    BY BoundsAreNatural DEF MgTypeOK, Pending, Authorizations
  <2>2. IsFiniteSet(pending') /\ Cardinality(pending') <= MaxPending
    <3> HIDE DEF fresh
    <3>1. CASE pending' = waiting
      BY <3>1, <1>2
    <3>2. CASE pending' = waiting \cup {fresh} /\ Cardinality(waiting) < MaxPending
      BY <3>2, <1>2, OneMore, BoundsAreNatural
    <3>3. QED BY <1>3, <3>1, <3>2
  <2>3. pending' \subseteq Pending /\ issued' \in 0 .. MaxAuthorizations
    <3>1. pending \subseteq Pending /\ issued \in 0 .. MaxAuthorizations
      BY DEF MgTypeOK
    <3> HIDE DEF fresh
    <3>2. QED BY <1>2, <1>3, <2>1, <3>1, BoundsAreNatural
  <2>4. QED BY <1>1, <2>2, <2>3 DEF MgTypeOK
<1>5. MutexGuardsTheWay' /\ ActiveIsRegistered' /\ StoppedStays'
  BY <1>1 DEF MutexGuardsTheWay, ActiveIsRegistered, StoppedStays,
     OnItsWay, Registered, Busy, RequestOf
<1>6. OnePlace'
  <2>1. CASE pending' = waiting
    BY <2>1, <1>1, <1>2 DEF OnePlace, Busy, RequestOf
  <2>2. CASE /\ pending' = waiting \cup {fresh}
             /\ \A p \in waiting : p.request # r
             /\ active[r] = NoThread
    <3>1. \A t \in Threads : Busy(t) => RequestOf(t) # r
      <4> SUFFICES ASSUME NEW t \in Threads, Busy(t), RequestOf(t) = r PROVE FALSE
        OBVIOUS
      <4>1. OnItsWay(t)
        BY <2>2, NoThreadIsNone DEF ActiveIsRegistered, Registered
      <4>2. session.holder = t
        BY <4>1 DEF MutexGuardsTheWay
      <4>3. session.holder = NoThread
        BY DEF Authorize, Free
      <4>4. QED BY <4>2, <4>3, NoThreadIsNone
    <3>2. fresh.request = r
      OBVIOUS
    <3>3. QED BY <2>2, <3>1, <3>2, <1>1, <1>2 DEF OnePlace, Busy, RequestOf
  <2>3. QED BY <1>3, <2>1, <2>2
<1>7. ClosedProjectRunsNothing'
  BY <1>1 DEF ClosedProjectRunsNothing
<1>8. QED BY <1>4, <1>5, <1>6, <1>7

LEMMA OpenKeeps == ASSUME GatewayInvariant, Open PROVE GatewayInvariant'
<1> USE DEF GatewayInvariant
<1>1. PICK head \in {session.head, session.head + 1} :
         head <= MaxHead /\ session' = [session EXCEPT !.open = TRUE, !.head = head]
  BY DEF Open
<1>2. UNCHANGED <<issued, pending, active, call, cancel>>
  BY DEF Open
<1>3. session'.open = TRUE /\ session'.holder = session.holder
      /\ session.holder = NoThread
  BY <1>1 DEF MgTypeOK, Open, Free
<1>4. MgTypeOK'
  <2>1. session.head \in 1 .. MaxHead /\ head \in 1 .. MaxHead
    BY <1>1, BoundsAreNatural DEF MgTypeOK
  <2>2. QED BY <1>1, <1>2, <2>1 DEF MgTypeOK
<1>5. MutexGuardsTheWay'
  BY <1>2, <1>3, NoThreadIsNone DEF MutexGuardsTheWay, OnItsWay
<1>6. ActiveIsRegistered' /\ OnePlace' /\ StoppedStays'
  BY <1>2 DEF ActiveIsRegistered, OnePlace, StoppedStays, OnItsWay, Registered,
     Busy, RequestOf
<1>7. ClosedProjectRunsNothing'
  BY <1>3 DEF ClosedProjectRunsNothing
<1>8. QED BY <1>4, <1>5, <1>6, <1>7

LEMMA CommitKeeps == ASSUME GatewayInvariant, Commit PROVE GatewayInvariant'
<1> USE DEF GatewayInvariant
<1>1. /\ session' = [session EXCEPT !.head = @ + 1]
      /\ session.head < MaxHead /\ session.open /\ session.holder = NoThread
      /\ UNCHANGED <<issued, pending, active, call, cancel>>
  BY DEF Commit, Free
<1>2. session'.open /\ session'.holder = NoThread
  BY <1>1 DEF MgTypeOK
<1>3. MgTypeOK'
  BY <1>1, BoundsAreNatural DEF MgTypeOK
<1>4. MutexGuardsTheWay'
  BY <1>1, <1>2, NoThreadIsNone DEF MutexGuardsTheWay, OnItsWay
<1>5. ActiveIsRegistered' /\ OnePlace' /\ StoppedStays'
  BY <1>1 DEF ActiveIsRegistered, OnePlace, StoppedStays, OnItsWay, Registered,
     Busy, RequestOf
<1>6. ClosedProjectRunsNothing'
  BY <1>2 DEF ClosedProjectRunsNothing
<1>7. QED BY <1>3, <1>4, <1>5, <1>6

\* An authorization that is dropped changes nothing else.
LEMMA DropKeeps ==
    ASSUME GatewayInvariant, pending' \subseteq pending, cancel' \subseteq cancel,
           UNCHANGED <<session, issued, active, call>>
    PROVE  GatewayInvariant'
<1> USE DEF GatewayInvariant
<1>1. MgTypeOK'
  BY FewerWait DEF MgTypeOK
<1>2. QED
  BY <1>1 DEF MutexGuardsTheWay, ActiveIsRegistered, OnePlace, StoppedStays,
     ClosedProjectRunsNothing, OnItsWay, Registered, Busy, RequestOf

LEMMA ExpireKeeps ==
    ASSUME GatewayInvariant, NEW p \in pending, Expire(p)
    PROVE  GatewayInvariant'
<1> USE DEF GatewayInvariant
<1> DEFINE old == [p EXCEPT !.expired = TRUE]
           rest == pending \ {p}
<1>1. /\ pending' = rest \cup {old}
      /\ UNCHANGED <<session, issued, active, call, cancel>>
  BY DEF Expire
<1>2. p \in Pending /\ old \in Pending /\ old.request = p.request
  BY DEF MgTypeOK, Pending
<1>3. /\ IsFiniteSet(pending') /\ Cardinality(pending') <= MaxPending
  <2>1. IsFiniteSet(rest) /\ Cardinality(rest) = Cardinality(pending) - 1
        /\ Cardinality(pending) \in Nat
    BY FS_RemoveElement, FS_CardinalityType DEF MgTypeOK
  <2>2. Cardinality(rest) < MaxPending
    BY <2>1, BoundsAreNatural DEF MgTypeOK
  <2> HIDE DEF old, rest
  <2>3. QED BY <1>1, <2>1, <2>2, OneMore, BoundsAreNatural
<1>4. MgTypeOK'
  BY <1>1, <1>2, <1>3 DEF MgTypeOK
<1>5. OnePlace'
  <2>1. p \in pending /\ (\A q \in pending' : q = old \/ (q \in pending /\ q # p))
    BY <1>1
  <2> HIDE DEF old
  <2>2. \A q, o \in pending' : q.request = o.request => q = o
    BY <2>1, <1>2 DEF OnePlace
  <2>3. \A t \in Threads : Busy(t) => \A q \in pending' : q.request # RequestOf(t)
    BY <2>1, <1>2 DEF OnePlace
  <2>4. QED BY <2>2, <2>3, <1>1 DEF OnePlace, Busy, RequestOf
<1>6. QED
  BY <1>1, <1>4, <1>5 DEF MutexGuardsTheWay, ActiveIsRegistered, StoppedStays,
     ClosedProjectRunsNothing, OnItsWay, Registered, Busy, RequestOf

-----------------------------------------------------------------------------
(* The actions in which registered threads go on *)

LEMMA BusyIsCall ==
    ASSUME MgTypeOK, NEW t \in Threads
    PROVE  Busy(t) <=> call[t] \in Call
BY DEF MgTypeOK, Busy, Idle, Call

\* A step that moves registered threads on, keeping their authorizations, and
\* may drop waiting authorizations.
LEMMA ThreadsGoOn ==
    ASSUME GatewayInvariant,
           pending' \subseteq pending, cancel' \subseteq Requests,
           UNCHANGED <<issued, active>>,
           session' \in [open : BOOLEAN, head : 1 .. MaxHead, holder : Threads \cup {NoThread}],
           session'.holder = session.holder, session'.head = session.head,
           session'.open = session.open \/ session.holder = NoThread,
           call' \in [Threads -> Call \cup {Idle}],
           \A t \in Threads :
              \/ call'[t] = call[t]
              \/ /\ Registered(t) /\ call'[t] \in Call
                 /\ call'[t].auth = call[t].auth /\ call'[t].stage # "taken"
                 /\ EndsAsStopped(call'[t]),
           ClosedProjectRunsNothing'
    PROVE  GatewayInvariant'
<1> USE DEF GatewayInvariant
<1>1. MgTypeOK'
  BY FewerWait DEF MgTypeOK
<1>2. ASSUME NEW t \in Threads
      PROVE  /\ Busy(t)' <=> Busy(t)
             /\ OnItsWay(t)' <=> OnItsWay(t)
             /\ OnItsWay(t) => call'[t] = call[t]
             /\ Busy(t) => RequestOf(t)' = RequestOf(t) /\ EndsAsStopped(call'[t])
  <2>1. call[t] = call'[t] => (Busy(t) => EndsAsStopped(call'[t]))
    BY DEF StoppedStays
  <2>2. call'[t] \in Call => call'[t].stage # "idle"
    BY DEF Call
  <2>3. QED BY <2>1, <2>2 DEF Busy, OnItsWay, Registered, RequestOf
<1>3. MutexGuardsTheWay'
  BY <1>2, NoThreadIsNone DEF MutexGuardsTheWay, OnItsWay
<1>4. ActiveIsRegistered'
  <2>1. \A t \in Threads : /\ Registered(t)' <=> Registered(t)
                           /\ Registered(t) => RequestOf(t)' = RequestOf(t)
    BY <1>2 DEF Registered
  <2>2. \A r \in Requests : active[r] # NoThread => active[r] \in Threads
    BY DEF MgTypeOK
  <2>3. \A t \in Threads : Registered(t) => RequestOf(t) \in Requests
    BY BusyIsCall DEF Registered, RequestOf, Call, Pending
  <2>4. QED BY <2>1, <2>2, <2>3 DEF ActiveIsRegistered
<1>5. OnePlace'
  BY <1>2 DEF OnePlace
<1>6. StoppedStays'
  BY <1>2 DEF StoppedStays
<1>7. QED BY <1>1, <1>3, <1>4, <1>5, <1>6

\* What Stop does to a call.
LEMMA StopKeeps ==
    ASSUME NEW c \in Call, c.stage # "taken", EndsAsStopped(c),
           NEW state \in {"cancelled", "timed_out"}
    PROVE  /\ Stop(c, state) \in Call
           /\ Stop(c, state).auth = c.auth /\ Stop(c, state).stage = c.stage
           /\ Stop(c, state).answered = c.answered /\ Stop(c, state).outcome = c.outcome
           /\ Stop(c, state).control # "active"
           /\ c.control # "active" => Stop(c, state).control = c.control
           /\ c.control = "active" => Stop(c, state).control = state
           /\ EndsAsStopped(Stop(c, state))
BY DEF Stop, Call, EndsAsStopped

LEMMA CloseKeeps == ASSUME GatewayInvariant, Close PROVE GatewayInvariant'
<1> USE DEF GatewayInvariant
<1> DEFINE found(t) == Busy(t) /\ active[RequestOf(t)] = t
<1>1. /\ session.holder = NoThread
      /\ session' = [session EXCEPT !.open = FALSE]
      /\ pending' = {}
      /\ UNCHANGED <<issued, active, cancel>>
      /\ call' = [t \in Threads |-> IF found(t) THEN Stop(call[t], "cancelled") ELSE call[t]]
  BY DEF Close, Free, CancelAll
<1>2. /\ session' \in [open : BOOLEAN, head : 1 .. MaxHead, holder : Threads \cup {NoThread}]
      /\ session'.holder = session.holder /\ session'.head = session.head
  BY <1>1 DEF MgTypeOK
<1>3. \A t \in Threads : ~OnItsWay(t)
  BY <1>1, NoThreadIsNone DEF MutexGuardsTheWay
<1>4. ASSUME NEW t \in Threads
      PROVE  IF Busy(t)
             THEN /\ Registered(t) /\ call[t] \in Call
                  /\ call'[t] = Stop(call[t], "cancelled")
                  /\ call'[t] \in Call
                  /\ call'[t].auth = call[t].auth /\ call'[t].stage = call[t].stage
                  /\ call'[t].stage # "taken" /\ call'[t].control # "active"
                  /\ EndsAsStopped(call'[t])
             ELSE call'[t] = call[t]
  <2>1. CASE Busy(t)
    <3>1. Registered(t) /\ call[t] \in Call /\ EndsAsStopped(call[t])
      BY <2>1, <1>3, BusyIsCall DEF Registered, StoppedStays
    <3>2. found(t)
      BY <2>1, <3>1 DEF ActiveIsRegistered
    <3>3. call'[t] = Stop(call[t], "cancelled")
      BY <1>1, <3>2
    <3>4. call[t].stage # "taken"
      BY <3>1 DEF Registered, OnItsWay
    <3>5. QED BY <2>1, <3>1, <3>3, <3>4, StopKeeps
  <2>2. CASE ~Busy(t)
    BY <2>2, <1>1
  <2>3. QED BY <2>1, <2>2
<1>5. call' \in [Threads -> Call \cup {Idle}]
  <2>1. \A t \in Threads : call'[t] \in Call \cup {Idle}
    BY <1>4 DEF MgTypeOK
  <2>2. QED BY <2>1, <1>1
<1>6. ClosedProjectRunsNothing'
  <2>1. \A t \in Threads : Busy(t)' => Busy(t)
    BY <1>4 DEF Busy
  <2>2. QED BY <2>1, <1>1, <1>4 DEF ClosedProjectRunsNothing
<1>7. cancel' \subseteq Requests
  BY <1>1 DEF MgTypeOK
<1>8. QED BY <1>1, <1>2, <1>4, <1>5, <1>6, <1>7, ThreadsGoOn

\* One registered thread goes on.
LEMMA OneGoesOn ==
    ASSUME GatewayInvariant, NEW t \in Threads, Registered(t),
           NEW c \in Call, c.auth = call[t].auth, c.stage # "taken", EndsAsStopped(c),
           session.open \/ c.stage \in {"finishing", "returning"} \/ c.control # "active",
           call' = [call EXCEPT ![t] = c], cancel' \subseteq Requests,
           UNCHANGED <<session, issued, pending, active>>
    PROVE  GatewayInvariant'
<1> USE DEF GatewayInvariant
<1>1. call'[t] = c /\ \A u \in Threads \ {t} : call'[u] = call[u]
  BY DEF MgTypeOK
<1>2. call' \in [Threads -> Call \cup {Idle}]
  BY DEF MgTypeOK
<1>3. ClosedProjectRunsNothing'
  BY <1>1 DEF ClosedProjectRunsNothing, Busy
<1>4. QED BY <1>1, <1>2, <1>3, ThreadsGoOn DEF MgTypeOK

\* A registered thread of a closed project has been stopped, or its transport is done.
LEMMA RegisteredThread ==
    ASSUME GatewayInvariant, NEW t \in Threads, call[t].stage \notin {"idle", "taken"}
    PROVE  /\ Registered(t) /\ Busy(t) /\ call[t] \in Call /\ EndsAsStopped(call[t])
           /\ \/ session.open
              \/ call[t].stage \in {"finishing", "returning"}
              \/ call[t].control # "active"
BY BusyIsCall DEF GatewayInvariant, Registered, Busy, OnItsWay, StoppedStays,
   ClosedProjectRunsNothing

LEMMA TimeOutKeeps ==
    ASSUME GatewayInvariant, NEW t \in Threads, TimeOut(t) PROVE GatewayInvariant'
<1> DEFINE c == Stop(call[t], "timed_out")
<1>1. Registered(t) /\ call[t] \in Call /\ EndsAsStopped(call[t])
  BY RegisteredThread DEF TimeOut
<1>2. /\ c \in Call /\ c.auth = call[t].auth /\ c.stage # "taken" /\ EndsAsStopped(c)
      /\ c.control # "active"
  BY <1>1, StopKeeps DEF TimeOut
<1>3. /\ call' = [call EXCEPT ![t] = c]
      /\ UNCHANGED <<session, issued, pending, active, cancel>>
  BY DEF TimeOut
<1>4. cancel' \subseteq Requests
  BY <1>3 DEF GatewayInvariant, MgTypeOK
<1> HIDE DEF c
<1>5. QED BY <1>1, <1>2, <1>3, <1>4, OneGoesOn

LEMMA EndTransportKeeps ==
    ASSUME GatewayInvariant, NEW t \in Threads, EndTransport(t) PROVE GatewayInvariant'
<1>1. PICK o \in Outcome(call[t].control) :
         call' = [call EXCEPT ![t].outcome = o,
                              ![t].stage = IF o = "none" THEN "finishing" ELSE "returning"]
  BY DEF EndTransport
<1> DEFINE c == [call[t] EXCEPT !.outcome = o,
                                !.stage = IF o = "none" THEN "finishing" ELSE "returning"]
<1>2. /\ Registered(t) /\ call[t] \in Call /\ EndsAsStopped(call[t])
      /\ call[t].stage = "streaming"
  BY RegisteredThread DEF EndTransport
<1>3. /\ o \in {"none", "failed", "cancelled", "timed_out"}
      /\ o = "cancelled" \/ call[t].control # "cancelled"
  BY <1>2 DEF Outcome, Call
<1>4. /\ c \in Call /\ c.auth = call[t].auth /\ c.stage \in {"finishing", "returning"}
      /\ EndsAsStopped(c)
  BY <1>2, <1>3 DEF Call, EndsAsStopped
<1>5. call' = [call EXCEPT ![t] = c] /\ UNCHANGED <<session, issued, pending, active, cancel>>
  BY <1>1 DEF EndTransport, GatewayInvariant, MgTypeOK
<1>6. cancel' \subseteq Requests
  BY <1>5 DEF GatewayInvariant, MgTypeOK
<1> HIDE DEF c
<1>7. QED BY <1>2, <1>4, <1>5, <1>6, OneGoesOn

LEMMA FinishKeeps ==
    ASSUME GatewayInvariant, NEW t \in Threads, Finish(t) PROVE GatewayInvariant'
<1>1. PICK o \in {"ok", "failed"} :
         call' = [call EXCEPT ![t].stage = "returning", ![t].outcome = o]
  BY DEF Finish
<1> DEFINE c == [call[t] EXCEPT !.stage = "returning", !.outcome = o]
<1>2. /\ Registered(t) /\ call[t] \in Call /\ EndsAsStopped(call[t])
      /\ call[t].stage = "finishing"
  BY RegisteredThread DEF Finish
<1>3. c \in Call /\ c.auth = call[t].auth /\ c.stage = "returning" /\ EndsAsStopped(c)
  BY <1>2 DEF Call, EndsAsStopped
<1>4. call' = [call EXCEPT ![t] = c] /\ UNCHANGED <<session, issued, pending, active, cancel>>
  BY <1>1 DEF Finish, GatewayInvariant, MgTypeOK
<1>5. cancel' \subseteq Requests
  BY <1>4 DEF GatewayInvariant, MgTypeOK
<1> HIDE DEF c
<1>6. QED BY <1>2, <1>3, <1>4, <1>5, OneGoesOn

LEMMA CancelKeepsStopped ==
    ASSUME NEW c \in Call, c.stage # "taken", EndsAsStopped(c),
           NEW d, d = CancelStream(c)
    PROVE  /\ d \in Call /\ d.auth = c.auth /\ d.stage # "taken" /\ d.control # "active"
           /\ EndsAsStopped(d)
<1> DEFINE s == Stop(c, "cancelled")
           hit == c.control = "active" /\ c.stage = "streaming"
<1>1. /\ s \in Call /\ s.auth = c.auth /\ s.stage = c.stage
      /\ s.answered = c.answered /\ s.outcome = c.outcome /\ s.control # "active"
      /\ c.control = "active" => s.control = "cancelled"
      /\ EndsAsStopped(s)
  BY StopKeeps
<1> HIDE DEF s
<1>2. d = [s EXCEPT !.answered = @ \/ hit]
  BY DEF CancelStream, s
<1>3. /\ d \in Call /\ d.auth = s.auth /\ d.stage = s.stage /\ d.control = s.control
      /\ d.outcome = s.outcome /\ d.answered = (s.answered \/ hit)
  BY <1>1, <1>2 DEF Call
<1>4. hit => s.outcome = "none" /\ s.control = "cancelled"
  BY <1>1 DEF EndsAsStopped
<1>5. EndsAsStopped(d)
  BY <1>1, <1>3, <1>4 DEF EndsAsStopped
<1>6. QED BY <1>1, <1>3, <1>5

LEMMA CancelActiveKeeps ==
    ASSUME GatewayInvariant, NEW r \in Requests, CancelActive(r) PROVE GatewayInvariant'
<1> DEFINE t == active[r]
           c == CancelStream(call[t])
<1>1. /\ UNCHANGED <<session, issued, pending, active>>
      /\ cancel' \subseteq Requests
  BY DEF CancelActive, GatewayInvariant, MgTypeOK
<1>2. CASE t = NoThread
  <2>1. call' = call
    BY <1>2 DEF CancelActive
  <2>2. QED
    BY <1>1, <2>1 DEF GatewayInvariant, MgTypeOK, MutexGuardsTheWay, ActiveIsRegistered,
       OnePlace, StoppedStays, ClosedProjectRunsNothing, OnItsWay, Registered, Busy,
       RequestOf
<1>3. CASE t # NoThread
  <2>1. t \in Threads /\ Registered(t)
    BY <1>3 DEF GatewayInvariant, MgTypeOK, ActiveIsRegistered
  <2>2. call[t] \in Call /\ EndsAsStopped(call[t]) /\ call[t].stage # "taken"
    BY <2>1, RegisteredThread DEF Registered, OnItsWay, Busy
  <2>3. call' = [call EXCEPT ![t] = c]
    BY <1>3 DEF CancelActive
  <2>4. /\ c \in Call /\ c.auth = call[t].auth /\ c.stage # "taken" /\ c.control # "active"
        /\ EndsAsStopped(c)
    BY <2>2, CancelKeepsStopped
  <2> HIDE DEF c, t
  <2>5. QED BY <1>1, <2>1, <2>3, <2>4, OneGoesOn
<1>4. QED BY <1>2, <1>3

-----------------------------------------------------------------------------
(* The actions that take the session mutex or a place in the map *)

LEMMA TakeKeeps ==
    ASSUME GatewayInvariant, NEW t \in Threads, NEW p \in pending, Take(t, p)
    PROVE  GatewayInvariant'
<1> USE DEF GatewayInvariant
<1> DEFINE c == [ stage |-> "taken", auth |-> p, control |-> "active",
                  answered |-> FALSE, outcome |-> "none" ]
<1>1. /\ session.holder = NoThread /\ session.open /\ ~Busy(t)
      /\ pending' = pending \ {p}
      /\ UNCHANGED <<issued, active, cancel>>
  BY DEF Take, Free
<1>2. CASE UNCHANGED <<session, call>>
  BY <1>1, <1>2, DropKeeps
<1>3. CASE /\ Usable(p)
           /\ session' = [session EXCEPT !.holder = t]
           /\ call' = [call EXCEPT ![t] = c]
  <2>1. p \in Pending /\ p.base = session.head
    BY <1>3 DEF MgTypeOK, Usable
  <2>2. /\ c \in Call /\ c.stage = "taken" /\ c.auth = p /\ c.control = "active"
        /\ ~c.answered /\ EndsAsStopped(c)
    BY <2>1 DEF Call, EndsAsStopped
  <2> HIDE DEF c
  <2>3. /\ call'[t] = c /\ \A u \in Threads \ {t} : call'[u] = call[u]
        /\ call' \in [Threads -> Call \cup {Idle}]
    BY <1>3, <2>2 DEF MgTypeOK
  <2>4. /\ session'.open = session.open /\ session'.head = session.head
        /\ session'.holder = t
        /\ session' \in [open : BOOLEAN, head : 1 .. MaxHead, holder : Threads \cup {NoThread}]
    BY <1>3 DEF MgTypeOK
  <2>5. MgTypeOK'
    BY <1>1, <2>3, <2>4, FewerWait DEF MgTypeOK
  <2>6. /\ OnItsWay(t)' /\ Busy(t)' /\ ~Registered(t)' /\ RequestOf(t)' = p.request
        /\ \A u \in Threads \ {t} : /\ OnItsWay(u)' <=> OnItsWay(u)
                                    /\ Busy(u)' <=> Busy(u)
                                    /\ Registered(u)' <=> Registered(u)
                                    /\ RequestOf(u)' = RequestOf(u)
    BY <2>2, <2>3 DEF OnItsWay, Busy, Registered, RequestOf
  <2>7. MutexGuardsTheWay'
    <3>1. \A u \in Threads : ~OnItsWay(u)
      BY <1>1, NoThreadIsNone DEF MutexGuardsTheWay
    <3>2. QED BY <1>1, <2>1, <2>2, <2>3, <2>4, <2>6, <3>1 DEF MutexGuardsTheWay
  <2>8. ActiveIsRegistered'
    <3>1. \A r \in Requests : active[r] # t
      BY <1>1, NoThreadIsNone DEF ActiveIsRegistered, Registered
    <3>2. \A r \in Requests : active[r] # NoThread => active[r] \in Threads
      BY DEF MgTypeOK
    <3>3. \A u \in Threads : Registered(u) => RequestOf(u) \in Requests
      BY BusyIsCall DEF Registered, RequestOf, Call, Pending
    <3>4. QED BY <1>1, <2>6, <3>1, <3>2, <3>3 DEF ActiveIsRegistered
  <2>9. OnePlace'
    BY <1>1, <2>6 DEF OnePlace
  <2>10. StoppedStays'
    BY <2>2, <2>3, <2>6 DEF StoppedStays
  <2>11. ClosedProjectRunsNothing'
    BY <1>1, <2>4 DEF ClosedProjectRunsNothing
  <2>12. QED BY <2>5, <2>7, <2>8, <2>9, <2>10, <2>11
<1>4. QED BY <1>2, <1>3 DEF Take, HoldSession

\* The thread that holds the session mutex gives it back: the state it leaves.
LEMMA Released ==
    ASSUME GatewayInvariant, NEW t \in Threads, OnItsWay(t), ReleaseSession
    PROVE  /\ session.open /\ session'.open /\ session'.head = session.head
           /\ session'.holder = NoThread
           /\ session' \in [open : BOOLEAN, head : 1 .. MaxHead, holder : Threads \cup {NoThread}]
           /\ Busy(t) /\ call[t] \in Call /\ call[t].control = "active"
           /\ ~call[t].answered /\ EndsAsStopped(call[t])
           /\ \A u \in Threads \ {t} : ~OnItsWay(u)
<1>1. Busy(t)
  BY DEF OnItsWay, Busy
<1>2. QED
  BY <1>1, BusyIsCall DEF GatewayInvariant, MgTypeOK, ReleaseSession, MutexGuardsTheWay,
     StoppedStays

LEMMA PrepareFailsKeeps ==
    ASSUME GatewayInvariant, NEW t \in Threads, PrepareFails(t)
    PROVE  GatewayInvariant'
<1> USE DEF GatewayInvariant
<1>1. /\ OnItsWay(t) /\ ReleaseSession
      /\ call' = [call EXCEPT ![t] = Idle]
      /\ UNCHANGED <<issued, pending, active, cancel>>
  BY DEF PrepareFails, OnItsWay
<1>2. /\ session'.open /\ session'.holder = NoThread
      /\ session' \in [open : BOOLEAN, head : 1 .. MaxHead, holder : Threads \cup {NoThread}]
      /\ \A u \in Threads \ {t} : ~OnItsWay(u)
  BY <1>1, Released
<1>3. /\ call'[t] = Idle /\ \A u \in Threads \ {t} : call'[u] = call[u]
      /\ call' \in [Threads -> Call \cup {Idle}]
  BY <1>1 DEF MgTypeOK
<1>4. /\ ~Busy(t)' /\ ~OnItsWay(t)' /\ ~Registered(t)'
      /\ \A u \in Threads \ {t} : /\ OnItsWay(u)' <=> OnItsWay(u)
                                  /\ Busy(u)' <=> Busy(u)
                                  /\ Registered(u)' <=> Registered(u)
                                  /\ RequestOf(u)' = RequestOf(u)
  BY <1>3 DEF OnItsWay, Busy, Registered, RequestOf, Idle
<1>5. MgTypeOK'
  BY <1>1, <1>2, <1>3 DEF MgTypeOK
<1>6. MutexGuardsTheWay'
  BY <1>2, <1>4, NoThreadIsNone DEF MutexGuardsTheWay
<1>7. ActiveIsRegistered'
  <2>1. \A r \in Requests : active[r] # NoThread => active[r] \in Threads \ {t}
    BY <1>1 DEF MgTypeOK, ActiveIsRegistered, Registered
  <2>2. \A u \in Threads : Registered(u) => RequestOf(u) \in Requests
    BY BusyIsCall DEF Registered, RequestOf, Call, Pending
  <2>3. QED BY <1>1, <1>4, <2>1, <2>2 DEF ActiveIsRegistered
<1>8. OnePlace'
  BY <1>1, <1>4 DEF OnePlace
<1>9. StoppedStays'
  BY <1>3, <1>4 DEF StoppedStays
<1>10. ClosedProjectRunsNothing'
  BY <1>2 DEF ClosedProjectRunsNothing
<1>11. QED BY <1>5, <1>6, <1>7, <1>8, <1>9, <1>10

LEMMA RegisterKeeps ==
    ASSUME GatewayInvariant, NEW t \in Threads, Register(t)
    PROVE  GatewayInvariant'
<1> USE DEF GatewayInvariant
<1> DEFINE r == RequestOf(t)
           c == [call[t] EXCEPT !.stage = "streaming"]
<1>1. /\ OnItsWay(t) /\ ReleaseSession /\ active[r] = NoThread
      /\ active' = [active EXCEPT ![r] = t]
      /\ call' = [call EXCEPT ![t].stage = "streaming"]
      /\ UNCHANGED <<issued, pending, cancel>>
  BY DEF Register, OnItsWay
<1>2. /\ session'.open /\ session'.holder = NoThread
      /\ session' \in [open : BOOLEAN, head : 1 .. MaxHead, holder : Threads \cup {NoThread}]
      /\ Busy(t) /\ call[t] \in Call /\ ~call[t].answered /\ EndsAsStopped(call[t])
      /\ call[t].stage = "taken"
      /\ \A u \in Threads \ {t} : ~OnItsWay(u)
  BY <1>1, Released DEF OnItsWay
<1>3. /\ c \in Call /\ c.auth = call[t].auth /\ c.stage = "streaming"
      /\ EndsAsStopped(c) /\ r \in Requests
  BY <1>2 DEF Call, Pending, EndsAsStopped, RequestOf
<1>4. /\ call'[t] = c /\ \A u \in Threads \ {t} : call'[u] = call[u]
      /\ call' \in [Threads -> Call \cup {Idle}]
      /\ active'[r] = t /\ \A s \in Requests \ {r} : active'[s] = active[s]
      /\ active' \in [Requests -> Threads \cup {NoThread}]
  BY <1>1, <1>3 DEF MgTypeOK
<1> HIDE DEF c
<1>5. /\ Busy(t)' /\ ~OnItsWay(t)' /\ Registered(t)' /\ RequestOf(t)' = r
      /\ \A u \in Threads \ {t} : /\ ~OnItsWay(u)'
                                  /\ Busy(u)' <=> Busy(u)
                                  /\ Registered(u)' <=> Registered(u)
                                  /\ RequestOf(u)' = RequestOf(u)
  BY <1>2, <1>3, <1>4 DEF OnItsWay, Busy, Registered, RequestOf
<1>6. MgTypeOK'
  BY <1>1, <1>2, <1>4 DEF MgTypeOK
<1>7. MutexGuardsTheWay'
  BY <1>2, <1>5, NoThreadIsNone DEF MutexGuardsTheWay
<1>8. ActiveIsRegistered'
  <2>1. \A s \in Requests : active[s] # NoThread => active[s] \in Threads \ {t}
    BY <1>1 DEF MgTypeOK, ActiveIsRegistered, Registered
  <2>2. \A u \in Threads \ {t} : Registered(u) => RequestOf(u) \in Requests \ {r}
    BY <1>2, BusyIsCall DEF OnePlace, Registered, RequestOf, Call, Pending
  <2>3. QED BY <1>3, <1>4, <1>5, <2>1, <2>2 DEF ActiveIsRegistered
<1>9. OnePlace'
  BY <1>1, <1>2, <1>5 DEF OnePlace
<1>10. StoppedStays'
  BY <1>3, <1>4, <1>5 DEF StoppedStays
<1>11. ClosedProjectRunsNothing'
  BY <1>2 DEF ClosedProjectRunsNothing
<1>12. QED BY <1>6, <1>7, <1>8, <1>9, <1>10, <1>11

LEMMA ReturnKeeps ==
    ASSUME GatewayInvariant, NEW t \in Threads, Return(t)
    PROVE  GatewayInvariant'
<1> USE DEF GatewayInvariant
<1> DEFINE r == RequestOf(t)
<1>1. /\ active' = [active EXCEPT ![r] = NoThread]
      /\ call' = [call EXCEPT ![t] = Idle]
      /\ UNCHANGED <<session, issued, pending, cancel>>
  BY DEF Return
<1>2. Registered(t) /\ Busy(t) /\ ~OnItsWay(t) /\ r \in Requests
  <2>1. Registered(t) /\ Busy(t) /\ call[t] \in Call
    BY RegisteredThread DEF Return
  <2>2. QED BY <2>1 DEF Registered, RequestOf, Call, Pending
<1>3. /\ call'[t] = Idle /\ \A u \in Threads \ {t} : call'[u] = call[u]
      /\ call' \in [Threads -> Call \cup {Idle}]
      /\ active'[r] = NoThread /\ \A s \in Requests \ {r} : active'[s] = active[s]
      /\ active' \in [Requests -> Threads \cup {NoThread}]
  BY <1>1, <1>2 DEF MgTypeOK
<1>4. /\ ~Busy(t)' /\ ~OnItsWay(t)' /\ ~Registered(t)'
      /\ \A u \in Threads \ {t} : /\ OnItsWay(u)' <=> OnItsWay(u)
                                  /\ Busy(u)' <=> Busy(u)
                                  /\ Registered(u)' <=> Registered(u)
                                  /\ RequestOf(u)' = RequestOf(u)
  BY <1>3 DEF OnItsWay, Busy, Registered, RequestOf, Idle
<1>5. MgTypeOK'
  BY <1>1, <1>3 DEF MgTypeOK
<1>6. MutexGuardsTheWay'
  BY <1>1, <1>2, <1>3, <1>4 DEF MutexGuardsTheWay
<1>7. ActiveIsRegistered'
  <2>1. \A s \in Requests \ {r} : active[s] # NoThread => active[s] \in Threads \ {t}
    BY DEF MgTypeOK, ActiveIsRegistered
  <2>2. \A u \in Threads \ {t} : Registered(u) => RequestOf(u) \in Requests \ {r}
    BY <1>2, BusyIsCall DEF OnePlace, Registered, RequestOf, Call, Pending
  <2>3. QED BY <1>3, <1>4, <2>1, <2>2 DEF ActiveIsRegistered
<1>8. OnePlace'
  BY <1>1, <1>4 DEF OnePlace
<1>9. StoppedStays'
  BY <1>3, <1>4 DEF StoppedStays
<1>10. ClosedProjectRunsNothing'
  BY <1>1, <1>3, <1>4 DEF ClosedProjectRunsNothing
<1>11. QED BY <1>5, <1>6, <1>7, <1>8, <1>9, <1>10

\* Every step of the host keeps the invariant.
LEMMA GatewayStep ==
    ASSUME GatewayInvariant, [MgNext]_mgVars
    PROVE  GatewayInvariant'
<1>1. ASSUME NEW r \in Requests, Authorize(r) \/ CancelActive(r) \/ CancelPending(r)
      PROVE  GatewayInvariant'
  <2>1. CASE CancelPending(r)
    <3>1. /\ pending' \subseteq pending /\ cancel' \subseteq cancel
          /\ UNCHANGED <<session, issued, active, call>>
      BY <2>1 DEF CancelPending
    <3>2. QED BY <3>1, DropKeeps
  <2>2. QED BY <1>1, <2>1, AuthorizeKeeps, CancelActiveKeeps
<1>2. CASE Open \/ Commit \/ Close
  BY <1>2, OpenKeeps, CommitKeeps, CloseKeeps
<1>3. ASSUME NEW p \in pending, Expire(p) PROVE GatewayInvariant'
  BY <1>3, ExpireKeeps
<1>4. ASSUME NEW t \in Threads, NEW p \in pending, Take(t, p) PROVE GatewayInvariant'
  BY <1>4, TakeKeeps
<1>5. ASSUME NEW t \in Threads,
             \/ PrepareFails(t) \/ Register(t) \/ TimeOut(t) \/ EndTransport(t)
             \/ Finish(t) \/ Return(t)
      PROVE  GatewayInvariant'
  BY <1>5, PrepareFailsKeeps, RegisterKeeps, TimeOutKeeps, EndTransportKeeps,
     FinishKeeps, ReturnKeeps
<1>6. CASE UNCHANGED mgVars
  BY <1>6, DropKeeps DEF mgVars
<1>7. QED BY <1>1, <1>2, <1>3, <1>4, <1>5, <1>6 DEF MgNext

-----------------------------------------------------------------------------
(* Theorems *)

THEOREM GatewayInvariantHolds == MgSpec => []GatewayInvariant
<1>1. MgInit => GatewayInvariant
  BY InitGateway
<1>2. GatewayInvariant /\ [MgNext]_mgVars => GatewayInvariant'
  BY GatewayStep
<1>3. QED BY <1>1, <1>2, PTL DEF MgSpec

\* The maps, the session and every call keep their shape, and the map of waiting
\* authorizations its capacity (authorize compares its size before it inserts).
THEOREM MgTypeCorrect == MgSpec => []MgTypeOK
<1>1. GatewayInvariant => MgTypeOK
  BY DEF GatewayInvariant
<1>2. QED BY <1>1, GatewayInvariantHolds, PTL

\* close_project leaves nothing behind that waits, is on its way to the network,
\* or streams without having been told to stop.
THEOREM ClosedRunsNothing == MgSpec => []ClosedProjectRunsNothing
<1>1. GatewayInvariant => ClosedProjectRunsNothing
  BY DEF GatewayInvariant
<1>2. QED BY <1>1, GatewayInvariantHolds, PTL

\* take_authorized_request compares the head once; because the session mutex is
\* held until the request is registered, the comparison is still true then.
THEOREM HeadStaysAuthorized == MgSpec => []HeadIsAuthorized
<1>1. GatewayInvariant => HeadIsAuthorized
  BY DEF GatewayInvariant, MutexGuardsTheWay, OnItsWay, HeadIsAuthorized
<1>2. QED BY <1>1, GatewayInvariantHolds, PTL

\* At most one authorization of a request id can still lead to a request, and a
\* stream is found under its id as long as it runs.
THEOREM OneHolder == MgSpec => []OneHolderPerRequest
<1>1. GatewayInvariant => OneHolderPerRequest
  <2> SUFFICES ASSUME GatewayInvariant, NEW r \in Requests
               PROVE  /\ Cardinality(LiveFor(r)) <= 1
                      /\ \A t \in Threads :
                            Busy(t) /\ call[t].stage # "taken" /\ RequestOf(t) = r
                              => active[r] = t
    BY DEF OneHolderPerRequest
  <2>1. \A i, j \in LiveFor(r) : i = j
    BY DEF GatewayInvariant, OnePlace, LiveFor
  <2>2. LiveFor(r) = {} \/ \E i : LiveFor(r) = {i}
    BY <2>1
  <2>3. Cardinality({}) = 0 /\ \A i : Cardinality({i}) = 1
    BY FS_EmptySet, FS_Singleton
  <2>4. Cardinality(LiveFor(r)) <= 1
    <3>1. Cardinality(LiveFor(r)) = 0 \/ Cardinality(LiveFor(r)) = 1
      BY <2>2, <2>3, Zenon
    <3>2. QED BY <3>1
  <2>5. QED
    BY <2>4 DEF GatewayInvariant, ActiveIsRegistered, Registered, OnItsWay
<1>2. QED BY <1>1, GatewayInvariantHolds, PTL

\* ModelCancellation keeps the first state that was written, so a stream that a
\* cancel command found running ends as cancelled.
THEOREM StoppedIsCancelled == MgSpec => []StoppedEndsCancelled
<1>1. GatewayInvariant => StoppedEndsCancelled
  BY DEF GatewayInvariant, StoppedStays, EndsAsStopped, StoppedEndsCancelled
<1>2. QED BY <1>1, GatewayInvariantHolds, PTL
-----------------------------------------------------------------------------
(* The inductive invariant: the page *)

Over(await) == await \in {"persisting", "done"}

\* An attempt is being made, or is to be repeated.
Trying(await) ==
    await \in {"authorizing", "authorized", "withdrawing", "executing", "waiting", "sleeping"}

\* The states of a run follow the transitions the store accepts, but for a
\* cancellation while the proposal is validated, which ends the run.
Walks(states) ==
    /\ states \in Seq(OperationStates) /\ Len(states) \in 1 .. 7 /\ states[1] = "draft"
    /\ \A i \in 1 .. Len(states) - 1 :
          \/ <<states[i], states[i + 1]>> \in ValidOperationTransitions
          \/ i = Len(states) - 1 /\ states[i] = "validating" /\ states[i + 1] = "cancelled"

EndsIn(states, length, state) == Len(states) = length /\ states[length] = state

Ends(states) == states[Len(states)] \in {"review", "failed", "cancelled"}

\* Where the runner awaits, its lifecycle is at one place.
LifecycleFollows(await, states) ==
    /\ Walks(states)
    /\ await = "idle"      => EndsIn(states, 1, "draft")
    /\ await = "compiling" => EndsIn(states, 2, "compiling")
    /\ await = "checking"  => EndsIn(states, 3, "preflight")
    /\ Trying(await)       => EndsIn(states, 5, "streaming")
    /\ await = "proposing" => EndsIn(states, 6, "validating")
    /\ Over(await)         => Len(states) > 1 /\ Ends(states)

\* Only a run that ends in review has an artifact, and only after its packet.
ArtifactFollows(o) ==
    /\ o.await # "idle" => o.base \in Commits
    /\ o.await \notin {"idle", "compiling"} /\ ~Over(o.await) => o.packet
    /\ o.artifact # "none" => Over(o.await)
    /\ Over(o.await) => (o.states[Len(o.states)] = "review" <=> o.artifact # "none")
    /\ o.artifact # "none" => o.packet

\* An attempt that another one follows.
Repeated(a) ==
    /\ a.outcome = "failed" /\ a.failureCode /\ a.retriable = "yes"
    /\ a.retryDelay /\ ~a.responseStarted

\* Attempts are numbered, all but the last are repeated, and while one is being
\* made all are.
AttemptsFollow(await, attempts) ==
    /\ attempts \in Seq(Attempt) /\ Len(attempts) <= MaxAttempts
    /\ \A i \in 1 .. Len(attempts) :
          /\ attempts[i].sequence = i
          /\ IF i < Len(attempts) THEN Repeated(attempts[i]) ELSE ValidOutcome(attempts[i], TRUE)
    /\ Trying(await) =>
          /\ Len(attempts) < MaxAttempts
          /\ \A i \in 1 .. Len(attempts) : Repeated(attempts[i])
    /\ await \in {"idle", "compiling", "checking"} => attempts = << >>

PageFollows(o) ==
    /\ o \in Operation
    /\ LifecycleFollows(o.await, o.states) /\ ArtifactFollows(o)
    /\ AttemptsFollow(o.await, o.attempts)

PageInvariant == PageFollows(op)

-----------------------------------------------------------------------------
(* The inductive invariant: the page, the host and the store *)

\* The host has done nothing for a request but authorize it.
Untouched(r) ==
    /\ \A t \in Threads : Busy(t) => RequestOf(t) # r
    /\ r \notin told /\ r \notin sentOut

\* The host is never ahead of the page.
HostFollows ==
    \A r \in Requests : r > Current \/ (r = Current /\ op.await # "waiting") => Untouched(r)

\* A thread that has taken an authorization has it for a page that waits and
\* cannot give up: nothing was answered yet, and no event has come.
TakenForPage ==
    \A t \in Threads : OnItsWay(t) =>
        /\ op.await = "waiting" /\ RequestOf(t) = Current
        /\ op.answer = "none" /\ op.queue = << >>

\* Before the request is executed nothing has come back; and what came back ends it.
AnswerEndsRequest ==
    /\ op.await \in {"authorizing", "authorized", "withdrawing", "executing"} =>
          op.answer = "none" /\ op.queue = << >> /\ ~op.started
    /\ op.await = "waiting" /\ op.answer # "none" =>
          \A t \in Threads : Busy(t) => RequestOf(t) # Current

\* An authorization that the page does not need any more is being withdrawn.
WaitsOrWithdrawn ==
    \A p \in pending :
        \/ op.await \in {"authorized", "executing"} /\ p.request = Current
        \/ p.request \in asked \cup cancel

Streams(t) == call[t].stage = "streaming" /\ call[t].control = "active"

\* A stream that nobody listens to is being stopped.
RunsOrStopped ==
    \A t \in Threads : Streams(t) =>
        (op.await = "waiting" /\ RequestOf(t) = Current) \/ RequestOf(t) \in asked

\* What the page says has started, the host has told it.
StartedWasTold ==
    /\ op.await = "waiting" /\ (op.started \/ op.queue # << >>) => Current \in told
    /\ \A i \in 1 .. Len(op.attempts) : op.attempts[i].responseStarted => i \in told

\* The run is recorded once, with the attempts the page made.
RecordedAtEnd ==
    run[ThisRun].state # "absent" => op.await = "done" /\ run[ThisRun].attempts = op.attempts

HostInvariant ==
    /\ asked \subseteq Requests /\ told \subseteq Requests /\ sentOut \subseteq Requests
    /\ HostFollows /\ TakenForPage /\ AnswerEndsRequest
    /\ WaitsOrWithdrawn /\ RunsOrStopped /\ StartedWasTold

RunnerInvariant ==
    /\ AuditInvariant /\ GatewayInvariant /\ PageInvariant /\ HostInvariant /\ RecordedAtEnd

-----------------------------------------------------------------------------
(* The values of the page *)

SameRun(n, o) == n.base = o.base /\ n.packet = o.packet /\ n.artifact = o.artifact

SameStream(n, o) == n.queue = o.queue /\ n.started = o.started /\ n.answer = o.answer

LEMMA Walking ==
    ASSUME NEW s, Walks(s), Len(s) < 7, NEW x \in OperationStates,
           s[Len(s)] # "cancelled",
           \/ <<s[Len(s)], x>> \in ValidOperationTransitions
           \/ s[Len(s)] = "validating" /\ x = "cancelled"
    PROVE  Walks(s \o <<x>>) /\ EndsIn(s \o <<x>>, Len(s) + 1, x)
<1> DEFINE n == s \o <<x>>
<1>1. /\ n \in Seq(OperationStates) /\ Len(n) = Len(s) + 1 /\ n[Len(s) + 1] = x
      /\ \A i \in 1 .. Len(s) : n[i] = s[i]
      /\ s \in Seq(OperationStates) /\ Len(s) \in 1 .. 6 /\ s[1] = "draft"
  <2>1. s \in Seq(OperationStates) /\ Len(s) \in 1 .. 6 /\ s[1] = "draft"
    <3> DEFINE k == Len(s)
    <3>1. s \in Seq(OperationStates) /\ k \in 1 .. 7 /\ k < 7 /\ s[1] = "draft"
      BY Zenon DEF Walks
    <3> HIDE DEF k
    <3>2. k \in 1 .. 6
      BY <3>1
    <3> QED  BY <3>1, <3>2 DEF k
  <2>2. n \in Seq(OperationStates) /\ Len(n) = Len(s) + 1 /\ n[Len(s) + 1] = x
    BY <2>1
  <2> QED  BY <2>1, <2>2
<1> HIDE DEF n
<1>2. ASSUME NEW i \in 1 .. Len(n) - 1
      PROVE  \/ <<n[i], n[i + 1]>> \in ValidOperationTransitions
             \/ i = Len(n) - 1 /\ n[i] = "validating" /\ n[i + 1] = "cancelled"
  <2>1. CASE i = Len(s)
    <3>1. n[i] = s[Len(s)] /\ n[i + 1] = x /\ i = Len(n) - 1
      BY <1>1, <2>1
    <3> QED  BY <3>1
  <2>2. CASE i # Len(s)
    <3>1. /\ i \in 1 .. Len(s) - 1 /\ i \in 1 .. Len(s) /\ i + 1 \in 1 .. Len(s)
          /\ i = Len(s) - 1 => i + 1 = Len(s)
      BY <1>1, <2>2
    <3>2. n[i] = s[i] /\ n[i + 1] = s[i + 1] /\ (i = Len(s) - 1 => s[i + 1] # "cancelled")
      BY <1>1, <3>1
    <3> QED  BY <3>1, <3>2 DEF Walks
  <2> QED  BY <2>1, <2>2
<1>3. n[1] = "draft" /\ Len(n) \in 1 .. 7
  BY <1>1
<1> QED  BY <1>1, <1>2, <1>3 DEF Walks, EndsIn, n

\* The fields of an operation that moved on.
LEMMA MovedFields ==
    ASSUME NEW o \in Operation, NEW states \in Seq(OperationStates)
    PROVE  LET n == Moved(o, states) IN
           /\ n \in Operation
           /\ n.states = o.states \o states /\ n.await = o.await /\ SameRun(n, o)
           /\ n.attempts = o.attempts /\ n.aborted = o.aborted /\ SameStream(n, o)
<1>1. o.states \o states \in Seq(OperationStates)
  BY DEF Operation
<1> DEFINE new == o.states \o states
<1> HIDE DEF new
<1>2. Moved(o, states) = [o EXCEPT !.states = new]
  BY DEF Moved, new
<1>3. new \in Seq(OperationStates)
  BY <1>1 DEF new
<1>4. LET n == [o EXCEPT !.states = new] IN
      /\ n \in Operation
      /\ n.states = new /\ n.await = o.await /\ SameRun(n, o)
      /\ n.attempts = o.attempts /\ n.aborted = o.aborted /\ SameStream(n, o)
  BY <1>3 DEF Operation, SameRun, SameStream
<1> QED  BY <1>2, <1>4 DEF new

LEMMA AwaitFields ==
    ASSUME NEW o \in Operation, NEW await \in Awaits
    PROVE  LET n == [o EXCEPT !.await = await] IN
           /\ n \in Operation
           /\ n.states = o.states /\ n.await = await /\ SameRun(n, o)
           /\ n.attempts = o.attempts /\ n.aborted = o.aborted /\ SameStream(n, o)
BY DEF Operation, SameRun, SameStream

LEMMA NotedFields ==
    ASSUME NEW o \in Operation, NEW a \in Attempt
    PROVE  LET n == [o EXCEPT !.attempts = Append(o.attempts, a)] IN
           /\ n \in Operation
           /\ n.states = o.states /\ n.await = o.await /\ SameRun(n, o)
           /\ n.attempts = Append(o.attempts, a) /\ n.aborted = o.aborted /\ SameStream(n, o)
<1> DEFINE new == Append(o.attempts, a)
<1>1. new \in Seq(Attempt)
  BY DEF Operation
<1> HIDE DEF new
<1>2. LET n == [o EXCEPT !.attempts = new] IN
      /\ n \in Operation
      /\ n.states = o.states /\ n.await = o.await /\ SameRun(n, o)
      /\ n.attempts = new /\ n.aborted = o.aborted /\ SameStream(n, o)
  BY <1>1 DEF Operation, SameRun, SameStream
<1> QED  BY <1>2 DEF new

LEMMA BoundedFields ==
    ASSUME NEW o \in Operation, NEW bounded \in BOOLEAN
    PROVE  LET n == [o EXCEPT !.bounded = bounded] IN
           /\ n \in Operation
           /\ n.states = o.states /\ n.await = o.await /\ SameRun(n, o)
           /\ n.attempts = o.attempts
BY DEF Operation, SameRun

LEMMA ReviewFields ==
    ASSUME NEW o \in Operation, NEW artifact \in {"patch_proposal", "findings"},
           NEW bounded \in BOOLEAN
    PROVE  LET n == InReview(o, artifact, bounded) IN
           /\ n \in Operation /\ n.await = "persisting" /\ n.artifact = artifact
           /\ n.states = o.states \o <<"review">>
           /\ n.base = o.base /\ n.packet = o.packet /\ n.attempts = o.attempts
<1> DEFINE m == Moved(o, <<"review">>)
           n == [m EXCEPT !.await = "persisting", !.artifact = artifact, !.bounded = bounded]
<1>1. <<"review">> \in Seq(OperationStates) /\ "persisting" \in Awaits
  BY DEF OperationStates, Awaits
<1>2. /\ m \in Operation /\ m.states = o.states \o <<"review">> /\ SameRun(m, o)
      /\ m.attempts = o.attempts
  BY <1>1, MovedFields
<1>3. InReview(o, artifact, bounded) = n
  BY DEF InReview
<1> HIDE DEF m
<1>4. /\ n \in Operation /\ n.await = "persisting" /\ n.artifact = artifact
      /\ n.states = m.states /\ n.base = m.base /\ n.packet = m.packet
      /\ n.attempts = m.attempts
  BY <1>1, <1>2 DEF Operation
<1> HIDE DEF n
<1> QED  BY <1>2, <1>3, <1>4 DEF SameRun

LEMMA EndedFields ==
    ASSUME NEW o \in Operation, NEW cancelled
    PROVE  LET n == Ended(o, cancelled) IN
           /\ n \in Operation /\ n.await = "persisting" /\ SameRun(n, o)
           /\ n.attempts = o.attempts
           /\ n.states = o.states \o <<IF o.aborted \/ cancelled THEN "cancelled" ELSE "failed">>
<1> DEFINE x == IF o.aborted \/ cancelled THEN "cancelled" ELSE "failed"
<1>1. x \in OperationStates /\ <<x>> \in Seq(OperationStates)
  BY DEF OperationStates
<1>2. (IF o.aborted \/ cancelled THEN <<"cancelled">> ELSE <<"failed">>) = <<x>>
  OBVIOUS
<1> HIDE DEF x
<1> DEFINE m == Moved(o, <<x>>)
<1>3. Ended(o, cancelled) = [m EXCEPT !.await = "persisting"]
  BY <1>2 DEF Ended
<1>4. m \in Operation /\ m.states = o.states \o <<x>> /\ SameRun(m, o) /\ m.attempts = o.attempts
  BY <1>1, MovedFields
<1>5. "persisting" \in Awaits
  BY DEF Awaits
<1> HIDE DEF m
<1> DEFINE n == [m EXCEPT !.await = "persisting"]
<1>6. /\ n \in Operation /\ n.await = "persisting" /\ SameRun(n, m)
      /\ n.attempts = m.attempts /\ n.states = m.states
  BY <1>4, <1>5, AwaitFields
<1> HIDE DEF n
<1>7. Ended(o, cancelled) = n
  BY <1>3 DEF n
<1> QED  BY <1>4, <1>6, <1>7 DEF SameRun, x

LEMMA AttemptingFields ==
    ASSUME NEW o \in Operation
    PROVE  LET n == Attempting(o) IN
           /\ n \in Operation /\ n.await = "authorizing" /\ SameRun(n, o)
           /\ n.states = o.states /\ n.attempts = o.attempts
           /\ n.queue = << >> /\ ~n.started /\ n.answer = "none"
<1>1. << >> \in Seq({"start", "more"}) /\ "authorizing" \in Awaits
  BY DEF Awaits
<1> DEFINE n1 == [o EXCEPT !.await = "authorizing"]
           n2 == [n1 EXCEPT !.queue = << >>]
           n3 == [n2 EXCEPT !.started = FALSE]
           n4 == [n3 EXCEPT !.answer = "none"]
<1>2. Attempting(o) = n4
  BY DEF Attempting, Operation
<1>3. n1 \in Operation /\ n1.await = "authorizing" /\ SameRun(n1, o)
      /\ n1.states = o.states /\ n1.attempts = o.attempts
  BY <1>1, AwaitFields
<1> HIDE DEF n1
<1>4. n2 \in Operation /\ n2.await = n1.await /\ SameRun(n2, n1) /\ n2.queue = << >>
      /\ n2.states = n1.states /\ n2.attempts = n1.attempts
  BY <1>1, <1>3 DEF Operation, SameRun
<1> HIDE DEF n2
<1>5. n3 \in Operation /\ n3.await = n2.await /\ SameRun(n3, n2) /\ n3.queue = n2.queue
      /\ n3.states = n2.states /\ n3.attempts = n2.attempts /\ ~n3.started
  BY <1>4 DEF Operation, SameRun
<1> HIDE DEF n3
<1>6. n4 \in Operation /\ n4.await = n3.await /\ SameRun(n4, n3) /\ n4.queue = n3.queue
      /\ n4.states = n3.states /\ n4.attempts = n3.attempts /\ n4.started = n3.started
      /\ n4.answer = "none"
  BY <1>5 DEF Operation, SameRun
<1> QED  BY <1>2, <1>3, <1>4, <1>5, <1>6 DEF SameRun

-----------------------------------------------------------------------------
(* What the steps of the page change of the operation *)

\* The state alone, and what belongs to a stream.
KeptEffect(n, o) ==
    n \in Operation /\ n.states = o.states /\ n.attempts = o.attempts /\ SameRun(n, o)

\* An attempt that failed, repeated or not.
FailsEffect(n, o) ==
    \E a \in Attempt :
        /\ n \in Operation /\ SameRun(n, o)
        /\ n.attempts = Append(o.attempts, a) /\ a.sequence = Len(o.attempts) + 1
        /\ a.responseStarted => o.started
        /\ \/ /\ n.await = "sleeping" /\ n.states = o.states
              /\ Repeated(a) /\ Len(o.attempts) + 1 < MaxAttempts
           \/ /\ n.await = "persisting" /\ ValidOutcome(a, TRUE)
              /\ \E x \in {"failed", "cancelled"} : n.states = o.states \o <<x>>

\* An attempt that succeeded.
CollectedEffect(n, o) ==
    \E a \in Attempt :
        /\ n \in Operation /\ n.base = o.base /\ n.packet = o.packet
        /\ n.attempts = Append(o.attempts, a) /\ a.sequence = Len(o.attempts) + 1
        /\ ValidOutcome(a, TRUE)
        /\ \/ /\ n.await = "persisting" /\ n.artifact = o.artifact
              /\ n.states = o.states \o <<"cancelled">>
           \/ /\ n.await = "persisting" /\ n.artifact = o.artifact
              /\ n.states = (o.states \o <<"validating">>) \o <<"failed">>
           \/ /\ n.await = "persisting" /\ n.artifact = "findings"
              /\ n.states = (o.states \o <<"validating">>) \o <<"review">>
           \/ /\ n.await = "proposing" /\ n.artifact = o.artifact
              /\ n.states = o.states \o <<"validating">>

LEMMA FailsChanges ==
    ASSUME op \in Operation, NEW retriable \in BOOLEAN, NEW cancelled,
           Len(op.attempts) < MaxAttempts, AttemptFails(retriable, cancelled)
    PROVE  FailsEffect(op', op)
<1>1. PICK retry \in (IF MayRetry(retriable) THEN BOOLEAN ELSE {FALSE}),
           bounded \in FromProvider, message \in FromProvider :
         LET failed == FailedAttempt(retriable, retry, bounded)
             noted == [op EXCEPT !.attempts = Append(@, failed)]
         IN  op' = IF retry THEN [noted EXCEPT !.await = "sleeping"]
                   ELSE [Ended(noted, cancelled) EXCEPT
                            !.bounded = message \/ op.aborted \/ cancelled]
  BY DEF AttemptFails
<1> DEFINE a == FailedAttempt(retriable, retry, bounded)
           noted == [op EXCEPT !.attempts = Append(op.attempts, a)]
           fits == message \/ op.aborted \/ cancelled
<1>2. /\ retry \in BOOLEAN /\ (retry => MayRetry(retriable))
      /\ bounded \in BOOLEAN /\ fits \in BOOLEAN
  <2>1. retry \in BOOLEAN /\ (retry => MayRetry(retriable))
    BY <1>1, Zenon
  <2>2. bounded \in BOOLEAN
    BY DEF FromProvider
  <2> QED  BY <2>1, <2>2
<1>3. /\ op.attempts \in Seq(Attempt) /\ op.started \in BOOLEAN
      /\ Len(op.attempts) \in Nat /\ Current = Len(op.attempts) + 1
  BY DEF Operation, Current
<1>4. retry => retriable /\ ~op.started /\ Current < MaxAttempts
  BY <1>2 DEF MayRetry
<1>5. /\ a.sequence = Current /\ a.outcome = "failed" /\ a.responseStarted = op.started
      /\ a.failureCode /\ a.retriable = (IF retriable THEN "yes" ELSE "no")
      /\ a.retryDelay = retry
  BY DEF FailedAttempt
<1>6. a \in Attempt
  <2>1. (IF retriable THEN "yes" ELSE "no") \in {"null", "yes", "no"}
    OBVIOUS
  <2> QED  BY <1>2, <1>3, <2>1 DEF Attempt, FailedAttempt
<1>7. (retry => Repeated(a)) /\ (~retry => ValidOutcome(a, TRUE))
  BY <1>4, <1>5 DEF Repeated, ValidOutcome
<1> HIDE DEF a
<1>8. /\ noted \in Operation /\ noted.states = op.states /\ SameRun(noted, op)
      /\ noted.attempts = Append(op.attempts, a)
  BY <1>6, NotedFields
<1>9. op' = IF retry THEN [noted EXCEPT !.await = "sleeping"]
            ELSE [Ended(noted, cancelled) EXCEPT !.bounded = fits]
  BY <1>1 DEF a
<1> HIDE DEF noted, fits
<1>10. CASE retry
  <2>1. "sleeping" \in Awaits
    BY DEF Awaits
  <2>2. /\ op' \in Operation /\ op'.await = "sleeping" /\ SameRun(op', noted)
        /\ op'.attempts = noted.attempts /\ op'.states = noted.states
    BY <1>8, <1>9, <1>10, <2>1, AwaitFields
  <2> QED
    BY <1>3, <1>4, <1>5, <1>6, <1>7, <1>8, <1>10, <2>2 DEF FailsEffect, SameRun
<1>11. CASE ~retry
  <2> DEFINE ended == Ended(noted, cancelled)
  <2>2. /\ ended \in Operation /\ ended.await = "persisting" /\ SameRun(ended, noted)
        /\ ended.attempts = noted.attempts
        /\ \E x \in {"failed", "cancelled"} : ended.states = noted.states \o <<x>>
    BY <1>8, EndedFields
  <2>3. op' = [ended EXCEPT !.bounded = fits]
    BY <1>9, <1>11
  <2> HIDE DEF ended
  <2>4. /\ op' \in Operation /\ op'.await = ended.await /\ SameRun(op', ended)
        /\ op'.attempts = ended.attempts /\ op'.states = ended.states
    BY <1>2, <2>2, <2>3, BoundedFields
  <2>1. /\ op' \in Operation /\ op'.await = "persisting" /\ SameRun(op', noted)
        /\ op'.attempts = noted.attempts
        /\ \E x \in {"failed", "cancelled"} : op'.states = noted.states \o <<x>>
    BY <2>2, <2>4 DEF SameRun
  <2> QED
    BY <1>3, <1>5, <1>6, <1>7, <1>8, <1>11, <2>1 DEF FailsEffect, SameRun
<1> QED  BY <1>2, <1>10, <1>11

LEMMA CollectedChanges ==
    ASSUME op \in Operation, Collected
    PROVE  CollectedEffect(op', op)
<1>0. PICK bounded \in FromProvider, usage \in FromProvider :
        LET noted == [op EXCEPT !.attempts = Append(@,
                         [ sequence |-> Current, outcome |-> "succeeded", responseStarted |-> TRUE,
                           failureCode |-> FALSE, retriable |-> "null", retryDelay |-> FALSE,
                           bounded |-> bounded ])]
            validating == Moved(noted, <<"validating">>)
        IN  IF op.aborted THEN op' = Ended(noted, TRUE)
            ELSE op' \in { Ended(validating, FALSE),
                           InReview(validating, "findings", usage),
                           [validating EXCEPT !.await = "proposing"] }
  BY DEF Collected
<1> DEFINE a == [ sequence |-> Current, outcome |-> "succeeded", responseStarted |-> TRUE,
                  failureCode |-> FALSE, retriable |-> "null", retryDelay |-> FALSE,
                  bounded |-> bounded ]
           noted == [op EXCEPT !.attempts = Append(op.attempts, a)]
           validating == Moved(noted, <<"validating">>)
           findings == InReview(validating, "findings", usage)
           proposing == [validating EXCEPT !.await = "proposing"]
<1>1. /\ op.attempts \in Seq(Attempt) /\ Len(op.attempts) \in Nat
      /\ Current = Len(op.attempts) + 1
  BY DEF Operation, Current
<1>14. bounded \in BOOLEAN /\ usage \in BOOLEAN
  BY DEF FromProvider
<1>2. a \in Attempt /\ a.sequence = Len(op.attempts) + 1 /\ ValidOutcome(a, TRUE)
  BY <1>1, <1>14 DEF Attempt, ValidOutcome
<1>3. \/ op.aborted /\ op' = Ended(noted, TRUE)
      \/ ~op.aborted /\ op' \in {Ended(validating, FALSE), findings, proposing}
  BY <1>0
<1> HIDE DEF a
<1>4. /\ noted \in Operation /\ noted.states = op.states /\ SameRun(noted, op)
      /\ noted.attempts = Append(op.attempts, a) /\ noted.aborted = op.aborted
  BY <1>2, NotedFields
<1> HIDE DEF noted
<1>5. <<"validating">> \in Seq(OperationStates) /\ "proposing" \in Awaits
  BY DEF OperationStates, Awaits
<1>6. /\ validating \in Operation /\ validating.states = noted.states \o <<"validating">>
      /\ SameRun(validating, noted) /\ validating.attempts = noted.attempts
      /\ validating.aborted = noted.aborted
  BY <1>4, <1>5, MovedFields
<1> HIDE DEF validating
<1>8. /\ findings \in Operation /\ findings.await = "persisting"
      /\ findings.artifact = "findings" /\ findings.states = validating.states \o <<"review">>
      /\ findings.base = validating.base /\ findings.packet = validating.packet
      /\ findings.attempts = validating.attempts
  <2>1. "findings" \in {"patch_proposal", "findings"}
    OBVIOUS
  <2>2. validating \in Operation /\ usage \in BOOLEAN
    BY <1>6, <1>14
  <2> QED  BY <2>1, <2>2, ReviewFields, ZenonT(40)
<1>9. /\ proposing \in Operation /\ proposing.await = "proposing"
      /\ proposing.states = validating.states /\ SameRun(proposing, validating)
      /\ proposing.attempts = validating.attempts
  BY <1>5, <1>6, AwaitFields
<1> HIDE DEF findings, proposing
<1>10. CASE op' = Ended(noted, TRUE)
  <2>1. /\ op' \in Operation /\ op'.await = "persisting" /\ SameRun(op', noted)
        /\ op'.attempts = noted.attempts /\ op'.states = noted.states \o <<"cancelled">>
    BY <1>4, <1>10, EndedFields
  <2> QED  BY <1>2, <1>4, <2>1 DEF CollectedEffect, SameRun
<1>11. CASE ~op.aborted /\ op' = Ended(validating, FALSE)
  <2>1. /\ op' \in Operation /\ op'.await = "persisting" /\ SameRun(op', validating)
        /\ op'.attempts = validating.attempts /\ op'.states = validating.states \o <<"failed">>
    <3>1. ~(validating.aborted \/ FALSE)
      BY <1>4, <1>6, <1>11
    <3> QED  BY <1>6, <1>11, <3>1, EndedFields, Zenon
  <2>2. /\ op'.base = op.base /\ op'.packet = op.packet /\ op'.artifact = op.artifact
        /\ op'.attempts = Append(op.attempts, a)
        /\ op'.states = (op.states \o <<"validating">>) \o <<"failed">>
    BY <1>4, <1>6, <2>1 DEF SameRun
  <2> QED  BY <1>2, <2>1, <2>2 DEF CollectedEffect
<1>12. CASE op' = findings
  BY <1>2, <1>4, <1>6, <1>8, <1>12 DEF CollectedEffect, SameRun
<1>13. CASE op' = proposing
  BY <1>2, <1>4, <1>6, <1>9, <1>13 DEF CollectedEffect, SameRun
<1> QED  BY <1>3, <1>10, <1>11, <1>12, <1>13

StartEffect(n, o) ==
    /\ n \in Operation /\ n.await = "compiling" /\ n.states = o.states \o <<"compiling">>
    /\ n.base \in Commits /\ n.artifact = o.artifact /\ n.attempts = o.attempts

CompiledEffect(n, o) ==
    /\ n \in Operation /\ n.base = o.base /\ n.artifact = o.artifact /\ n.attempts = o.attempts
    /\ \/ /\ n.await = "checking" /\ n.packet /\ n.states = o.states \o <<"preflight">>
       \/ /\ n.await = "persisting"
          /\ \E x \in {"failed", "cancelled"} :
                n.states \in {o.states \o <<x>>, (o.states \o <<"preflight">>) \o <<x>>}

\* A page that goes on to an attempt has forgotten the stream before it.
Fresh(n) == n.await = "authorizing" /\ n.queue = << >> /\ ~n.started /\ n.answer = "none"

CheckedEffect(n, o) ==
    /\ n \in Operation /\ SameRun(n, o) /\ n.attempts = o.attempts
    /\ \/ Fresh(n) /\ n.states = (o.states \o <<"queued">>) \o <<"streaming">>
       \/ /\ n.await = "persisting"
          /\ \E x \in {"failed", "cancelled"} :
                n.states \in {o.states \o <<x>>, (o.states \o <<"queued">>) \o <<x>>}

AwakeEffect(n, o) ==
    /\ n \in Operation /\ SameRun(n, o) /\ n.attempts = o.attempts
    /\ \/ Fresh(n) /\ n.states = o.states
       \/ n.await = "persisting" /\ n.states = o.states \o <<"cancelled">>

ProposedEffect(n, o) ==
    /\ n \in Operation /\ n.base = o.base /\ n.packet = o.packet /\ n.attempts = o.attempts
    /\ n.await = "persisting"
    /\ \/ /\ n.artifact = o.artifact
          /\ \E x \in {"failed", "cancelled"} : n.states = o.states \o <<x>>
       \/ n.artifact = "patch_proposal" /\ n.states = o.states \o <<"review">>

LEMMA StartChanges ==
    ASSUME op \in Operation, MgTypeOK, Start
    PROVE  StartEffect(op', op)
<1> DEFINE m == Moved(op, <<"compiling">>)
<1>1. /\ <<"compiling">> \in Seq(OperationStates) /\ "compiling" \in Awaits
      /\ session.head \in Commits
  BY RunnerConstants DEF OperationStates, Awaits, MgTypeOK
<1>2. /\ m \in Operation /\ m.states = op.states \o <<"compiling">>
      /\ SameRun(m, op) /\ m.attempts = op.attempts
  BY <1>1, MovedFields
<1>3. op' = [m EXCEPT !.await = "compiling", !.base = session.head]
  BY DEF Start
<1> HIDE DEF m
<1>4. /\ op' \in Operation /\ op'.await = "compiling" /\ op'.base = session.head
      /\ op'.states = m.states /\ op'.artifact = m.artifact /\ op'.attempts = m.attempts
  BY <1>1, <1>2, <1>3 DEF Operation
<1> QED  BY <1>1, <1>2, <1>4 DEF StartEffect, SameRun

LEMMA CompiledChanges ==
    ASSUME op \in Operation, Compiled
    PROVE  CompiledEffect(op', op)
<1> DEFINE packed == [op EXCEPT !.packet = TRUE]
           m == Moved(packed, <<"preflight">>)
           ready == [m EXCEPT !.await = "checking"]
<1>1. op' \in {Ended(op, FALSE), Ended(packed, TRUE), ready, Ended(m, FALSE)}
  BY DEF Compiled
<1>2. <<"preflight">> \in Seq(OperationStates) /\ "checking" \in Awaits
  BY DEF OperationStates, Awaits
<1>3. /\ packed \in Operation /\ packed.packet /\ packed.states = op.states
      /\ packed.base = op.base /\ packed.artifact = op.artifact
      /\ packed.attempts = op.attempts
  BY DEF Operation
<1> HIDE DEF packed
<1>4. /\ m \in Operation /\ m.states = packed.states \o <<"preflight">>
      /\ SameRun(m, packed) /\ m.attempts = packed.attempts
  BY <1>2, <1>3, MovedFields
<1> HIDE DEF m
<1>5. /\ ready \in Operation /\ ready.await = "checking" /\ ready.states = m.states
      /\ SameRun(ready, m) /\ ready.attempts = m.attempts
  BY <1>2, <1>4, AwaitFields
<1> HIDE DEF ready
<1>6. CASE op' = Ended(op, FALSE)
  <2>1. /\ op' \in Operation /\ op'.await = "persisting" /\ SameRun(op', op)
        /\ op'.attempts = op.attempts
        /\ \E x \in {"failed", "cancelled"} : op'.states = op.states \o <<x>>
    BY <1>6, EndedFields
  <2> QED  BY <2>1 DEF CompiledEffect, SameRun
<1>7. CASE op' = Ended(packed, TRUE)
  <2>1. /\ op' \in Operation /\ op'.await = "persisting" /\ SameRun(op', packed)
        /\ op'.attempts = packed.attempts
        /\ \E x \in {"failed", "cancelled"} : op'.states = packed.states \o <<x>>
    BY <1>3, <1>7, EndedFields
  <2> QED  BY <1>3, <2>1 DEF CompiledEffect, SameRun
<1>8. CASE op' = ready
  BY <1>3, <1>4, <1>5, <1>8 DEF CompiledEffect, SameRun
<1>9. CASE op' = Ended(m, FALSE)
  <2>1. /\ op' \in Operation /\ op'.await = "persisting" /\ SameRun(op', m)
        /\ op'.attempts = m.attempts
        /\ \E x \in {"failed", "cancelled"} : op'.states = m.states \o <<x>>
    BY <1>4, <1>9, EndedFields
  <2> QED  BY <1>3, <1>4, <2>1 DEF CompiledEffect, SameRun
<1> QED  BY <1>1, <1>6, <1>7, <1>8, <1>9

LEMMA CheckedChanges ==
    ASSUME op \in Operation, Checked
    PROVE  CheckedEffect(op', op)
<1> DEFINE queued == Moved(op, <<"queued">>)
           m == Moved(queued, <<"streaming">>)
<1>1. op' \in {Ended(op, FALSE), Ended(queued, TRUE), Attempting(m)}
  BY DEF Checked
<1>2. <<"queued">> \in Seq(OperationStates) /\ <<"streaming">> \in Seq(OperationStates)
  BY DEF OperationStates
<1>3. /\ queued \in Operation /\ queued.states = op.states \o <<"queued">>
      /\ SameRun(queued, op) /\ queued.attempts = op.attempts
  BY <1>2, MovedFields
<1> HIDE DEF queued
<1>4. /\ m \in Operation /\ m.states = queued.states \o <<"streaming">>
      /\ SameRun(m, queued) /\ m.attempts = queued.attempts
  BY <1>2, <1>3, MovedFields
<1> HIDE DEF m
<1>5. CASE op' = Ended(op, FALSE)
  <2>1. /\ op' \in Operation /\ op'.await = "persisting" /\ SameRun(op', op)
        /\ op'.attempts = op.attempts
        /\ \E x \in {"failed", "cancelled"} : op'.states = op.states \o <<x>>
    BY <1>5, EndedFields
  <2> QED  BY <2>1 DEF CheckedEffect
<1>6. CASE op' = Ended(queued, TRUE)
  <2>1. /\ op' \in Operation /\ op'.await = "persisting" /\ SameRun(op', queued)
        /\ op'.attempts = queued.attempts
        /\ \E x \in {"failed", "cancelled"} : op'.states = queued.states \o <<x>>
    BY <1>3, <1>6, EndedFields
  <2> QED  BY <1>3, <2>1 DEF CheckedEffect, SameRun
<1>7. CASE op' = Attempting(m)
  <2>1. /\ op' \in Operation /\ Fresh(op') /\ SameRun(op', m)
        /\ op'.states = m.states /\ op'.attempts = m.attempts
    BY <1>4, <1>7, AttemptingFields DEF Fresh
  <2> QED  BY <1>3, <1>4, <2>1 DEF CheckedEffect, SameRun
<1> QED  BY <1>1, <1>5, <1>6, <1>7

LEMMA AwakeChanges ==
    ASSUME op \in Operation, Awake
    PROVE  AwakeEffect(op', op)
<1>1. op' \in {Ended(op, TRUE), Attempting(op)}
  BY DEF Awake
<1>2. /\ Ended(op, TRUE) \in Operation /\ Ended(op, TRUE).await = "persisting"
      /\ SameRun(Ended(op, TRUE), op) /\ Ended(op, TRUE).attempts = op.attempts
      /\ Ended(op, TRUE).states = op.states \o <<"cancelled">>
  BY EndedFields
<1>3. /\ Attempting(op) \in Operation /\ Fresh(Attempting(op)) /\ SameRun(Attempting(op), op)
      /\ Attempting(op).states = op.states /\ Attempting(op).attempts = op.attempts
  BY AttemptingFields DEF Fresh
<1> QED  BY <1>1, <1>2, <1>3 DEF AwakeEffect

LEMMA ProposedChanges ==
    ASSUME op \in Operation, Proposed
    PROVE  ProposedEffect(op', op)
<1>1. PICK usage \in BOOLEAN :
         op' \in {Ended(op, FALSE), InReview(op, "patch_proposal", usage)}
  BY DEF Proposed
<1> DEFINE reviewed == InReview(op, "patch_proposal", usage)
<1>4. /\ reviewed \in Operation /\ reviewed.await = "persisting"
      /\ reviewed.artifact = "patch_proposal" /\ reviewed.states = op.states \o <<"review">>
      /\ reviewed.base = op.base /\ reviewed.packet = op.packet /\ reviewed.attempts = op.attempts
  BY ReviewFields
<1> HIDE DEF reviewed
<1>5. /\ Ended(op, FALSE) \in Operation /\ Ended(op, FALSE).await = "persisting"
      /\ SameRun(Ended(op, FALSE), op) /\ Ended(op, FALSE).attempts = op.attempts
      /\ \E x \in {"failed", "cancelled"} : Ended(op, FALSE).states = op.states \o <<x>>
  BY EndedFields
<1> QED  BY <1>1, <1>4, <1>5 DEF ProposedEffect, SameRun, reviewed


-----------------------------------------------------------------------------
(* The page keeps its invariant *)

\* One more state, after a known one.
LEMMA NextState ==
    ASSUME NEW s, Walks(s), NEW k \in 1 .. 6, NEW y, EndsIn(s, k, y), y # "cancelled",
           NEW x \in OperationStates,
           \/ <<y, x>> \in ValidOperationTransitions
           \/ y = "validating" /\ x = "cancelled"
    PROVE  Walks(s \o <<x>>) /\ EndsIn(s \o <<x>>, k + 1, x)
<1>1. Len(s) = k /\ s[Len(s)] = y /\ Len(s) < 7
  BY DEF EndsIn
<1> QED  BY <1>1, Walking

LEMMA RepeatedIsValid ==
    ASSUME NEW a, Repeated(a)
    PROVE  ValidOutcome(a, TRUE) /\ ValidOutcome(a, FALSE)
BY DEF Repeated, ValidOutcome

\* One attempt more.
LEMMA AttemptAdded ==
    ASSUME NEW o, PageFollows(o), Trying(o.await), NEW a \in Attempt,
           a.sequence = Len(o.attempts) + 1
    PROVE  LET n == Append(o.attempts, a) IN
           /\ ValidOutcome(a, TRUE) =>
                \A await \in {"persisting", "proposing"} : AttemptsFollow(await, n)
           /\ Repeated(a) /\ Len(o.attempts) + 1 < MaxAttempts => AttemptsFollow("sleeping", n)
<1> DEFINE n == Append(o.attempts, a)
<1>1. /\ o.attempts \in Seq(Attempt) /\ Len(o.attempts) < MaxAttempts /\ Len(o.attempts) \in Nat
      /\ \A i \in 1 .. Len(o.attempts) : o.attempts[i].sequence = i /\ Repeated(o.attempts[i])
  <2>1. AttemptsFollow(o.await, o.attempts)
    BY DEF PageFollows
  <2>2. o.attempts \in Seq(Attempt)
    BY <2>1 DEF AttemptsFollow
  <2>3. Len(o.attempts) < MaxAttempts /\ \A i \in 1 .. Len(o.attempts) : Repeated(o.attempts[i])
    BY <2>1, Zenon DEF AttemptsFollow
  <2>4. \A i \in 1 .. Len(o.attempts) : o.attempts[i].sequence = i
    BY <2>1, Zenon DEF AttemptsFollow
  <2> QED  BY <2>2, <2>3, <2>4
<1>2. /\ n \in Seq(Attempt) /\ Len(n) = Len(o.attempts) + 1 /\ n[Len(n)] = a
      /\ \A i \in 1 .. Len(o.attempts) : n[i] = o.attempts[i]
  BY <1>1
<1> HIDE DEF n
<1>3. Len(n) <= MaxAttempts
  BY <1>1, <1>2, RunnerConstants
<1>4. ASSUME NEW i \in 1 .. Len(n)
      PROVE  n[i].sequence = i /\ (i < Len(n) => Repeated(n[i])) /\ (i = Len(n) => n[i] = a)
  <2>1. CASE i = Len(n)
    BY <1>1, <1>2, <2>1
  <2>2. CASE i # Len(n)
    <3>1. i \in 1 .. Len(o.attempts) /\ i < Len(n)
      BY <1>1, <1>2, <2>2
    <3> QED  BY <1>1, <1>2, <2>2, <3>1
  <2> QED  BY <2>1, <2>2
<1>5. ASSUME ValidOutcome(a, TRUE), NEW await \in {"persisting", "proposing"}
      PROVE  AttemptsFollow(await, n)
  <2>1. \A i \in 1 .. Len(n) : ~(i < Len(n)) => i = Len(n)
    BY <1>1, <1>2
  <2>2. ~Trying(await) /\ await \notin {"idle", "compiling", "checking"}
    BY DEF Trying
  <2> QED  BY <1>2, <1>3, <1>4, <1>5, <2>1, <2>2 DEF AttemptsFollow
<1>6. ASSUME Repeated(a), Len(o.attempts) + 1 < MaxAttempts
      PROVE  AttemptsFollow("sleeping", n)
  <2>1. \A i \in 1 .. Len(n) : Repeated(n[i]) /\ ValidOutcome(n[i], TRUE)
    <3>1. \A i \in 1 .. Len(n) : i < Len(n) \/ i = Len(n)
      BY <1>1, <1>2
    <3> QED  BY <1>4, <1>6, <3>1, RepeatedIsValid
  <2>2. Len(n) < MaxAttempts
    BY <1>2, <1>6
  <2> QED  BY <1>2, <1>3, <1>4, <2>1, <2>2 DEF AttemptsFollow
<1> QED  BY <1>5, <1>6 DEF n

\* The page goes on without a word in its lifecycle.
LEMMA PageKept ==
    ASSUME NEW o, PageFollows(o), NEW n, KeptEffect(n, o),
           \/ n.await = o.await
           \/ Trying(n.await) /\ Trying(o.await)
           \/ Over(n.await) /\ Over(o.await)
    PROVE  PageFollows(n)
<1>1. LifecycleFollows(n.await, n.states)
  BY DEF PageFollows, KeptEffect, LifecycleFollows, Trying, Over
<1>2. ArtifactFollows(n)
  BY DEF PageFollows, KeptEffect, SameRun, ArtifactFollows, Trying, Over
<1>3. AttemptsFollow(n.await, n.attempts)
  BY DEF PageFollows, KeptEffect, AttemptsFollow, Trying, Over
<1> QED  BY <1>1, <1>2, <1>3 DEF PageFollows, KeptEffect

\* The lifecycle of a run that ended.
LEMMA EndOfRun ==
    ASSUME NEW s, Walks(s), NEW k \in 2 .. 7, NEW x \in {"review", "failed", "cancelled"},
           EndsIn(s, k, x)
    PROVE  LifecycleFollows("persisting", s) /\ s[Len(s)] = x
BY DEF LifecycleFollows, Trying, Over, Ends, EndsIn

\* A run that ends failed or cancelled has no artifact.
LEMMA PageEnds ==
    ASSUME NEW o, PageFollows(o), o.await # "idle", ~Over(o.await),
           NEW n \in Operation, n.await = "persisting",
           n.base = o.base, n.artifact = o.artifact,
           LifecycleFollows("persisting", n.states), n.states[Len(n.states)] # "review",
           AttemptsFollow("persisting", n.attempts)
    PROVE  PageFollows(n)
<1>1. n.artifact = "none" /\ n.base \in Commits
  BY DEF PageFollows, ArtifactFollows, Operation
<1>2. ArtifactFollows(n)
  BY <1>1 DEF ArtifactFollows, Over
<1> QED  BY <1>2 DEF PageFollows

\* Attempts made so far are those of a run that ends now.
LEMMA AttemptsStand ==
    ASSUME NEW await, NEW attempts, AttemptsFollow(await, attempts)
    PROVE  AttemptsFollow("persisting", attempts)
BY DEF AttemptsFollow, Trying

LEMMA PageFails ==
    ASSUME NEW o, PageFollows(o), Trying(o.await), NEW n, FailsEffect(n, o)
    PROVE  PageFollows(n)
<1>1. PICK a \in Attempt :
        /\ n \in Operation /\ SameRun(n, o)
        /\ n.attempts = Append(o.attempts, a) /\ a.sequence = Len(o.attempts) + 1
        /\ \/ /\ n.await = "sleeping" /\ n.states = o.states
              /\ Repeated(a) /\ Len(o.attempts) + 1 < MaxAttempts
           \/ /\ n.await = "persisting" /\ ValidOutcome(a, TRUE)
              /\ \E x \in {"failed", "cancelled"} : n.states = o.states \o <<x>>
  BY DEF FailsEffect
<1>2. Walks(o.states) /\ EndsIn(o.states, 5, "streaming")
  BY DEF PageFollows, LifecycleFollows
<1>3. o.await # "idle" /\ ~Over(o.await) /\ o.await # "compiling"
  BY DEF Trying, Over
<1>4. CASE n.await = "sleeping"
  <2>1. AttemptsFollow(n.await, n.attempts)
    BY <1>1, <1>4, AttemptAdded
  <2>2. LifecycleFollows(n.await, n.states)
    BY <1>1, <1>2, <1>4 DEF LifecycleFollows, Trying, Over
  <2>3. ArtifactFollows(n)
    BY <1>1, <1>3, <1>4 DEF PageFollows, SameRun, ArtifactFollows, Over
  <2> QED  BY <1>1, <2>1, <2>2, <2>3 DEF PageFollows
<1>5. CASE n.await = "persisting"
  <2>1. AttemptsFollow(n.await, n.attempts)
    BY <1>1, <1>5, AttemptAdded
  <2>2. PICK x \in {"failed", "cancelled"} : n.states = o.states \o <<x>>
    BY <1>1, <1>5
  <2>3. Walks(n.states) /\ EndsIn(n.states, 6, x)
    BY <1>2, <2>2, NextState DEF OperationStates, ValidOperationTransitions
  <2>4. LifecycleFollows("persisting", n.states) /\ n.states[Len(n.states)] # "review"
    BY <2>3, EndOfRun
  <2>5. n.base = o.base /\ n.artifact = o.artifact
    BY <1>1 DEF SameRun
  <2> QED  BY <1>1, <1>3, <1>5, <2>1, <2>4, <2>5, PageEnds
<1> QED  BY <1>1, <1>4, <1>5

LEMMA PageCollects ==
    ASSUME NEW o, PageFollows(o), Trying(o.await), NEW n, CollectedEffect(n, o)
    PROVE  PageFollows(n)
<1> DEFINE validating == o.states \o <<"validating">>
<1>1. PICK a \in Attempt :
        /\ n \in Operation /\ n.base = o.base /\ n.packet = o.packet
        /\ n.attempts = Append(o.attempts, a) /\ a.sequence = Len(o.attempts) + 1
        /\ ValidOutcome(a, TRUE)
        /\ \/ /\ n.await = "persisting" /\ n.artifact = o.artifact
              /\ n.states = o.states \o <<"cancelled">>
           \/ /\ n.await = "persisting" /\ n.artifact = o.artifact
              /\ n.states = validating \o <<"failed">>
           \/ /\ n.await = "persisting" /\ n.artifact = "findings"
              /\ n.states = validating \o <<"review">>
           \/ /\ n.await = "proposing" /\ n.artifact = o.artifact
              /\ n.states = validating
  BY DEF CollectedEffect
<1>2. Walks(o.states) /\ EndsIn(o.states, 5, "streaming")
  BY DEF PageFollows, LifecycleFollows
<1>3. o.await # "idle" /\ ~Over(o.await) /\ o.await # "compiling"
  BY DEF Trying, Over
<1>4. Walks(validating) /\ EndsIn(validating, 6, "validating")
  BY <1>2, NextState DEF OperationStates, ValidOperationTransitions
<1>5. AttemptsFollow(n.await, n.attempts)
  BY <1>1, AttemptAdded
<1> HIDE DEF validating
<1>6. o.artifact = "none" /\ o.base \in Commits /\ o.packet
  BY <1>3 DEF PageFollows, ArtifactFollows
<1>7. CASE /\ n.await = "persisting" /\ n.artifact = o.artifact
           /\ n.states = o.states \o <<"cancelled">>
  <2>1. Walks(n.states) /\ EndsIn(n.states, 6, "cancelled")
    BY <1>2, <1>7, NextState DEF OperationStates, ValidOperationTransitions
  <2>2. LifecycleFollows("persisting", n.states) /\ n.states[Len(n.states)] # "review"
    BY <2>1, EndOfRun
  <2> QED  BY <1>1, <1>3, <1>5, <1>7, <2>2, PageEnds
<1>8. CASE /\ n.await = "persisting" /\ n.artifact = o.artifact
           /\ n.states = validating \o <<"failed">>
  <2>1. Walks(n.states) /\ EndsIn(n.states, 7, "failed")
    BY <1>4, <1>8, NextState DEF OperationStates, ValidOperationTransitions
  <2>2. LifecycleFollows("persisting", n.states) /\ n.states[Len(n.states)] # "review"
    BY <2>1, EndOfRun
  <2> QED  BY <1>1, <1>3, <1>5, <1>8, <2>2, PageEnds
<1>9. CASE /\ n.await = "persisting" /\ n.artifact = "findings"
           /\ n.states = validating \o <<"review">>
  <2>1. Walks(n.states) /\ EndsIn(n.states, 7, "review")
    BY <1>4, <1>9, NextState DEF OperationStates, ValidOperationTransitions
  <2>2. LifecycleFollows(n.await, n.states)
    BY <1>9, <2>1 DEF LifecycleFollows, Trying, Over, Ends, EndsIn
  <2>3. ArtifactFollows(n)
    BY <1>1, <1>6, <1>9, <2>1 DEF ArtifactFollows, Over, EndsIn
  <2> QED  BY <1>1, <1>5, <2>2, <2>3 DEF PageFollows
<1>10. CASE n.await = "proposing" /\ n.states = validating /\ n.artifact = o.artifact
  <2>1. LifecycleFollows(n.await, n.states)
    BY <1>4, <1>10 DEF LifecycleFollows, Trying, Over
  <2>2. ArtifactFollows(n)
    BY <1>1, <1>6, <1>10 DEF ArtifactFollows, Over
  <2> QED  BY <1>1, <1>5, <2>1, <2>2 DEF PageFollows
<1> QED  BY <1>1, <1>7, <1>8, <1>9, <1>10

\* A lifecycle that a failure or a cancellation may end.
MayEnd(s) ==
    /\ Walks(s) /\ Len(s) \in 1 .. 6
    /\ s[Len(s)] \in {"compiling", "preflight", "queued", "streaming", "validating"}

LEMMA RunEnds ==
    ASSUME NEW o, PageFollows(o), o.await # "idle", ~Over(o.await),
           NEW n \in Operation, n.await = "persisting",
           n.base = o.base, n.artifact = o.artifact, n.attempts = o.attempts,
           NEW s, MayEnd(s), NEW x \in {"failed", "cancelled"}, n.states = s \o <<x>>
    PROVE  PageFollows(n)
<1> DEFINE k == Len(s)
           y == s[k]
<1>1. /\ x \in OperationStates /\ y # "cancelled" /\ Walks(s) /\ EndsIn(s, k, y) /\ k \in 1 .. 6
      /\ <<y, x>> \in ValidOperationTransitions \/ (y = "validating" /\ x = "cancelled")
  BY DEF MayEnd, EndsIn, OperationStates, ValidOperationTransitions
<1> HIDE DEF y, k
<1>2. Walks(n.states) /\ EndsIn(n.states, k + 1, x) /\ k + 1 \in 2 .. 7
  BY <1>1, NextState
<1>3. LifecycleFollows("persisting", n.states) /\ n.states[Len(n.states)] # "review"
  BY <1>2, EndOfRun
<1>4. AttemptsFollow("persisting", n.attempts)
  BY AttemptsStand DEF PageFollows
<1> QED  BY <1>3, <1>4, PageEnds

LEMMA PageStarts ==
    ASSUME NEW o, PageFollows(o), o.await = "idle", NEW n, StartEffect(n, o)
    PROVE  PageFollows(n)
<1>1. Walks(o.states) /\ EndsIn(o.states, 1, "draft")
  BY DEF PageFollows, LifecycleFollows
<1>2. Walks(n.states) /\ EndsIn(n.states, 2, "compiling")
  BY <1>1, NextState DEF StartEffect, OperationStates, ValidOperationTransitions
<1>3. LifecycleFollows(n.await, n.states)
  BY <1>2 DEF StartEffect, LifecycleFollows, Trying, Over
<1>4. ArtifactFollows(n)
  BY DEF StartEffect, PageFollows, ArtifactFollows, Over
<1>5. AttemptsFollow(n.await, n.attempts)
  BY DEF StartEffect, PageFollows, AttemptsFollow, Trying
<1> QED  BY <1>3, <1>4, <1>5 DEF PageFollows, StartEffect

LEMMA PageCompiles ==
    ASSUME NEW o, PageFollows(o), o.await = "compiling", NEW n, CompiledEffect(n, o)
    PROVE  PageFollows(n)
<1> DEFINE preflight == o.states \o <<"preflight">>
<1>1. Walks(o.states) /\ EndsIn(o.states, 2, "compiling")
  BY DEF PageFollows, LifecycleFollows
<1>2. Walks(preflight) /\ EndsIn(preflight, 3, "preflight")
  BY <1>1, NextState DEF OperationStates, ValidOperationTransitions
<1>3. MayEnd(o.states) /\ MayEnd(preflight) /\ ~Over(o.await)
  BY <1>1, <1>2 DEF MayEnd, EndsIn, Over
<1>4. n \in Operation /\ n.base = o.base /\ n.artifact = o.artifact /\ n.attempts = o.attempts
  BY DEF CompiledEffect
<1>5. \/ n.await = "checking" /\ n.packet /\ n.states = preflight
      \/ /\ n.await = "persisting"
         /\ \E x \in {"failed", "cancelled"} : n.states \in {o.states \o <<x>>, preflight \o <<x>>}
  BY DEF CompiledEffect
<1> HIDE DEF preflight
<1>6. CASE n.await = "checking" /\ n.packet /\ n.states = preflight
  <2>1. LifecycleFollows(n.await, n.states)
    BY <1>2, <1>6 DEF LifecycleFollows, Trying, Over
  <2>2. ArtifactFollows(n)
    BY <1>3, <1>4, <1>6 DEF PageFollows, ArtifactFollows, Over
  <2>3. AttemptsFollow(n.await, n.attempts)
    BY <1>4, <1>6 DEF PageFollows, AttemptsFollow, Trying
  <2> QED  BY <1>4, <2>1, <2>2, <2>3 DEF PageFollows
<1>7. CASE n.await = "persisting"
  <2>1. PICK x \in {"failed", "cancelled"} : n.states \in {o.states \o <<x>>, preflight \o <<x>>}
    BY <1>5, <1>7
  <2>2. CASE n.states = o.states \o <<x>>
    BY <1>1, <1>3, <1>4, <1>7, <2>2, RunEnds
  <2>3. CASE n.states = preflight \o <<x>>
    BY <1>2, <1>3, <1>4, <1>7, <2>3, RunEnds
  <2> QED  BY <2>1, <2>2, <2>3
<1> QED  BY <1>5, <1>6, <1>7

LEMMA PageChecks ==
    ASSUME NEW o, PageFollows(o), o.await = "checking", NEW n, CheckedEffect(n, o)
    PROVE  PageFollows(n)
<1> DEFINE queued == o.states \o <<"queued">>
<1>1. Walks(o.states) /\ EndsIn(o.states, 3, "preflight")
  BY DEF PageFollows, LifecycleFollows
<1>2. Walks(queued) /\ EndsIn(queued, 4, "queued")
  BY <1>1, NextState DEF OperationStates, ValidOperationTransitions
<1>3. MayEnd(o.states) /\ MayEnd(queued) /\ ~Over(o.await)
  BY <1>1, <1>2 DEF MayEnd, EndsIn, Over
<1>4. n \in Operation /\ SameRun(n, o) /\ n.attempts = o.attempts
  BY DEF CheckedEffect
<1>5. \/ Fresh(n) /\ n.states = queued \o <<"streaming">>
      \/ /\ n.await = "persisting"
         /\ \E x \in {"failed", "cancelled"} : n.states \in {o.states \o <<x>>, queued \o <<x>>}
  BY DEF CheckedEffect
<1> HIDE DEF queued
<1>6. CASE Fresh(n) /\ n.states = queued \o <<"streaming">>
  <2>1. Walks(n.states) /\ EndsIn(n.states, 5, "streaming")
    BY <1>2, <1>6, NextState DEF OperationStates, ValidOperationTransitions
  <2>2. LifecycleFollows(n.await, n.states)
    BY <1>6, <2>1 DEF Fresh, LifecycleFollows, Trying, Over
  <2>3. ArtifactFollows(n)
    BY <1>3, <1>4, <1>6 DEF PageFollows, ArtifactFollows, Over, Fresh, SameRun
  <2>4. o.attempts = << >> /\ Len(<< >>) = 0 /\ MaxAttempts > 0
    BY RunnerConstants DEF PageFollows, AttemptsFollow
  <2>5. 1 .. Len(n.attempts) = {} /\ Len(n.attempts) < MaxAttempts /\ n.attempts \in Seq(Attempt)
    BY <1>4, <2>4, RunnerConstants DEF Operation
  <2>6. Len(n.attempts) <= MaxAttempts
    BY <2>5, RunnerConstants
  <2>7. AttemptsFollow(n.await, n.attempts)
    BY <1>4, <2>4, <2>5, <2>6 DEF AttemptsFollow
  <2> QED  BY <1>4, <2>2, <2>3, <2>7 DEF PageFollows
<1>7. CASE n.await = "persisting"
  <2>1. PICK x \in {"failed", "cancelled"} : n.states \in {o.states \o <<x>>, queued \o <<x>>}
    BY <1>5, <1>7 DEF Fresh
  <2>2. n.base = o.base /\ n.artifact = o.artifact
    BY <1>4 DEF SameRun
  <2>3. CASE n.states = o.states \o <<x>>
    BY <1>1, <1>3, <1>4, <1>7, <2>2, <2>3, RunEnds
  <2>4. CASE n.states = queued \o <<x>>
    BY <1>2, <1>3, <1>4, <1>7, <2>2, <2>4, RunEnds
  <2> QED  BY <2>1, <2>3, <2>4
<1> QED  BY <1>5, <1>6, <1>7

LEMMA PageWakes ==
    ASSUME NEW o, PageFollows(o), o.await = "sleeping", NEW n, AwakeEffect(n, o)
    PROVE  PageFollows(n)
<1>1. n \in Operation /\ SameRun(n, o) /\ n.attempts = o.attempts
  BY DEF AwakeEffect
<1>2. CASE Fresh(n) /\ n.states = o.states
  <2>1. KeptEffect(n, o) /\ Trying(n.await) /\ Trying(o.await)
    BY <1>1, <1>2 DEF KeptEffect, Fresh, Trying
  <2> QED  BY <2>1, PageKept
<1>3. CASE n.await = "persisting" /\ n.states = o.states \o <<"cancelled">>
  <2>1. MayEnd(o.states)
    BY DEF PageFollows, LifecycleFollows, Trying, MayEnd, EndsIn
  <2>2. n.base = o.base /\ n.artifact = o.artifact /\ ~Over(o.await)
    BY <1>1 DEF SameRun, Over
  <2> QED  BY <1>1, <1>3, <2>1, <2>2, RunEnds
<1> QED  BY <1>2, <1>3 DEF AwakeEffect

LEMMA PageProposes ==
    ASSUME NEW o, PageFollows(o), o.await = "proposing", NEW n, ProposedEffect(n, o)
    PROVE  PageFollows(n)
<1>1. Walks(o.states) /\ EndsIn(o.states, 6, "validating")
  BY DEF PageFollows, LifecycleFollows
<1>2. MayEnd(o.states) /\ ~Over(o.await)
  BY <1>1 DEF MayEnd, EndsIn, Over
<1>3. /\ n \in Operation /\ n.base = o.base /\ n.packet = o.packet /\ n.attempts = o.attempts
      /\ n.await = "persisting"
  BY DEF ProposedEffect
<1>4. CASE /\ n.artifact = o.artifact
           /\ \E x \in {"failed", "cancelled"} : n.states = o.states \o <<x>>
  <2>1. PICK x \in {"failed", "cancelled"} : n.states = o.states \o <<x>>
    BY <1>4
  <2> QED  BY <1>1, <1>2, <1>3, <1>4, <2>1, RunEnds
<1>5. CASE n.artifact = "patch_proposal" /\ n.states = o.states \o <<"review">>
  <2>1. Walks(n.states) /\ EndsIn(n.states, 7, "review")
    BY <1>1, <1>5, NextState DEF OperationStates, ValidOperationTransitions
  <2>2. LifecycleFollows(n.await, n.states) /\ n.states[Len(n.states)] = "review"
    BY <1>3, <2>1, EndOfRun
  <2>3. ArtifactFollows(n)
    BY <1>2, <1>3, <1>5, <2>2 DEF PageFollows, ArtifactFollows, Over
  <2>4. AttemptsFollow(n.await, n.attempts)
    BY <1>3, AttemptsStand DEF PageFollows
  <2> QED  BY <1>3, <2>2, <2>3, <2>4 DEF PageFollows
<1> QED  BY <1>4, <1>5 DEF ProposedEffect

-----------------------------------------------------------------------------
(* What the other steps change of the operation *)

Answers == {"none", "ok", "cancelled", "retriable", "failed"}

\* The operation but for where it awaits and what it knows of its stream.
StaysEffect(n, o, await, queue, started, answer) ==
    /\ KeptEffect(n, o) /\ n.await = await
    /\ n.queue = queue /\ n.started = started /\ n.answer = answer

LEMMA AwaitStays ==
    ASSUME NEW o \in Operation, NEW await \in Awaits
    PROVE  StaysEffect([o EXCEPT !.await = await], o, await, o.queue, o.started, o.answer)
BY AwaitFields DEF StaysEffect, KeptEffect, SameStream

LEMMA AnswerStays ==
    ASSUME NEW o \in Operation, NEW answer \in Answers
    PROVE  StaysEffect([o EXCEPT !.answer = answer], o, o.await, o.queue, o.started, answer)
BY DEF StaysEffect, KeptEffect, SameRun, Operation, Answers

LEMMA QueueStays ==
    ASSUME NEW o \in Operation, NEW queue \in Seq({"start", "more"})
    PROVE  StaysEffect([o EXCEPT !.queue = queue], o, o.await, queue, o.started, o.answer)
BY DEF StaysEffect, KeptEffect, SameRun, Operation

LEMMA AbortStays ==
    ASSUME NEW o \in Operation
    PROVE  StaysEffect([o EXCEPT !.aborted = TRUE], o, o.await, o.queue, o.started, o.answer)
BY DEF StaysEffect, KeptEffect, SameRun, Operation

LEMMA RefusedStays ==
    ASSUME op \in Operation
    PROVE  StaysEffect(Refused, op, "waiting", op.queue, op.started, "failed")
<1> DEFINE m == [op EXCEPT !.await = "waiting"]
<1>1. "waiting" \in Awaits /\ "failed" \in Answers
  BY DEF Awaits, Answers
<1>2. StaysEffect(m, op, "waiting", op.queue, op.started, op.answer)
  BY <1>1, AwaitStays
<1>3. m \in Operation
  BY <1>2 DEF StaysEffect, KeptEffect
<1>4. Refused = [m EXCEPT !.answer = "failed"]
  BY DEF Refused
<1> HIDE DEF m
<1>5. StaysEffect([m EXCEPT !.answer = "failed"], m, m.await, m.queue, m.started, "failed")
  BY <1>1, <1>3, AnswerStays
<1> QED  BY <1>2, <1>4, <1>5 DEF StaysEffect, KeptEffect, SameRun

\* The page has taken an event and goes on.
LEMMA ConsumedStays ==
    ASSUME NEW o \in Operation, o.queue # << >>, NEW n,
           n = [o EXCEPT !.queue = Tail(@), !.started = @ \/ Head(o.queue) = "start"]
    PROVE  KeptEffect(n, o) /\ n.await = o.await /\ n.answer = o.answer
<1> DEFINE queue == Tail(o.queue)
           started == o.started \/ Head(o.queue) = "start"
           m == [o EXCEPT !.queue = queue]
<1>1. queue \in Seq({"start", "more"}) /\ started \in BOOLEAN
  BY DEF Operation
<1>2. n = [m EXCEPT !.started = started]
  BY DEF Operation
<1> HIDE DEF queue, started
<1>3. StaysEffect(m, o, o.await, queue, o.started, o.answer)
  BY <1>1, QueueStays
<1> HIDE DEF m
<1>4. m \in Operation
  BY <1>3 DEF StaysEffect, KeptEffect
<1>5. KeptEffect(n, m) /\ n.await = m.await /\ n.answer = m.answer
  BY <1>1, <1>2, <1>4 DEF Operation, KeptEffect, SameRun
<1> QED  BY <1>3, <1>5 DEF StaysEffect, KeptEffect, SameRun

\* While the page makes an attempt, its request is one the host knows of.
LEMMA CurrentIsRequest ==
    ASSUME PageInvariant
    PROVE  /\ Len(op.attempts) \in Nat /\ Current \in Nat /\ Current = Len(op.attempts) + 1
           /\ Trying(op.await) => Current \in Requests
<1>1. Len(op.attempts) \in Nat /\ (Trying(op.await) => Len(op.attempts) < MaxAttempts)
  BY DEF PageInvariant, PageFollows, Operation, AttemptsFollow
<1> QED  BY <1>1, RunnerConstants DEF Current

-----------------------------------------------------------------------------
(* The page goes on, and the host stands still *)

\* What the page has to see to when it goes on to await something else.
LeavesNothing ==
    /\ op'.await # "waiting" /\ Current' >= Current
    /\ op.await = "waiting" => Current' > Current
    /\ op'.await \in {"authorizing", "authorized", "withdrawing", "executing"} =>
          op'.answer = "none" /\ op'.queue = << >> /\ ~op'.started
    /\ \A t \in Threads : ~OnItsWay(t) /\ (Streams(t) => RequestOf(t) \in asked')
    /\ \A p \in pending' :
          \/ op'.await \in {"authorized", "executing"} /\ p.request = Current'
          \/ p.request \in asked' \cup cancel
    /\ \A i \in 1 .. Len(op'.attempts) : op'.attempts[i].responseStarted => i \in told

LEMMA PageMoves ==
    ASSUME PageInvariant, PageInvariant', HostInvariant, LeavesNothing,
           asked' \subseteq Requests, UNCHANGED <<call, cancel, told, sentOut>>
    PROVE  HostInvariant'
<1> USE DEF HostInvariant
<1>1. Current \in Nat /\ Current' \in Nat /\ Requests \subseteq Nat
  BY CurrentIsRequest, RunnerConstants DEF PageInvariant, PageFollows, Operation, Current
<1>2. HostFollows'
  <2> SUFFICES ASSUME NEW r \in Requests, r > Current' \/ r = Current' PROVE Untouched(r)'
    BY DEF HostFollows, LeavesNothing
  <2>1. Untouched(r)
    BY <1>1 DEF HostFollows, LeavesNothing
  <2> QED  BY <2>1 DEF Untouched, Busy, RequestOf
<1>3. TakenForPage'
  BY DEF TakenForPage, OnItsWay, LeavesNothing
<1>4. AnswerEndsRequest'
  BY DEF AnswerEndsRequest, LeavesNothing
<1>5. WaitsOrWithdrawn'
  BY DEF WaitsOrWithdrawn, LeavesNothing
<1>6. RunsOrStopped'
  BY DEF RunsOrStopped, LeavesNothing, Streams, RequestOf
<1>7. StartedWasTold'
  BY DEF StartedWasTold, LeavesNothing
<1> QED  BY <1>2, <1>3, <1>4, <1>5, <1>6, <1>7

\* While the page does not wait for its stream, nothing is on its way and what
\* runs is being stopped.
LEMMA HostIsQuiet ==
    ASSUME HostInvariant, op.await # "waiting"
    PROVE  /\ \A t \in Threads : ~OnItsWay(t) /\ (Streams(t) => RequestOf(t) \in asked)
           /\ op.await \notin {"authorized", "executing"} =>
                 \A p \in pending : p.request \in asked \cup cancel
BY DEF HostInvariant, TakenForPage, RunsOrStopped, WaitsOrWithdrawn

\* A step of the page between its requests.
LEMMA PageElsewhere ==
    ASSUME PageInvariant, PageInvariant', HostInvariant,
           op.await \notin {"authorized", "executing", "waiting"},
           op'.await \notin {"authorized", "executing", "waiting", "withdrawing"},
           op'.await = "authorizing" => Fresh(op'),
           op'.attempts = op.attempts,
           UNCHANGED <<pending, asked, call, cancel, told, sentOut>>
    PROVE  HostInvariant'
<1>1. Current' = Current /\ Current \in Nat
  BY CurrentIsRequest DEF Current
<1>2. LeavesNothing
  BY <1>1, HostIsQuiet DEF LeavesNothing, Fresh, HostInvariant, StartedWasTold
<1> QED  BY <1>2, PageMoves DEF HostInvariant

LEMMA StartKeeps ==
    ASSUME RunnerInvariant, Start
    PROVE  PageInvariant' /\ HostInvariant'
<1>1. /\ PageFollows(op) /\ op.await = "idle" /\ StartEffect(op', op)
      /\ UNCHANGED <<pending, asked, call, cancel, told, sentOut>>
  BY StartChanges
  DEF Start, RunnerInvariant, PageInvariant, PageFollows, GatewayInvariant, mgVars
<1>2. PageFollows(op')
  BY <1>1, PageStarts
<1> QED  BY <1>1, <1>2, PageElsewhere DEF PageInvariant, RunnerInvariant, StartEffect

LEMMA CompiledKeeps ==
    ASSUME RunnerInvariant, Compiled
    PROVE  PageInvariant' /\ HostInvariant'
<1>1. /\ PageFollows(op) /\ op.await = "compiling" /\ CompiledEffect(op', op)
      /\ UNCHANGED <<pending, asked, call, cancel, told, sentOut>>
  BY CompiledChanges DEF Compiled, RunnerInvariant, PageInvariant, PageFollows, mgVars
<1>2. PageFollows(op')
  BY <1>1, PageCompiles
<1> QED  BY <1>1, <1>2, PageElsewhere DEF PageInvariant, RunnerInvariant, CompiledEffect

LEMMA CheckedKeeps ==
    ASSUME RunnerInvariant, Checked
    PROVE  PageInvariant' /\ HostInvariant'
<1>1. /\ PageFollows(op) /\ op.await = "checking" /\ CheckedEffect(op', op)
      /\ UNCHANGED <<pending, asked, call, cancel, told, sentOut>>
  BY CheckedChanges DEF Checked, RunnerInvariant, PageInvariant, PageFollows, mgVars
<1>2. PageFollows(op')
  BY <1>1, PageChecks
<1>3. \/ op'.await = "persisting"
      \/ Fresh(op') /\ op'.await = "authorizing"
  BY <1>1 DEF CheckedEffect, Fresh
<1> QED  BY <1>1, <1>2, <1>3, PageElsewhere DEF PageInvariant, RunnerInvariant, CheckedEffect

LEMMA AwakeKeeps ==
    ASSUME RunnerInvariant, Awake
    PROVE  PageInvariant' /\ HostInvariant'
<1>1. /\ PageFollows(op) /\ op.await = "sleeping" /\ AwakeEffect(op', op)
      /\ UNCHANGED <<pending, asked, call, cancel, told, sentOut>>
  BY AwakeChanges DEF Awake, RunnerInvariant, PageInvariant, PageFollows, mgVars
<1>2. PageFollows(op')
  BY <1>1, PageWakes
<1>3. \/ op'.await = "persisting"
      \/ Fresh(op') /\ op'.await = "authorizing"
  BY <1>1 DEF AwakeEffect, Fresh
<1> QED  BY <1>1, <1>2, <1>3, PageElsewhere DEF PageInvariant, RunnerInvariant, AwakeEffect

LEMMA ProposedKeeps ==
    ASSUME RunnerInvariant, Proposed
    PROVE  PageInvariant' /\ HostInvariant'
<1>1. /\ PageFollows(op) /\ op.await = "proposing" /\ ProposedEffect(op', op)
      /\ UNCHANGED <<pending, asked, call, cancel, told, sentOut>>
  BY ProposedChanges DEF Proposed, RunnerInvariant, PageInvariant, PageFollows, mgVars
<1>2. PageFollows(op')
  BY <1>1, PageProposes
<1> QED  BY <1>1, <1>2, PageElsewhere DEF PageInvariant, RunnerInvariant, ProposedEffect

LEMMA HostPersistsKeeps ==
    ASSUME RunnerInvariant, HostPersists
    PROVE  PageInvariant' /\ HostInvariant'
<1>1. /\ op.await = "persisting" /\ op' = [op EXCEPT !.await = "done"] /\ PageFollows(op)
      /\ UNCHANGED <<pending, asked, call, cancel, told, sentOut>> /\ "done" \in Awaits
  BY DEF HostPersists, mgVars, RunnerInvariant, PageInvariant, Awaits
<1>2. KeptEffect(op', op) /\ op'.await = "done"
  BY <1>1, AwaitStays DEF StaysEffect, PageFollows
<1>3. PageFollows(op')
  BY <1>1, <1>2, PageKept DEF Over
<1> QED  BY <1>1, <1>2, <1>3, PageElsewhere DEF PageInvariant, RunnerInvariant, KeptEffect

\* An attempt ends: what is noted of it is what the host has told, and no step
\* of the host can be for it any more.
LEMMA AttemptEnds ==
    ASSUME PageInvariant, PageInvariant', HostInvariant,
           op'.await \in {"sleeping", "persisting", "proposing"},
           NEW a \in Attempt, op'.attempts = Append(op.attempts, a),
           a.responseStarted => Current \in told,
           \A t \in Threads : ~OnItsWay(t) /\ (Streams(t) => RequestOf(t) \in asked'),
           \A p \in pending' : p.request \in asked' \cup cancel,
           asked' \subseteq Requests, UNCHANGED <<call, cancel, told, sentOut>>
    PROVE  HostInvariant'
<1>1. /\ Current \in Nat /\ Current = Len(op.attempts) + 1 /\ op.attempts \in Seq(Attempt)
      /\ Len(op.attempts) \in Nat
  BY CurrentIsRequest DEF PageInvariant, PageFollows, Operation
<1>2. /\ Len(op'.attempts) = Current /\ Current' = Current + 1
      /\ op'.attempts[Current] = a
      /\ \A i \in 1 .. Len(op.attempts) : op'.attempts[i] = op.attempts[i]
  BY <1>1 DEF Current
<1>3. ASSUME NEW i \in 1 .. Len(op'.attempts), op'.attempts[i].responseStarted
      PROVE  i \in told
  <2>1. CASE i = Current
    BY <1>2, <1>3, <2>1
  <2>2. CASE i # Current
    <3>1. i \in 1 .. Len(op.attempts)
      BY <1>1, <1>2, <2>2
    <3> QED  BY <1>2, <1>3, <3>1 DEF HostInvariant, StartedWasTold
  <2> QED  BY <2>1, <2>2
<1>4. LeavesNothing
  BY <1>1, <1>2, <1>3 DEF LeavesNothing
<1> QED  BY <1>4, PageMoves

\* An attempt that failed ends.
LEMMA FailureEnds ==
    ASSUME RunnerInvariant, Trying(op.await), NEW retriable \in BOOLEAN, NEW cancelled,
           AttemptFails(retriable, cancelled),
           op.started => Current \in told,
           \A t \in Threads : ~OnItsWay(t) /\ (Streams(t) => RequestOf(t) \in asked'),
           \A p \in pending' : p.request \in asked' \cup cancel,
           asked' \subseteq Requests, UNCHANGED <<call, cancel, told, sentOut>>
    PROVE  PageInvariant' /\ HostInvariant'
<1>1. PageFollows(op) /\ op \in Operation /\ Len(op.attempts) < MaxAttempts
  BY DEF RunnerInvariant, PageInvariant, PageFollows, AttemptsFollow
<1>2. FailsEffect(op', op)
  BY <1>1, FailsChanges
<1>3. PageFollows(op')
  BY <1>1, <1>2, PageFails
<1>4. PICK a \in Attempt :
        /\ op'.attempts = Append(op.attempts, a) /\ (a.responseStarted => op.started)
        /\ op'.await \in {"sleeping", "persisting"}
  BY <1>2 DEF FailsEffect
<1>5. HostInvariant'
  BY <1>1, <1>3, <1>4, AttemptEnds DEF RunnerInvariant, PageInvariant
<1> QED  BY <1>3, <1>5 DEF PageInvariant

-----------------------------------------------------------------------------
(* One request *)

LEMMA HostAuthorizesKeeps ==
    ASSUME RunnerInvariant, HostAuthorizes
    PROVE  PageInvariant' /\ HostInvariant'
<1>1. /\ op.await = "authorizing" /\ PageFollows(op) /\ op \in Operation
      /\ UNCHANGED <<asked, call, cancel, told, sentOut>>
      /\ asked \subseteq Requests
  BY DEF HostAuthorizes, Authorize, mgVars, RunnerInvariant, PageInvariant, PageFollows,
         HostInvariant
<1>2. Trying(op.await) /\ Current \in Requests /\ Current \in Nat
  BY <1>1, CurrentIsRequest DEF Trying, RunnerInvariant
<1>3. /\ \A t \in Threads : ~OnItsWay(t) /\ (Streams(t) => RequestOf(t) \in asked)
      /\ \A p \in pending : p.request \in asked \cup cancel
      /\ op.answer = "none" /\ op.queue = << >> /\ ~op.started
  BY <1>1, HostIsQuiet DEF RunnerInvariant, HostInvariant, AnswerEndsRequest
<1>4. CASE AttemptFails(FALSE, FALSE) /\ pending' \subseteq pending
  BY <1>1, <1>2, <1>3, <1>4, FailureEnds
<1>5. CASE /\ op' = [op EXCEPT !.await = "authorized"]
           /\ \A p \in pending' : p \in pending \/ p.request = Current
  <2>1. StaysEffect(op', op, "authorized", << >>, FALSE, "none")
    <3>1. "authorized" \in Awaits /\ op.started = FALSE
      BY <1>1, <1>3, Zenon DEF Awaits, Operation
    <3> QED  BY <1>1, <1>3, <1>5, <3>1, AwaitStays
  <2>2. PageFollows(op')
    BY <1>1, <2>1, PageKept DEF StaysEffect, Trying
  <2>3. Current' = Current /\ op'.attempts = op.attempts
    BY <2>1 DEF StaysEffect, KeptEffect, Current
  <2>4. LeavesNothing
    BY <1>1, <1>2, <1>3, <1>5, <2>1, <2>3
    DEF LeavesNothing, StaysEffect, RunnerInvariant, HostInvariant, StartedWasTold
  <2> QED  BY <1>1, <2>2, <2>4, PageMoves DEF RunnerInvariant, PageInvariant
<1>6. CASE Authorize(Current) /\ (IF issued' > issued THEN op' = [op EXCEPT !.await = "authorized"]
                                  ELSE AttemptFails(FALSE, FALSE))
  <2>1. issued \in Nat
    BY BoundsAreNatural DEF RunnerInvariant, GatewayInvariant, MgTypeOK
  <2>2. CASE issued' = issued /\ pending' = {p \in pending : ~p.expired}
    <3>1. ~(issued' > issued) /\ pending' \subseteq pending
      BY <2>1, <2>2
    <3>2. AttemptFails(FALSE, FALSE)
      BY <1>6, <3>1, Zenon
    <3> QED  BY <1>4, <3>1, <3>2
  <2>3. CASE /\ issued' = issued + 1
             /\ pending' = {p \in pending : ~p.expired} \cup
                   {[id |-> issued + 1, request |-> Current, base |-> session.head,
                     expired |-> FALSE]}
    <3>1. issued' > issued
      BY <2>1, <2>3
    <3>2. op' = [op EXCEPT !.await = "authorized"]
      BY <1>6, <3>1, Zenon
    <3>3. \A p \in pending' : p \in pending \/ p.request = Current
      BY <2>3
    <3> QED  BY <1>5, <3>2, <3>3
  <2> QED  BY <1>6, <2>2, <2>3 DEF Authorize
<1> QED  BY <1>4, <1>6 DEF HostAuthorizes, mgVars

LEMMA AuthorizedKeeps ==
    ASSUME RunnerInvariant, Authorized
    PROVE  PageInvariant' /\ HostInvariant'
<1>1. /\ op.await = "authorized" /\ PageFollows(op) /\ op \in Operation
      /\ UNCHANGED <<pending, call, cancel, told, sentOut>>
      /\ asked \subseteq Requests
  BY DEF Authorized, mgVars, RunnerInvariant, PageInvariant, PageFollows, HostInvariant
<1>2. Trying(op.await) /\ Current \in Requests /\ Current \in Nat
  BY <1>1, CurrentIsRequest DEF Trying, RunnerInvariant
<1>3. /\ \A t \in Threads : ~OnItsWay(t) /\ (Streams(t) => RequestOf(t) \in asked)
      /\ \A p \in pending : p.request = Current \/ p.request \in asked \cup cancel
      /\ op.answer = "none" /\ op.queue = << >> /\ ~op.started
  BY <1>1, HostIsQuiet DEF RunnerInvariant, HostInvariant, AnswerEndsRequest, WaitsOrWithdrawn
<1>4. /\ "withdrawing" \in Awaits /\ "executing" \in Awaits
      /\ op.started = FALSE
  BY <1>1, <1>3, Zenon DEF Awaits, Operation
<1>5. PICK await \in {"withdrawing", "executing"} :
        /\ op' = [op EXCEPT !.await = await]
        /\ await = "withdrawing" => asked' = asked \cup {Current}
        /\ await = "executing" => asked' = asked
  BY DEF Authorized
<1>6. StaysEffect(op', op, await, << >>, FALSE, "none")
  BY <1>1, <1>3, <1>4, <1>5, AwaitStays
<1>7. PageFollows(op')
  BY <1>1, <1>6, PageKept DEF StaysEffect, Trying
<1>8. Current' = Current /\ op'.attempts = op.attempts
  BY <1>6 DEF StaysEffect, KeptEffect, Current
<1>9. asked \subseteq asked' /\ asked' \subseteq Requests
  BY <1>1, <1>2, <1>5
<1>10. LeavesNothing
  BY <1>1, <1>2, <1>3, <1>5, <1>6, <1>8, <1>9
  DEF LeavesNothing, StaysEffect, RunnerInvariant, HostInvariant, StartedWasTold
<1> QED  BY <1>1, <1>7, <1>9, <1>10, PageMoves DEF RunnerInvariant, PageInvariant

LEMMA WithdrawnKeeps ==
    ASSUME RunnerInvariant, Withdrawn
    PROVE  PageInvariant' /\ HostInvariant'
<1>1. /\ op.await = "withdrawing" /\ AttemptFails(FALSE, TRUE)
      /\ UNCHANGED <<pending, asked, call, cancel, told, sentOut>>
  BY DEF Withdrawn, mgVars
<1>2. /\ \A t \in Threads : ~OnItsWay(t) /\ (Streams(t) => RequestOf(t) \in asked)
      /\ \A p \in pending : p.request \in asked \cup cancel
      /\ ~op.started /\ asked \subseteq Requests
  BY <1>1, HostIsQuiet DEF RunnerInvariant, HostInvariant, AnswerEndsRequest
<1> QED  BY <1>1, <1>2, FailureEnds DEF Trying

\* A page that waits for its stream.
LEMMA WaitingPage ==
    ASSUME RunnerInvariant, op.await = "waiting"
    PROVE  /\ PageFollows(op) /\ op \in Operation /\ Trying(op.await)
           /\ Current \in Requests /\ asked \subseteq Requests
           /\ op.started \/ op.queue # << >> => Current \in told
           /\ \A p \in pending : p.request \in asked \cup cancel
           /\ op.answer # "none" \/ op.queue # << >> => \A t \in Threads : ~OnItsWay(t)
           /\ \A t \in Threads : Streams(t) =>
                 RequestOf(t) \in asked \/ (op.answer = "none" /\ RequestOf(t) = Current)
<1>1. Trying(op.await)
  BY DEF Trying
<1>2. Current \in Requests /\ PageFollows(op) /\ op \in Operation
  BY <1>1, CurrentIsRequest DEF RunnerInvariant, PageInvariant, PageFollows
<1>3. \A t \in Threads : Streams(t) => Busy(t)
  BY DEF Streams, Busy
<1> QED
  BY <1>1, <1>2, <1>3 DEF RunnerInvariant, HostInvariant, StartedWasTold, WaitsOrWithdrawn,
     TakenForPage, RunsOrStopped, AnswerEndsRequest

LEMMA StreamEndsKeeps ==
    ASSUME RunnerInvariant, StreamEnds
    PROVE  PageInvariant' /\ HostInvariant'
<1>1. /\ op.await = "waiting" /\ op.answer # "none"
      /\ UNCHANGED <<pending, asked, call, cancel, told, sentOut>>
  BY DEF StreamEnds, Drained, mgVars
<1>2. /\ \A t \in Threads : ~OnItsWay(t) /\ (Streams(t) => RequestOf(t) \in asked)
      /\ \A p \in pending : p.request \in asked \cup cancel
      /\ op.started => Current \in told
      /\ asked \subseteq Requests /\ Trying(op.await) /\ PageFollows(op) /\ op \in Operation
  BY <1>1, WaitingPage
<1>3. CASE op.started /\ Collected
  <2>1. CollectedEffect(op', op)
    BY <1>2, <1>3, CollectedChanges
  <2>2. PageFollows(op')
    BY <1>2, <2>1, PageCollects
  <2>3. PICK a \in Attempt :
          op'.attempts = Append(op.attempts, a) /\ op'.await \in {"persisting", "proposing"}
    BY <2>1 DEF CollectedEffect
  <2> QED
    BY <1>1, <1>2, <1>3, <2>2, <2>3, AttemptEnds DEF RunnerInvariant, PageInvariant
<1>4. CASE AttemptFails(op.answer = "retriable", op.answer = "cancelled")
  <2>1. (op.answer = "retriable") \in BOOLEAN
    OBVIOUS
  <2> QED  BY <1>1, <1>2, <1>4, <2>1, FailureEnds
<1> QED  BY <1>3, <1>4 DEF StreamEnds

LEMMA ConsumeKeeps ==
    ASSUME RunnerInvariant, Consume
    PROVE  PageInvariant' /\ HostInvariant'
<1> DEFINE rest == [op EXCEPT !.queue = Tail(@), !.started = @ \/ Head(op.queue) = "start"]
<1>1. /\ op.await = "waiting" /\ op.queue # << >>
      /\ UNCHANGED <<pending, call, cancel, told, sentOut>>
      /\ \/ (AttemptFails(FALSE, TRUE) \/ AttemptFails(FALSE, FALSE)) /\ Abandon
         \/ op' = rest /\ UNCHANGED asked
  BY DEF Consume, mgVars
<1>2. /\ \A t \in Threads : ~OnItsWay(t)
      /\ \A t \in Threads : Streams(t) =>
            RequestOf(t) \in asked \/ (op.answer = "none" /\ RequestOf(t) = Current)
      /\ \A p \in pending : p.request \in asked \cup cancel
      /\ Current \in told /\ Current \in Requests
      /\ asked \subseteq Requests /\ Trying(op.await) /\ PageFollows(op) /\ op \in Operation
  BY <1>1, WaitingPage
<1>3. CASE (AttemptFails(FALSE, TRUE) \/ AttemptFails(FALSE, FALSE)) /\ Abandon
  <2>1. /\ asked' \subseteq Requests /\ asked \subseteq asked'
        /\ op.answer = "none" => Current \in asked'
    BY <1>2, <1>3 DEF Abandon
  <2>2. \A t \in Threads : ~OnItsWay(t) /\ (Streams(t) => RequestOf(t) \in asked')
    BY <1>2, <2>1
  <2>3. \A p \in pending' : p.request \in asked' \cup cancel
    BY <1>1, <1>2, <2>1
  <2>4. CASE AttemptFails(FALSE, TRUE)
    BY <1>1, <1>2, <2>1, <2>2, <2>3, <2>4, FailureEnds
  <2>5. CASE AttemptFails(FALSE, FALSE)
    BY <1>1, <1>2, <2>1, <2>2, <2>3, <2>5, FailureEnds
  <2> QED  BY <1>3, <2>4, <2>5
<1>4. CASE op' = rest /\ UNCHANGED asked
  <2>1. KeptEffect(op', op) /\ op'.await = op.await /\ op'.answer = op.answer
    BY <1>1, <1>2, <1>4, ConsumedStays
  <2>2. PageFollows(op')
    BY <1>2, <2>1, PageKept
  <2>3. Current' = Current /\ op'.attempts = op.attempts /\ op'.await = "waiting"
    BY <1>1, <2>1 DEF KeptEffect, Current
  <2>4. HostInvariant
    BY DEF RunnerInvariant
  <2>5. HostFollows'
    BY <1>1, <2>3, <2>4 DEF HostInvariant, HostFollows, Untouched, Busy, RequestOf
  <2>6. TakenForPage' /\ AnswerEndsRequest'
    BY <1>1, <1>2, <2>1, <2>3, <2>4
    DEF HostInvariant, TakenForPage, OnItsWay, AnswerEndsRequest, Busy, RequestOf
  <2>7. WaitsOrWithdrawn' /\ RunsOrStopped'
    BY <1>1, <1>2, <1>4, <2>3, <2>4
    DEF HostInvariant, WaitsOrWithdrawn, RunsOrStopped, Streams, RequestOf
  <2>8. StartedWasTold'
    BY <1>1, <1>2, <2>3, <2>4 DEF HostInvariant, StartedWasTold
  <2> QED  BY <1>1, <1>4, <2>2, <2>4, <2>5, <2>6, <2>7, <2>8 DEF HostInvariant, PageInvariant
<1> QED  BY <1>1, <1>3, <1>4

LEMMA AbortKeeps ==
    ASSUME RunnerInvariant, Abort
    PROVE  PageInvariant' /\ HostInvariant'
<1>1. /\ op' = [op EXCEPT !.aborted = TRUE] /\ PageFollows(op) /\ op \in Operation
      /\ asked' = IF Requesting(op) THEN asked \cup {Current} ELSE asked
      /\ UNCHANGED <<pending, call, cancel, told, sentOut>> /\ HostInvariant
  BY DEF Abort, mgVars, RunnerInvariant, PageInvariant, PageFollows
<1>2. StaysEffect(op', op, op.await, op.queue, op.started, op.answer)
  BY <1>1, AbortStays
<1>3. PageFollows(op')
  BY <1>1, <1>2, PageKept DEF StaysEffect
<1>4. Requesting(op) => Current \in Requests
  BY CurrentIsRequest DEF RunnerInvariant, Requesting, Trying
<1>5. asked \subseteq asked' /\ asked' \subseteq Requests
  BY <1>1, <1>4 DEF HostInvariant
<1>6. /\ Current' = Current /\ op'.attempts = op.attempts /\ op'.await = op.await
      /\ op'.queue = op.queue /\ op'.started = op.started /\ op'.answer = op.answer
  BY <1>2 DEF StaysEffect, KeptEffect, Current
<1>7. HostFollows'
  BY <1>1, <1>6 DEF HostInvariant, HostFollows, Untouched, Busy, RequestOf
<1>8. TakenForPage' /\ AnswerEndsRequest'
  BY <1>1, <1>6 DEF HostInvariant, TakenForPage, OnItsWay, AnswerEndsRequest, Busy, RequestOf
<1>9. WaitsOrWithdrawn' /\ RunsOrStopped'
  BY <1>1, <1>5, <1>6 DEF HostInvariant, WaitsOrWithdrawn, RunsOrStopped, Streams, RequestOf
<1>10. StartedWasTold'
  BY <1>1, <1>6 DEF HostInvariant, StartedWasTold
<1> QED
  BY <1>1, <1>3, <1>5, <1>7, <1>8, <1>9, <1>10 DEF HostInvariant, PageInvariant

\* The threads of the host.
LEMMA HostThreads ==
    ASSUME RunnerInvariant
    PROVE  /\ \A t \in Threads : Busy(t) => RequestOf(t) \in Requests /\ call[t] \in Call
           /\ \A t, u \in Threads : Busy(t) /\ Busy(u) /\ RequestOf(t) = RequestOf(u) => t = u
           /\ \A t \in Threads : OnItsWay(t) => Busy(t)
           /\ \A t \in Threads : Streams(t) => Busy(t)
<1>1. \A t \in Threads : Busy(t) => call[t] \in Call
  BY BusyIsCall DEF RunnerInvariant, GatewayInvariant
<1>2. \A t \in Threads : Busy(t) => RequestOf(t) \in Requests
  BY <1>1 DEF Call, Pending, RequestOf
<1> QED
  BY <1>1, <1>2 DEF RunnerInvariant, GatewayInvariant, OnePlace, OnItsWay, Streams, Busy

LEMMA HostEmitsKeeps ==
    ASSUME RunnerInvariant, HostEmits
    PROVE  PageInvariant' /\ HostInvariant'
<1>1. PICK t \in Threads : call[t].stage = "streaming" /\ Emit(t, RequestOf(t))
  BY DEF HostEmits
<1> DEFINE r == RequestOf(t)
           heard == op.await = "waiting" /\ r = Current /\ Len(op.queue) < MaxQueue
           event == IF r \in told THEN "more" ELSE "start"
           queue == Append(op.queue, event)
<1>2. /\ told' = told \cup {r}
      /\ heard => op' = [op EXCEPT !.queue = queue]
      /\ ~heard => op' = op
      /\ UNCHANGED <<pending, asked, call, cancel, sentOut>>
  BY <1>1 DEF Emit, HostEmits, mgVars
<1>3. /\ PageFollows(op) /\ op \in Operation /\ HostInvariant
      /\ Busy(t) /\ ~OnItsWay(t) /\ r \in Requests
  BY <1>1, HostThreads DEF RunnerInvariant, PageInvariant, PageFollows, Busy, OnItsWay
<1>4. op.queue \in Seq({"start", "more"}) /\ queue \in Seq({"start", "more"})
  BY <1>3 DEF Operation
<1> HIDE DEF queue
<1>5. /\ KeptEffect(op', op) /\ op'.await = op.await
      /\ op'.started = op.started /\ op'.answer = op.answer
      /\ heard \/ op'.queue = op.queue
  <2>1. CASE heard
    <3>1. op' = [op EXCEPT !.queue = queue]
      BY <1>2, <2>1, Zenon
    <3>2. StaysEffect([op EXCEPT !.queue = queue], op, op.await, queue, op.started, op.answer)
      BY <1>3, <1>4, QueueStays
    <3> QED  BY <2>1, <3>1, <3>2, Zenon DEF StaysEffect
  <2>2. CASE ~heard
    BY <1>2, <1>3, <2>2 DEF KeptEffect, SameRun
  <2> QED  BY <2>1, <2>2
<1>6. PageFollows(op')
  BY <1>3, <1>5, PageKept
<1>7. Current' = Current /\ op'.attempts = op.attempts
  BY <1>5 DEF KeptEffect, Current
<1>8. HostFollows'
  <2>1. \A s \in Requests : Untouched(s) => s # r /\ Untouched(s)'
    BY <1>2, <1>3 DEF Untouched, Busy, RequestOf
  <2> QED  BY <1>3, <1>5, <1>7, <2>1 DEF HostInvariant, HostFollows
<1>9. TakenForPage'
  <2>1. \A u \in Threads : OnItsWay(u) => RequestOf(u) = Current /\ r # Current /\ ~heard
    BY <1>3, HostThreads DEF HostInvariant, TakenForPage
  <2> QED
    BY <1>2, <1>3, <1>5, <1>7, <2>1 DEF HostInvariant, TakenForPage, OnItsWay, RequestOf
<1>10. AnswerEndsRequest'
  BY <1>2, <1>3, <1>5, <1>7 DEF HostInvariant, AnswerEndsRequest, Busy, RequestOf
<1>11. WaitsOrWithdrawn' /\ RunsOrStopped'
  BY <1>2, <1>3, <1>5, <1>7
  DEF HostInvariant, WaitsOrWithdrawn, RunsOrStopped, Streams, RequestOf
<1>12. StartedWasTold'
  BY <1>2, <1>3, <1>5, <1>7 DEF HostInvariant, StartedWasTold
<1> QED
  BY <1>2, <1>3, <1>6, <1>8, <1>9, <1>10, <1>11, <1>12 DEF HostInvariant, PageInvariant

-----------------------------------------------------------------------------
(* The host executes the request *)

\* The page has asked for the execution of its authorization.
LEMMA ExecutingPage ==
    ASSUME RunnerInvariant, op.await = "executing"
    PROVE  /\ PageFollows(op) /\ op \in Operation /\ Trying(op.await)
           /\ Current \in Requests /\ asked \subseteq Requests
           /\ op.queue = << >> /\ op.started = FALSE /\ op.answer = "none"
           /\ \A t \in Threads : ~OnItsWay(t) /\ (Streams(t) => RequestOf(t) \in asked)
           /\ \A p \in pending : p.request = Current \/ p.request \in asked \cup cancel
           /\ \A r \in Requests : r >= Current => Untouched(r)
<1>1. Trying(op.await)
  BY DEF Trying
<1>2. Current \in Requests /\ PageFollows(op) /\ op \in Operation /\ HostInvariant
  BY <1>1, CurrentIsRequest DEF RunnerInvariant, PageInvariant, PageFollows
<1>3. op.queue = << >> /\ ~op.started /\ op.answer = "none" /\ op.started \in BOOLEAN
  BY <1>2 DEF HostInvariant, AnswerEndsRequest, Operation
<1>4. op.started = FALSE
  BY <1>3, Zenon
<1>5. \A r \in Requests : r >= Current => Untouched(r)
  BY <1>2, RunnerConstants DEF HostInvariant, HostFollows
<1>6. \A p \in pending : p.request = Current \/ p.request \in asked \cup cancel
  BY <1>2 DEF HostInvariant, WaitsOrWithdrawn
<1>7. asked \subseteq Requests
  BY <1>2 DEF HostInvariant
<1> QED  BY <1>1, <1>2, <1>3, <1>4, <1>5, <1>6, <1>7, HostIsQuiet

LEMMA RefusedKeeps ==
    ASSUME RunnerInvariant, op.await = "executing", op' = Refused,
           pending' \subseteq pending, \A q \in pending' : q.request # Current,
           UNCHANGED <<asked, call, cancel, told, sentOut>>
    PROVE  PageInvariant' /\ HostInvariant'
<1>1. StaysEffect(op', op, "waiting", << >>, FALSE, "failed")
  BY ExecutingPage, RefusedStays
<1>2. PageFollows(op')
  BY <1>1, ExecutingPage, PageKept DEF StaysEffect, Trying
<1>3. /\ Current' = Current /\ op'.attempts = op.attempts /\ op'.await = "waiting"
      /\ op'.queue = << >> /\ ~op'.started /\ HostInvariant
  BY <1>1 DEF StaysEffect, KeptEffect, Current, RunnerInvariant
<1>4. HostFollows'
  BY <1>3 DEF HostInvariant, HostFollows, Untouched, Busy, RequestOf
<1>5. TakenForPage' /\ RunsOrStopped'
  BY <1>3, ExecutingPage DEF TakenForPage, OnItsWay, RunsOrStopped, Streams, RequestOf
<1>6. AnswerEndsRequest'
  <2>1. Current \in Requests /\ Current >= Current
    BY ExecutingPage, RunnerConstants
  <2>2. \A t \in Threads : Busy(t) => RequestOf(t) # Current
    BY <2>1, ExecutingPage DEF Untouched
  <2> QED  BY <1>3, <2>2 DEF AnswerEndsRequest, Busy, RequestOf
<1>7. WaitsOrWithdrawn'
  BY <1>3, ExecutingPage DEF WaitsOrWithdrawn
<1>8. StartedWasTold'
  BY <1>3 DEF HostInvariant, StartedWasTold
<1> QED
  BY <1>2, <1>3, <1>4, <1>5, <1>6, <1>7, <1>8 DEF HostInvariant, PageInvariant

LEMMA TakenKeeps ==
    ASSUME RunnerInvariant, op.await = "executing", op' = [op EXCEPT !.await = "waiting"],
           NEW t \in Threads, NEW p \in pending, p.request = Current, ~Busy(t),
           pending' = pending \ {p},
           call' = [call EXCEPT ![t] =
                       [ stage |-> "taken", auth |-> p, control |-> "active",
                         answered |-> FALSE, outcome |-> "none" ]],
           UNCHANGED <<asked, cancel, told, sentOut>>
    PROVE  PageInvariant' /\ HostInvariant'
<1>1. "waiting" \in Awaits
  BY DEF Awaits
<1>2. StaysEffect(op', op, "waiting", << >>, FALSE, "none")
  BY <1>1, ExecutingPage, AwaitStays
<1>3. PageFollows(op')
  BY <1>2, ExecutingPage, PageKept DEF StaysEffect, Trying
<1>4. /\ Current' = Current /\ op'.attempts = op.attempts /\ op'.await = "waiting"
      /\ op'.queue = << >> /\ ~op'.started /\ op'.answer = "none" /\ HostInvariant
  BY <1>2 DEF StaysEffect, KeptEffect, Current, RunnerInvariant
<1>5. /\ \A u \in Threads \ {t} : call'[u] = call[u]
      /\ call'[t].stage = "taken" /\ call'[t].auth = p
  BY DEF RunnerInvariant, GatewayInvariant, MgTypeOK
<1>6. /\ \A u \in Threads : Busy(u)' => Busy(u) \/ u = t
      /\ \A u \in Threads \ {t} :
            /\ Busy(u)' <=> Busy(u)
            /\ OnItsWay(u)' <=> OnItsWay(u)
            /\ Streams(u)' <=> Streams(u)
            /\ RequestOf(u)' = RequestOf(u)
      /\ RequestOf(t)' = Current /\ ~Streams(t)'
  BY <1>5 DEF Busy, OnItsWay, Streams, RequestOf
<1>7. HostFollows'
  <2> SUFFICES ASSUME NEW r \in Requests, r > Current PROVE Untouched(r)'
    BY <1>4 DEF HostFollows
  <2>1. Untouched(r) /\ r # Current
    BY <1>4, ExecutingPage, RunnerConstants DEF HostInvariant, HostFollows
  <2> QED  BY <1>6, <2>1 DEF Untouched
<1>8. TakenForPage'
  BY <1>4, <1>6, ExecutingPage DEF TakenForPage
<1>9. AnswerEndsRequest'
  BY <1>4 DEF AnswerEndsRequest
<1>10. RunsOrStopped'
  BY <1>6, ExecutingPage DEF RunsOrStopped
<1>11. WaitsOrWithdrawn'
  <2>1. \A q \in pending' : q \in pending /\ q.request # Current
    BY DEF RunnerInvariant, GatewayInvariant, OnePlace
  <2> QED  BY <2>1, ExecutingPage DEF WaitsOrWithdrawn
<1>12. StartedWasTold'
  BY <1>4 DEF HostInvariant, StartedWasTold
<1> QED
  BY <1>3, <1>4, <1>7, <1>8, <1>9, <1>10, <1>11, <1>12 DEF HostInvariant, PageInvariant

LEMMA HostTakesKeeps ==
    ASSUME RunnerInvariant, HostTakes
    PROVE  PageInvariant' /\ HostInvariant'
<1>1. op.await = "executing" /\ UNCHANGED <<asked, told, sentOut>>
  BY DEF HostTakes
<1>2. CASE \E p \in pending, t \in Threads :
             /\ p.request = Current /\ Take(t, p)
             /\ op' = IF Usable(p) THEN [op EXCEPT !.await = "waiting"] ELSE Refused
  <2>1. PICK p \in pending, t \in Threads :
          /\ p.request = Current /\ Take(t, p)
          /\ op' = IF Usable(p) THEN [op EXCEPT !.await = "waiting"] ELSE Refused
    BY <1>2
  <2>2. pending' = pending \ {p} /\ ~Busy(t) /\ UNCHANGED cancel
    BY <2>1 DEF Take
  <2>3. CASE Usable(p)
    <3>1. call' = [call EXCEPT ![t] =
                      [ stage |-> "taken", auth |-> p, control |-> "active",
                        answered |-> FALSE, outcome |-> "none" ]]
      BY <2>1, <2>3 DEF Take
    <3>2. op' = [op EXCEPT !.await = "waiting"]
      BY <2>1, <2>3, Zenon
    <3> QED  BY <1>1, <2>1, <2>2, <3>1, <3>2, TakenKeeps
  <2>4. CASE ~Usable(p)
    <3>1. UNCHANGED call /\ op' = Refused
      BY <2>1, <2>4, Zenon DEF Take
    <3>2. \A q \in pending' : q.request # Current
      BY <2>1, <2>2 DEF RunnerInvariant, GatewayInvariant, OnePlace
    <3> QED  BY <1>1, <2>2, <3>1, <3>2, RefusedKeeps
  <2> QED  BY <2>3, <2>4
<1>3. CASE /\ ~session.open \/ {p \in pending : p.request = Current} = {}
           /\ op' = Refused /\ UNCHANGED mgVars
  <2>1. UNCHANGED <<pending, call, cancel>>
    BY <1>3 DEF mgVars
  <2>2. \A q \in pending : q.request # Current
    BY <1>3 DEF RunnerInvariant, GatewayInvariant, ClosedProjectRunsNothing
  <2> QED  BY <1>1, <1>3, <2>1, <2>2, RefusedKeeps
<1> QED  BY <1>2, <1>3 DEF HostTakes

LEMMA HostRegistersKeeps ==
    ASSUME RunnerInvariant, HostRegisters
    PROVE  PageInvariant' /\ HostInvariant'
<1>1. PICK t \in Threads : Register(t) /\ sentOut' = sentOut \cup {RequestOf(t)}
  BY DEF HostRegisters
<1>2. /\ UNCHANGED <<pending, cancel, op, asked, told>>
      /\ OnItsWay(t) /\ call' = [call EXCEPT ![t].stage = "streaming"]
  BY <1>1 DEF HostRegisters, Register, OnItsWay
<1>3. Busy(t) /\ call[t] \in Call /\ RequestOf(t) \in Requests
  BY <1>2, HostThreads
<1>4. /\ op.await = "waiting" /\ RequestOf(t) = Current
      /\ HostInvariant /\ PageInvariant
  BY <1>2 DEF RunnerInvariant, HostInvariant, TakenForPage
<1>5. /\ \A u \in Threads \ {t} : call'[u] = call[u]
      /\ call'[t].stage = "streaming" /\ call'[t].auth = call[t].auth
  BY <1>2, <1>3 DEF RunnerInvariant, GatewayInvariant, MgTypeOK, Call
<1>6. /\ \A u \in Threads : RequestOf(u)' = RequestOf(u)
      /\ \A u \in Threads : OnItsWay(u)' => OnItsWay(u)
      /\ \A u \in Threads : Busy(u)' => Busy(u)
      /\ \A u \in Threads \ {t} : Streams(u)' => Streams(u)
  BY <1>3, <1>5 DEF Busy, OnItsWay, Streams, RequestOf
<1>7. Current' = Current
  BY <1>2 DEF Current
<1>8. HostFollows'
  <2> SUFFICES ASSUME NEW r \in Requests, r > Current PROVE Untouched(r)'
    BY <1>2, <1>4, <1>7 DEF HostFollows
  <2>1. Untouched(r) /\ r # RequestOf(t)
    BY <1>4, RunnerConstants DEF HostInvariant, HostFollows
  <2> QED  BY <1>1, <1>2, <1>6, <2>1 DEF Untouched
<1>9. TakenForPage' /\ AnswerEndsRequest'
  BY <1>2, <1>4, <1>6, <1>7 DEF HostInvariant, TakenForPage, AnswerEndsRequest
<1>10. WaitsOrWithdrawn' /\ RunsOrStopped'
  BY <1>2, <1>4, <1>6, <1>7 DEF HostInvariant, WaitsOrWithdrawn, RunsOrStopped
<1>11. StartedWasTold'
  BY <1>2, <1>4, <1>7 DEF HostInvariant, StartedWasTold
<1> QED
  BY <1>1, <1>2, <1>3, <1>4, <1>8, <1>9, <1>10, <1>11 DEF HostInvariant, PageInvariant

\* A thread is done, and its command is answered.
LEMMA AnsweredKeeps ==
    ASSUME RunnerInvariant, NEW t \in Threads, Busy(t), call' = [call EXCEPT ![t] = Idle],
           NEW answer \in Answers \ {"none"}, Answered(t, answer),
           UNCHANGED <<pending, asked, cancel, told, sentOut>>
    PROVE  PageInvariant' /\ HostInvariant'
<1> DEFINE heard == op.await = "waiting" /\ RequestOf(t) = Current
<1>1. PageFollows(op) /\ op \in Operation /\ HostInvariant
  BY DEF RunnerInvariant, PageInvariant, PageFollows
<1>2. (heard => op' = [op EXCEPT !.answer = answer]) /\ (~heard => op' = op)
  BY Zenon DEF Answered
<1>3. /\ KeptEffect(op', op) /\ op'.await = op.await
      /\ op'.queue = op.queue /\ op'.started = op.started
      /\ heard \/ op'.answer = op.answer
  <2>1. CASE heard
    <3>1. StaysEffect([op EXCEPT !.answer = answer], op, op.await, op.queue, op.started, answer)
      BY <1>1, AnswerStays
    <3> QED  BY <1>2, <2>1, <3>1 DEF StaysEffect
  <2>2. CASE ~heard
    BY <1>1, <1>2, <2>2 DEF KeptEffect, SameRun
  <2> QED  BY <2>1, <2>2
<1>4. PageFollows(op')
  BY <1>1, <1>3, PageKept
<1>5. Current' = Current /\ op'.attempts = op.attempts
  BY <1>3 DEF KeptEffect, Current
<1>6. (\A u \in Threads \ {t} : call'[u] = call[u]) /\ call'[t].stage = "idle"
  BY DEF RunnerInvariant, GatewayInvariant, MgTypeOK, Idle
<1>7. \A u \in Threads :
         /\ Busy(u)' => u # t /\ Busy(u) /\ RequestOf(u)' = RequestOf(u)
         /\ OnItsWay(u)' => u # t /\ OnItsWay(u)
         /\ Streams(u)' => Streams(u)
  BY <1>6 DEF Busy, OnItsWay, Streams, RequestOf
<1>8. \A u \in Threads : (OnItsWay(u)' => Busy(u)') /\ (Streams(u)' => Busy(u)')
  BY DEF Busy, OnItsWay, Streams
<1>9. \A u \in Threads : u # t /\ Busy(u) => RequestOf(u) # RequestOf(t)
  BY HostThreads
<1>10. HostFollows'
  BY <1>1, <1>3, <1>5, <1>7 DEF HostInvariant, HostFollows, Untouched
<1>11. TakenForPage'
  <2>1. \A u \in Threads : OnItsWay(u)' => ~heard
    BY <1>1, <1>7, <1>9, HostThreads DEF HostInvariant, TakenForPage
  <2> QED  BY <1>1, <1>3, <1>5, <1>7, <1>8, <2>1 DEF HostInvariant, TakenForPage
<1>12. AnswerEndsRequest'
  BY <1>1, <1>3, <1>5, <1>7, <1>9 DEF HostInvariant, AnswerEndsRequest
<1>13. WaitsOrWithdrawn' /\ RunsOrStopped'
  BY <1>1, <1>3, <1>5, <1>7, <1>8 DEF HostInvariant, WaitsOrWithdrawn, RunsOrStopped
<1>14. StartedWasTold'
  BY <1>1, <1>3, <1>5 DEF HostInvariant, StartedWasTold
<1> QED
  BY <1>1, <1>4, <1>10, <1>11, <1>12, <1>13, <1>14 DEF HostInvariant, PageInvariant

LEMMA HostRefusesKeeps ==
    ASSUME RunnerInvariant, HostRefuses
    PROVE  PageInvariant' /\ HostInvariant'
<1>1. PICK t \in Threads : PrepareFails(t) /\ Answered(t, "failed")
  BY DEF HostRefuses
<1>2. /\ Busy(t) /\ call' = [call EXCEPT ![t] = Idle]
      /\ UNCHANGED <<pending, asked, cancel, told, sentOut>>
  BY <1>1 DEF HostRefuses, PrepareFails, Busy
<1>3. "failed" \in Answers \ {"none"}
  BY DEF Answers
<1> QED  BY <1>1, <1>2, <1>3, AnsweredKeeps

LEMMA HostReturnsKeeps ==
    ASSUME RunnerInvariant, HostReturns
    PROVE  PageInvariant' /\ HostInvariant'
<1>1. PICK t \in Threads :
        Return(t) /\ \E answer \in AnswersTo(call[t].outcome) : Answered(t, answer)
  BY DEF HostReturns
<1>2. /\ Busy(t) /\ call' = [call EXCEPT ![t] = Idle]
      /\ UNCHANGED <<pending, asked, cancel, told, sentOut>>
  BY <1>1 DEF HostReturns, Return, Busy
<1>3. PICK answer \in AnswersTo(call[t].outcome) : Answered(t, answer)
  BY <1>1
<1>4. call[t].outcome \in {"ok", "failed", "cancelled", "timed_out"}
  <2>1. call[t] \in Call /\ call[t].stage = "returning" /\ call[t].outcome # "none"
    BY <1>1, <1>2, HostThreads
    DEF Return, RunnerInvariant, GatewayInvariant, StoppedStays, EndsAsStopped
  <2> QED  BY <2>1 DEF Call
<1>5. answer \in Answers \ {"none"}
  BY <1>3, <1>4 DEF AnswersTo, Answers
<1> QED  BY <1>2, <1>3, <1>5, AnsweredKeeps

\* The host goes on by itself: threads stream, end or stop, authorizations are
\* dropped or expire.
LEMMA HostMoves ==
    ASSUME RunnerInvariant, UNCHANGED <<op, asked, told, sentOut, cancel>>,
           \A t \in Threads :
              /\ Busy(t)' => Busy(t) /\ RequestOf(t)' = RequestOf(t)
              /\ OnItsWay(t)' => OnItsWay(t)
              /\ Streams(t)' => Streams(t),
           \A p \in pending' : \E q \in pending : p.request = q.request
    PROVE  PageInvariant' /\ HostInvariant'
<1>1. PageInvariant' /\ HostInvariant /\ Current' = Current
  BY DEF RunnerInvariant, PageInvariant, Current
<1>2. \A t \in Threads : (OnItsWay(t)' => Busy(t)') /\ (Streams(t)' => Busy(t)')
  BY DEF Busy, OnItsWay, Streams
<1>3. HostFollows'
  BY <1>1 DEF HostInvariant, HostFollows, Untouched
<1>4. TakenForPage' /\ AnswerEndsRequest'
  BY <1>1, <1>2 DEF HostInvariant, TakenForPage, AnswerEndsRequest
<1>5. RunsOrStopped'
  BY <1>1, <1>2 DEF HostInvariant, RunsOrStopped
<1>6. WaitsOrWithdrawn'
  BY <1>1 DEF HostInvariant, WaitsOrWithdrawn
<1>7. StartedWasTold'
  BY <1>1 DEF HostInvariant, StartedWasTold
<1> QED  BY <1>1, <1>3, <1>4, <1>5, <1>6, <1>7 DEF HostInvariant

\* One thread goes on with its stream.
LEMMA OneMoves ==
    ASSUME RunnerInvariant, UNCHANGED <<op, asked, told, sentOut, cancel, pending>>,
           NEW t \in Threads, Busy(t), NEW c \in Call, call' = [call EXCEPT ![t] = c],
           c.auth = call[t].auth, c.stage # "taken",
           c.stage = "streaming" /\ c.control = "active" => Streams(t)
    PROVE  PageInvariant' /\ HostInvariant'
<1>1. (\A u \in Threads \ {t} : call'[u] = call[u]) /\ call'[t] = c
  BY DEF RunnerInvariant, GatewayInvariant, MgTypeOK
<1>2. \A u \in Threads :
         /\ Busy(u)' => Busy(u) /\ RequestOf(u)' = RequestOf(u)
         /\ OnItsWay(u)' => OnItsWay(u)
         /\ Streams(u)' => Streams(u)
  BY <1>1 DEF Busy, OnItsWay, Streams, RequestOf
<1> QED  BY <1>2, HostMoves

LEMMA HostEndsKeeps ==
    ASSUME RunnerInvariant, HostEnds
    PROVE  PageInvariant' /\ HostInvariant'
<1>1. PICK t \in Threads : EndTransport(t) \/ TimeOut(t)
  BY DEF HostEnds
<1>2. UNCHANGED <<op, asked, told, sentOut, cancel, pending>>
  BY <1>1 DEF HostEnds, pageVars, EndTransport, TimeOut
<1>3. /\ Busy(t) /\ call[t] \in Call /\ EndsAsStopped(call[t])
      /\ call[t].stage \in {"streaming", "finishing", "returning"}
  BY <1>1, RegisteredThread DEF RunnerInvariant, EndTransport, TimeOut
<1>4. CASE EndTransport(t)
  <2>1. PICK o \in Outcome(call[t].control) :
          call' = [call EXCEPT ![t].outcome = o,
                               ![t].stage = IF o = "none" THEN "finishing" ELSE "returning"]
    BY <1>4 DEF EndTransport
  <2> DEFINE c == [call[t] EXCEPT !.outcome = o,
                                  !.stage = IF o = "none" THEN "finishing" ELSE "returning"]
  <2>2. o \in {"none", "failed", "cancelled", "timed_out"}
    BY <1>3, <1>4 DEF Outcome, Call, EndTransport
  <2>3. c \in Call /\ c.auth = call[t].auth /\ c.stage \in {"finishing", "returning"}
    BY <1>3, <2>2 DEF Call
  <2>4. call' = [call EXCEPT ![t] = c]
    BY <2>1 DEF RunnerInvariant, GatewayInvariant, MgTypeOK
  <2> HIDE DEF c
  <2> QED  BY <1>2, <1>3, <2>3, <2>4, OneMoves
<1>5. CASE TimeOut(t)
  <2> DEFINE c == Stop(call[t], "timed_out")
  <2>1. /\ c \in Call /\ c.auth = call[t].auth /\ c.stage = call[t].stage
        /\ c.control # "active"
    BY <1>3, StopKeeps
  <2>2. call' = [call EXCEPT ![t] = c]
    BY <1>5 DEF TimeOut, RunnerInvariant, GatewayInvariant, MgTypeOK
  <2> HIDE DEF c
  <2> QED  BY <1>2, <1>3, <2>1, <2>2, OneMoves
<1> QED  BY <1>1, <1>4, <1>5

LEMMA HostFinishesKeeps ==
    ASSUME RunnerInvariant, HostFinishes
    PROVE  PageInvariant' /\ HostInvariant'
<1>1. PICK t \in Threads : Finish(t)
  BY DEF HostFinishes
<1>2. UNCHANGED <<op, asked, told, sentOut, cancel, pending>>
  BY <1>1 DEF HostFinishes, pageVars, Finish
<1>3. Busy(t) /\ call[t] \in Call
  BY <1>1, RegisteredThread DEF RunnerInvariant, Finish
<1>4. PICK o \in {"ok", "failed"} :
        call' = [call EXCEPT ![t].stage = "returning", ![t].outcome = o]
  BY <1>1 DEF Finish
<1> DEFINE c == [call[t] EXCEPT !.stage = "returning", !.outcome = o]
<1>5. c \in Call /\ c.auth = call[t].auth /\ c.stage = "returning"
  BY <1>3 DEF Call
<1>6. call' = [call EXCEPT ![t] = c]
  BY <1>4 DEF RunnerInvariant, GatewayInvariant, MgTypeOK
<1> HIDE DEF c
<1> QED  BY <1>2, <1>3, <1>5, <1>6, OneMoves

LEMMA HostElseKeeps ==
    ASSUME RunnerInvariant, HostElse
    PROVE  PageInvariant' /\ HostInvariant'
<1>1. UNCHANGED <<op, asked, told, sentOut, cancel>>
  BY DEF HostElse, pageVars, Commit, Close, Open, Expire
<1>2. CASE (Commit \/ Open) \/ \E p \in pending : Expire(p)
  <2>1. UNCHANGED call
    BY <1>2 DEF Commit, Open, Expire
  <2>2. \A p \in pending' : \E q \in pending : p.request = q.request
    <3>1. CASE Commit \/ Open
      BY <3>1 DEF Commit, Open
    <3>2. CASE \E p \in pending : Expire(p)
      <4>1. PICK p \in pending : pending' = (pending \ {p}) \cup {[p EXCEPT !.expired = TRUE]}
        BY <3>2 DEF Expire
      <4>2. p \in Pending
        BY DEF RunnerInvariant, GatewayInvariant, MgTypeOK
      <4>3. [p EXCEPT !.expired = TRUE].request = p.request
        BY <4>2 DEF Pending
      <4> QED  BY <4>1, <4>3
    <3> QED  BY <1>2, <3>1, <3>2
  <2>3. \A t \in Threads :
           /\ Busy(t)' => Busy(t) /\ RequestOf(t)' = RequestOf(t)
           /\ OnItsWay(t)' => OnItsWay(t)
           /\ Streams(t)' => Streams(t)
    BY <2>1 DEF Busy, OnItsWay, Streams, RequestOf
  <2> QED  BY <1>1, <2>2, <2>3, HostMoves
<1>3. CASE Close
  <2>1. pending' = {}
    BY <1>3 DEF Close, CancelAll
  <2>2. ASSUME NEW t \in Threads
        PROVE  /\ Busy(t)' => Busy(t) /\ RequestOf(t)' = RequestOf(t)
               /\ OnItsWay(t)' => OnItsWay(t)
               /\ Streams(t)' => Streams(t)
    <3>1. call'[t] = IF Busy(t) /\ active[RequestOf(t)] = t
                     THEN Stop(call[t], "cancelled") ELSE call[t]
      BY <1>3 DEF Close, CancelAll
    <3>2. CASE call'[t] = call[t]
      BY <3>2 DEF Busy, OnItsWay, Streams, RequestOf
    <3>3. CASE Busy(t) /\ call'[t] = Stop(call[t], "cancelled")
      <4>1. call[t] \in Call
        BY <3>3, HostThreads
      <4>2. /\ call'[t].auth = call[t].auth /\ call'[t].stage = call[t].stage
            /\ call'[t].control # "active"
        BY <3>3, <4>1 DEF Stop, Call
      <4> QED  BY <3>3, <4>2 DEF Busy, OnItsWay, Streams, RequestOf
    <3> QED  BY <3>1, <3>2, <3>3
  <2> QED  BY <1>1, <2>1, <2>2, HostMoves
<1> QED  BY <1>2, <1>3 DEF HostElse

LEMMA HostCancelsKeeps ==
    ASSUME RunnerInvariant, HostCancels
    PROVE  PageInvariant' /\ HostInvariant'
<1>1. UNCHANGED <<op, told, sentOut>>
  BY DEF HostCancels
<1>2. PageInvariant' /\ HostInvariant /\ Current' = Current
  BY <1>1 DEF RunnerInvariant, PageInvariant, Current
<1>3. PICK r \in Requests : \/ r \in asked /\ CancelActive(r) /\ asked' = asked \ {r}
                            \/ CancelPending(r) /\ UNCHANGED asked
  BY DEF HostCancels
<1>4. CASE r \in asked /\ CancelActive(r) /\ asked' = asked \ {r}
  <2> DEFINE t == active[r]
  <2>1. /\ UNCHANGED pending /\ cancel' = cancel \cup {r}
        /\ \/ t = NoThread /\ UNCHANGED call
           \/ t # NoThread /\ call' = [call EXCEPT ![t] = CancelStream(call[t])]
    BY <1>4 DEF CancelActive
  <2>2. \A u \in Threads : Registered(u) /\ RequestOf(u) = r => t = u
    BY DEF RunnerInvariant, GatewayInvariant, ActiveIsRegistered
  <2>3. \A u \in Threads : Streams(u) => Registered(u)
    BY DEF Streams, Registered, Busy, OnItsWay
  <2>4. ASSUME NEW u \in Threads
        PROVE  /\ Busy(u)' => Busy(u)
               /\ RequestOf(u)' = RequestOf(u)
               /\ OnItsWay(u)' => OnItsWay(u)
               /\ Streams(u)' => Streams(u) /\ RequestOf(u) # r
    <3>1. CASE t # NoThread /\ u = t
      <4>1. Registered(t) /\ RequestOf(t) = r /\ t \in Threads
        BY <3>1 DEF RunnerInvariant, GatewayInvariant, ActiveIsRegistered, MgTypeOK
      <4>2. call[t] \in Call /\ call[t].stage # "taken" /\ EndsAsStopped(call[t]) /\ Busy(t)
        BY <4>1, HostThreads
        DEF Registered, OnItsWay, RunnerInvariant, GatewayInvariant, StoppedStays
      <4>3. call'[t] = CancelStream(call[t])
        BY <2>1, <3>1, <4>1 DEF RunnerInvariant, GatewayInvariant, MgTypeOK
      <4>4. /\ call'[t].auth = call[t].auth /\ call'[t].stage # "taken"
            /\ call'[t].control # "active"
        BY <4>2, <4>3, CancelKeepsStopped
      <4> QED  BY <3>1, <4>2, <4>4 DEF Busy, RequestOf, OnItsWay, Streams
    <3>2. CASE t = NoThread \/ u # t
      <4>1. call'[u] = call[u]
        BY <2>1, <3>2 DEF RunnerInvariant, GatewayInvariant, MgTypeOK
      <4>2. Streams(u) => RequestOf(u) # r
        BY <2>2, <2>3, <3>2, NoThreadIsNone
      <4> QED  BY <4>1, <4>2 DEF Busy, RequestOf, OnItsWay, Streams
    <3> QED  BY <3>1, <3>2
  <2>5. \A u \in Threads : (OnItsWay(u)' => Busy(u)') /\ (Streams(u)' => Busy(u)')
    BY DEF Busy, OnItsWay, Streams
  <2>6. HostFollows' /\ TakenForPage' /\ AnswerEndsRequest'
    BY <1>1, <1>2, <2>4, <2>5
    DEF HostInvariant, HostFollows, Untouched, TakenForPage, AnswerEndsRequest
  <2>7. WaitsOrWithdrawn' /\ RunsOrStopped'
    BY <1>1, <1>2, <1>4, <2>1, <2>4 DEF HostInvariant, WaitsOrWithdrawn, RunsOrStopped
  <2>8. StartedWasTold'
    BY <1>1, <1>2 DEF HostInvariant, StartedWasTold
  <2>9. asked' \subseteq Requests /\ told' \subseteq Requests /\ sentOut' \subseteq Requests
    BY <1>1, <1>2, <1>4 DEF HostInvariant
  <2> QED  BY <1>2, <2>6, <2>7, <2>8, <2>9 DEF HostInvariant
<1>5. CASE CancelPending(r) /\ UNCHANGED asked
  <2>1. /\ UNCHANGED call /\ cancel' = cancel \ {r}
        /\ \/ {p \in pending : p.request = r} = {} /\ UNCHANGED pending
           \/ \E p \in pending : p.request = r /\ pending' = pending \ {p}
    BY <1>5 DEF CancelPending
  <2>2. \A p \in pending' : p \in pending /\ p.request # r
    BY <2>1 DEF RunnerInvariant, GatewayInvariant, OnePlace
  <2>3. HostFollows' /\ TakenForPage' /\ AnswerEndsRequest'
    BY <1>1, <1>2, <2>1
    DEF HostInvariant, HostFollows, Untouched, TakenForPage, AnswerEndsRequest, OnItsWay,
        Busy, RequestOf
  <2>4. WaitsOrWithdrawn' /\ RunsOrStopped'
    BY <1>1, <1>2, <1>5, <2>1, <2>2
    DEF HostInvariant, WaitsOrWithdrawn, RunsOrStopped, Streams, RequestOf
  <2>5. StartedWasTold'
    BY <1>1, <1>2 DEF HostInvariant, StartedWasTold
  <2> QED  BY <1>1, <1>2, <1>5, <2>3, <2>4, <2>5 DEF HostInvariant
<1> QED  BY <1>3, <1>4, <1>5

-----------------------------------------------------------------------------
(* The bundle *)

\* What the page sends is a bundle the store can look at.
LEMMA BundleIsBundle ==
    ASSUME PageInvariant, Over(op.await)
    PROVE  /\ BundleOf(op) \in Bundle
           /\ LET e == BundleOf(op).lifecycle IN
              /\ Len(e) = Len(op.states) - 1
              /\ \A i \in 1 .. Len(op.states) - 1 :
                    e[i].from = op.states[i] /\ e[i].to = op.states[i + 1]
<1> DEFINE n == Len(op.states) - 1
           e == [i \in 1 .. n |-> [from |-> op.states[i], to |-> op.states[i + 1]]]
<1>1. /\ op \in Operation /\ op.base \in Commits /\ op.attempts \in Seq(Attempt)
      /\ op.states \in Seq(OperationStates) /\ n \in Nat
      /\ \A i \in 1 .. n : op.states[i] \in OperationStates /\ op.states[i + 1] \in OperationStates
      /\ Last(op.states) \in OperationStates
      /\ op.artifact \in {"none", "patch_proposal", "findings"}
  <2>1. /\ op \in Operation /\ Walks(op.states) /\ ArtifactFollows(op) /\ op.await # "idle"
    BY DEF PageInvariant, PageFollows, LifecycleFollows, Over
  <2>2. op.states \in Seq(OperationStates) /\ Len(op.states) \in 1 .. 7
    BY <2>1 DEF Walks
  <2>3. /\ n \in Nat /\ Len(op.states) \in 1 .. Len(op.states)
        /\ \A i \in 1 .. n : i \in 1 .. Len(op.states) /\ i + 1 \in 1 .. Len(op.states)
    <3> DEFINE k == Len(op.states)
    <3>1. k \in 1 .. 7
      BY <2>2
    <3> HIDE DEF k
    <3>2. k \in Nat /\ k > 0
      BY <3>1
    <3>3. \A i \in 1 .. k - 1 : i \in 1 .. k /\ i + 1 \in 1 .. k
      BY <3>2
    <3> QED  BY <3>2, <3>3 DEF k
  <2>4. op.states[Len(op.states)] \in OperationStates
    BY <2>2, <2>3
  <2> QED  BY <2>1, <2>2, <2>3, <2>4 DEF Operation, ArtifactFollows, Last
<1>2. \A i \in 1 .. n :
         e[i] \in Transition /\ e[i].from = op.states[i] /\ e[i].to = op.states[i + 1]
  BY <1>1 DEF Transition
<1>3. e \in [1 .. n -> Transition]
  BY <1>2
<1>4. BundleOf(op).lifecycle = e
  BY DEF BundleOf
<1> HIDE DEF e
<1>5. e \in Seq(Transition) /\ Len(e) = n
  <2>1. n \in Nat
    BY <1>1
  <2> HIDE DEF n
  <2>2. e \in Seq(Transition)
    BY <1>3, <2>1, SeqDef, Zenon
  <2>3. Len(e) \in Nat /\ e \in [1 .. Len(e) -> Transition] /\ DOMAIN e = 1 .. Len(e)
    BY <2>2, LenProperties
  <2>4. 1 .. n = 1 .. Len(e)
    BY <1>3, <2>3
  <2> DEFINE m == Len(e)
  <2>5. m \in Nat /\ 1 .. n = 1 .. m
    BY <2>3, <2>4
  <2> HIDE DEF m
  <2>6. m = n
    BY <2>1, <2>5
  <2> QED  BY <2>2, <2>6 DEF m
<1>6. BundleOf(op) \in Bundle
  <2>1. /\ (op.artifact # "none") \in BOOLEAN /\ (op.artifact = "none") \in BOOLEAN
        /\ (IF op.packet THEN op.base ELSE NoCommit) \in Commits \cup {NoCommit}
        /\ op.bounded \in BOOLEAN
    BY <1>1 DEF Operation
  <2>2. BundleOf(op) = [ state |-> Last(op.states), base |-> op.base,
                         packet |-> IF op.packet THEN op.base ELSE NoCommit,
                         artifact |-> op.artifact, response |-> op.artifact # "none",
                         failure |-> op.artifact = "none", bounded |-> op.bounded,
                         lifecycle |-> e,
                         attempts |-> op.attempts ]
    BY DEF BundleOf, e
  <2> QED  BY <1>1, <1>5, <2>1, <2>2 DEF Bundle
<1> QED  BY <1>2, <1>4, <1>5, <1>6

-----------------------------------------------------------------------------
(* The whole step *)

\* What every step but the recording of the run leaves to the record.
RecordStays == UNCHANGED opVars /\ (op' = op \/ op.await # "done")

LEMMA PageStep ==
    ASSUME RunnerInvariant, Start \/ Compiled \/ PageGoesOn \/ Abort
    PROVE  PageInvariant' /\ HostInvariant' /\ RecordStays /\ UNCHANGED mgVars
<1>1. CASE Start
  BY <1>1, StartKeeps DEF Start, RecordStays
<1>2. CASE Compiled
  BY <1>2, CompiledKeeps DEF Compiled, RecordStays
<1>3. CASE Checked
  BY <1>3, CheckedKeeps DEF Checked, RecordStays
<1>4. CASE Authorized
  BY <1>4, AuthorizedKeeps DEF Authorized, RecordStays
<1>5. CASE Withdrawn
  BY <1>5, WithdrawnKeeps DEF Withdrawn, RecordStays
<1>6. CASE Consume
  BY <1>6, ConsumeKeeps DEF Consume, RecordStays
<1>7. CASE StreamEnds
  BY <1>7, StreamEndsKeeps DEF StreamEnds, RecordStays
<1>8. CASE Awake
  BY <1>8, AwakeKeeps DEF Awake, RecordStays
<1>9. CASE Proposed
  BY <1>9, ProposedKeeps DEF Proposed, RecordStays
<1>10. CASE Abort
  BY <1>10, AbortKeeps DEF Abort, RecordStays
<1> QED
  BY <1>1, <1>2, <1>3, <1>4, <1>5, <1>6, <1>7, <1>8, <1>9, <1>10 DEF PageGoesOn

LEMMA HostStep ==
    ASSUME RunnerInvariant,
           \/ HostAuthorizes \/ HostTakes \/ HostRegisters \/ HostRefuses \/ HostReturns
           \/ HostEmits \/ HostEnds \/ HostFinishes \/ HostCancels \/ HostElse
    PROVE  PageInvariant' /\ HostInvariant' /\ RecordStays /\ [MgNext]_mgVars
<1>1. CASE HostAuthorizes
  <2>1. Current \in Requests
    BY <1>1, CurrentIsRequest DEF HostAuthorizes, RunnerInvariant, Trying
  <2>2. [MgNext]_mgVars
    BY <1>1, <2>1 DEF HostAuthorizes, MgNext
  <2> QED  BY <1>1, <2>2, HostAuthorizesKeeps DEF HostAuthorizes, RecordStays
<1>2. CASE HostTakes
  <2>1. [MgNext]_mgVars
    BY <1>2 DEF HostTakes, MgNext
  <2> QED  BY <1>2, <2>1, HostTakesKeeps DEF HostTakes, RecordStays
<1>3. CASE HostRegisters
  BY <1>3, HostRegistersKeeps DEF HostRegisters, RecordStays, MgNext
<1>4. CASE HostRefuses
  BY <1>4, HostRefusesKeeps DEF HostRefuses, Answered, RecordStays, MgNext
<1>5. CASE HostReturns
  BY <1>5, HostReturnsKeeps DEF HostReturns, Answered, RecordStays, MgNext
<1>6. CASE HostEmits
  BY <1>6, HostEmitsKeeps DEF HostEmits, Emit, RecordStays
<1>7. CASE HostEnds
  BY <1>7, HostEndsKeeps DEF HostEnds, RecordStays, MgNext, pageVars
<1>8. CASE HostFinishes
  BY <1>8, HostFinishesKeeps DEF HostFinishes, RecordStays, MgNext, pageVars
<1>9. CASE HostCancels
  BY <1>9, HostCancelsKeeps DEF HostCancels, RecordStays, MgNext
<1>10. CASE HostElse
  BY <1>10, HostElseKeeps DEF HostElse, RecordStays, MgNext, pageVars
<1> QED
  BY <1>1, <1>2, <1>3, <1>4, <1>5, <1>6, <1>7, <1>8, <1>9, <1>10

\* Nothing that was recorded changes but by a record.
LEMMA RecordsStand ==
    ASSUME AuditInvariant, RecordedAtEnd, RecordStays
    PROVE  AuditInvariant' /\ RecordedAtEnd'
<1>1. UNCHANGED <<run, review>>
  BY DEF RecordStays, opVars
<1>2. AuditInvariant'
  BY <1>1 DEF AuditInvariant, OpTypeOK, RunStateEndsLifecycle, ReviewHeadReplaysLog,
     RunFollowsReview, OutcomeMatchesRecords, Present
<1>3. RecordedAtEnd'
  BY <1>1 DEF RecordedAtEnd, RecordStays
<1> QED  BY <1>2, <1>3

\* The run is recorded, or was refused.
LEMMA RecordingKeeps ==
    ASSUME RunnerInvariant, HostPersists
    PROVE  AuditInvariant' /\ RecordedAtEnd'
<1>1. /\ op.await = "persisting" /\ op \in Operation /\ op' = [op EXCEPT !.await = "done"]
      /\ AuditInvariant /\ ThisRun \in Runs
  BY RunnerConstants DEF HostPersists, RunnerInvariant, PageInvariant, PageFollows
<1>2. op'.await = "done" /\ op'.attempts = op.attempts
  BY <1>1 DEF Operation
<1>3. run[ThisRun].state = "absent"
  BY <1>1 DEF RunnerInvariant, RecordedAtEnd
<1>4. CASE PersistOperationBundle(ThisRun, BundleOf(op), Commits)
  <2> DEFINE b == BundleOf(op)
  <2>1. b \in Bundle
    BY <1>1, BundleIsBundle DEF RunnerInvariant, Over
  <2>2. AuditInvariant'
    BY <1>1, <1>4, <2>1, PersistKeepsAudit
  <2>3. run'[ThisRun].attempts = b.attempts
    BY <1>1, <1>4 DEF PersistOperationBundle, AuditInvariant, OpTypeOK
  <2>4. b.attempts = op.attempts
    BY DEF BundleOf
  <2> QED  BY <1>2, <2>2, <2>3, <2>4 DEF RecordedAtEnd
<1>5. CASE UNCHANGED opVars
  <2>1. RecordStays
    BY <1>1, <1>5 DEF RecordStays
  <2> QED  BY <2>1, RecordsStand DEF RunnerInvariant
<1> QED  BY <1>4, <1>5 DEF HostPersists

LEMMA RunnerStep ==
    ASSUME RunnerInvariant, [RnNext]_rnVars
    PROVE  RunnerInvariant'
<1>1. CASE Start \/ Compiled \/ PageGoesOn \/ Abort
  <2>1. PageInvariant' /\ HostInvariant' /\ RecordStays /\ UNCHANGED mgVars
    BY <1>1, PageStep
  <2> QED  BY <2>1, RecordsStand, GatewayStep DEF RunnerInvariant
<1>2. CASE \/ HostAuthorizes \/ HostTakes \/ HostRegisters \/ HostRefuses \/ HostReturns
           \/ HostEmits \/ HostEnds \/ HostFinishes \/ HostCancels \/ HostElse
  <2>1. PageInvariant' /\ HostInvariant' /\ RecordStays /\ [MgNext]_mgVars
    BY <1>2, HostStep
  <2> QED  BY <2>1, RecordsStand, GatewayStep DEF RunnerInvariant
<1>3. CASE HostPersists
  <2>1. UNCHANGED mgVars
    BY <1>3 DEF HostPersists
  <2> QED
    BY <1>3, <2>1, HostPersistsKeeps, RecordingKeeps, GatewayStep DEF RunnerInvariant
<1>4. CASE UNCHANGED rnVars
  <2>1. UNCHANGED <<op, asked, told, sentOut>> /\ UNCHANGED opVars /\ UNCHANGED mgVars
    BY <1>4 DEF rnVars, pageVars
  <2>2. UNCHANGED <<call, pending, cancel>>
    BY <2>1 DEF mgVars
  <2>3. \A t \in Threads :
           /\ Busy(t)' => Busy(t) /\ RequestOf(t)' = RequestOf(t)
           /\ OnItsWay(t)' => OnItsWay(t)
           /\ Streams(t)' => Streams(t)
    BY <2>2 DEF Busy, OnItsWay, Streams, RequestOf
  <2>4. PageInvariant' /\ HostInvariant'
    BY <2>1, <2>2, <2>3, HostMoves
  <2>5. RecordStays
    BY <2>1 DEF RecordStays
  <2> QED  BY <2>1, <2>4, <2>5, RecordsStand, GatewayStep DEF RunnerInvariant
<1> QED  BY <1>1, <1>2, <1>3, <1>4 DEF RnNext, HostGoesOn

LEMMA InitRunner == RnInit => RunnerInvariant
<1> SUFFICES ASSUME RnInit PROVE RunnerInvariant
  OBVIOUS
<1>1. AuditInvariant /\ GatewayInvariant
  BY InitAudit, InitGateway DEF RnInit
<1>2. op = [ await |-> "idle", states |-> <<"draft">>, base |-> NoCommit,
             packet |-> FALSE, artifact |-> "none", attempts |-> << >>,
             aborted |-> FALSE, queue |-> << >>, started |-> FALSE, answer |-> "none",
             bounded |-> TRUE ]
  BY DEF RnInit
<1>3. /\ op.await = "idle" /\ op.states = <<"draft">> /\ op.artifact = "none"
      /\ op.attempts = << >> /\ op.queue = << >> /\ ~op.started /\ op.answer = "none"
  BY <1>2
<1>4. Len(<< >>) = 0
  OBVIOUS
<1>5. PageInvariant
  <2>1. op \in Operation
    BY <1>2, EmptySeq DEF Operation, Awaits, OperationStates
  <2>2. LifecycleFollows(op.await, op.states)
    BY <1>3 DEF LifecycleFollows, Walks, EndsIn, Trying, Over, OperationStates
  <2>3. ArtifactFollows(op)
    BY <1>3 DEF ArtifactFollows, Over
  <2>4. op.attempts \in Seq(Attempt) /\ Len(op.attempts) = 0 /\ 1 .. Len(op.attempts) = {}
    BY <1>3, <1>4, EmptySeq
  <2>5. AttemptsFollow(op.await, op.attempts)
    BY <1>3, <2>4, RunnerConstants DEF AttemptsFollow, Trying
  <2> QED  BY <2>1, <2>2, <2>3, <2>5 DEF PageInvariant, PageFollows
<1>6. HostInvariant
  <2>1. \A t \in Threads : ~Busy(t) /\ ~OnItsWay(t) /\ ~Streams(t)
    BY DEF RnInit, MgInit, Busy, OnItsWay, Streams, Idle
  <2>2. pending = {} /\ asked = {} /\ told = {} /\ sentOut = {}
    BY DEF RnInit, MgInit
  <2>3. HostFollows /\ TakenForPage /\ WaitsOrWithdrawn /\ RunsOrStopped
    BY <2>1, <2>2 DEF HostFollows, Untouched, TakenForPage, WaitsOrWithdrawn, RunsOrStopped
  <2>4. AnswerEndsRequest /\ StartedWasTold
    BY <1>3, <1>4 DEF AnswerEndsRequest, StartedWasTold
  <2> QED  BY <2>2, <2>3, <2>4 DEF HostInvariant
<1>7. RecordedAtEnd
  BY RunnerConstants DEF RnInit, OpInit, AbsentRun, RecordedAtEnd
<1> QED  BY <1>1, <1>5, <1>6, <1>7 DEF RunnerInvariant

-----------------------------------------------------------------------------
(* Theorems *)

\* The runner, the gateway and the store keep the invariant together.
THEOREM RunnerInvariantHolds == RnSpec => []RunnerInvariant
<1>1. RnInit => RunnerInvariant
  BY InitRunner
<1>2. RunnerInvariant /\ [RnNext]_rnVars => RunnerInvariant'
  BY RunnerStep
<1> QED  BY <1>1, <1>2, PTL DEF RnSpec

\* Every variable of the composition keeps its type, and the page asks only for
\* requests it may make (MaxAttempts of normalizeRetryPolicy).
THEOREM RnTypeCorrect == RnSpec => []RnTypeOK
<1>1. RunnerInvariant => RnTypeOK
  <2> SUFFICES ASSUME RunnerInvariant PROVE RnTypeOK
    OBVIOUS
  <2>1. Requesting(op) => Current \in Requests
    BY CurrentIsRequest DEF RunnerInvariant, Requesting, Trying
  <2> QED
    BY <2>1 DEF RunnerInvariant, AuditInvariant, GatewayInvariant, PageInvariant, PageFollows,
       HostInvariant, RnTypeOK
<1> QED  BY <1>1, RunnerInvariantHolds, PTL

\* What the runner sends to be recorded the store accepts, but for a run that
\* is cancelled while its proposal is validated, and for one whose provider
\* answered with a value beyond the store's bounds.
THEOREM BundlesAreAccepted == RnSpec => []BundleIsAccepted
<1>1. RunnerInvariant => BundleIsAccepted
  <2> SUFFICES ASSUME RunnerInvariant, op.await = "persisting", ~CancelledWhileValidating,
                      ~OutOfBounds(op)
               PROVE  ValidBundle(BundleOf(op))
    BY DEF BundleIsAccepted
  <2> DEFINE b == BundleOf(op)
             n == Len(op.states)
  <2>1. /\ PageFollows(op) /\ op \in Operation /\ Walks(op.states) /\ ArtifactFollows(op)
        /\ AttemptsFollow(op.await, op.attempts) /\ Over(op.await)
        /\ n > 1 /\ Ends(op.states)
    BY DEF RunnerInvariant, PageInvariant, PageFollows, LifecycleFollows, Over
  <2>2. n \in 2 .. 7
    BY <2>1 DEF Walks
  <2>3. \A i \in 1 .. n - 1 : <<op.states[i], op.states[i + 1]>> \in ValidOperationTransitions
    BY <2>1, <2>2 DEF Walks, CancelledWhileValidating
  <2>4. /\ Len(b.lifecycle) = n - 1
        /\ \A i \in 1 .. n - 1 : /\ b.lifecycle[i].from = op.states[i]
                                 /\ b.lifecycle[i].to = op.states[i + 1]
    BY <2>1, BundleIsBundle DEF RunnerInvariant
  <2>5. /\ b.state = op.states[n] /\ b.base = op.base /\ b.artifact = op.artifact
        /\ b.packet = (IF op.packet THEN op.base ELSE NoCommit)
        /\ b.response = (op.artifact # "none") /\ b.failure = (op.artifact = "none")
        /\ b.attempts = op.attempts /\ b.bounded = op.bounded
    BY DEF BundleOf, Last
  <2>9. b.bounded /\ \A i \in 1 .. Len(op.attempts) : op.attempts[i].bounded
    BY <2>5 DEF OutOfBounds
  <2> HIDE DEF b, n
  <2>6. ValidLifecycle(b.lifecycle, b.state)
    <3>1. Len(b.lifecycle) \in 1 .. 64 /\ Len(b.lifecycle) \in 1 .. n - 1 /\ 1 \in 1 .. n - 1
      BY <2>2, <2>4
    <3>2. b.lifecycle[1].from = "draft"
      BY <2>1, <2>4, <3>1 DEF Walks
    <3>3. ASSUME NEW i \in 1 .. Len(b.lifecycle)
          PROVE  /\ <<b.lifecycle[i].from, b.lifecycle[i].to>> \in ValidOperationTransitions
                 /\ i > 1 => b.lifecycle[i - 1].to = b.lifecycle[i].from
      <4>1. i \in 1 .. n - 1 /\ (i > 1 => i - 1 \in 1 .. n - 1 /\ (i - 1) + 1 = i)
        BY <2>2, <2>4
      <4> QED  BY <2>3, <2>4, <4>1
    <3>4. b.lifecycle[Len(b.lifecycle)].to = b.state
      <4>1. (n - 1) + 1 = n /\ n - 1 \in 1 .. n - 1
        BY <2>2
      <4> QED  BY <2>4, <2>5, <4>1
    <3> QED  BY <3>1, <3>2, <3>3, <3>4 DEF ValidLifecycle
  <2>7. ValidAttempts(b.attempts)
    <3>1. Len(op.attempts) \in Nat /\ Len(op.attempts) <= 3
      BY <2>1, RunnerConstants DEF AttemptsFollow
    <3>2. ASSUME NEW i \in 1 .. Len(op.attempts)
          PROVE  /\ op.attempts[i].sequence = i
                 /\ ValidAttempt(op.attempts[i], i = Len(op.attempts))
      <4>4. SUFFICES /\ op.attempts[i].sequence = i
                     /\ ValidOutcome(op.attempts[i], i = Len(op.attempts))
        BY <2>9 DEF ValidAttempt
      <4>1. op.attempts[i].sequence = i
        BY <2>1, Zenon DEF AttemptsFollow
      <4>2. CASE i < Len(op.attempts)
        <5>1. Repeated(op.attempts[i])
          BY <2>1, <4>2, Zenon DEF AttemptsFollow
        <5>2. (i = Len(op.attempts)) = FALSE
          BY <3>1, <4>2
        <5> QED  BY <4>1, <5>1, <5>2, RepeatedIsValid
      <4>3. CASE ~(i < Len(op.attempts))
        <5>1. ValidOutcome(op.attempts[i], TRUE)
          BY <2>1, <4>3, Zenon DEF AttemptsFollow
        <5>2. (i = Len(op.attempts)) = TRUE
          BY <3>1, <4>3
        <5> QED  BY <4>1, <5>1, <5>2
      <4> QED  BY <4>2, <4>3
    <3> QED  BY <2>5, <3>1, <3>2 DEF ValidAttempts
  <2>8. /\ \/ /\ b.state = "review"
              /\ b.packet # NoCommit /\ b.artifact # "none" /\ b.response /\ ~b.failure
           \/ /\ b.state \in {"failed", "cancelled"}
              /\ b.artifact = "none" /\ b.failure
        /\ b.packet # NoCommit => b.packet = b.base
    <3>1. op.states[n] \in {"review", "failed", "cancelled"}
      BY <2>1 DEF Ends, n
    <3>2. (op.states[n] = "review") <=> (op.artifact # "none")
      BY <2>1 DEF ArtifactFollows, n
    <3>3. op.artifact # "none" => op.packet
      BY <2>1 DEF ArtifactFollows
    <3>4. op.base \in Commits /\ op.base # NoCommit
      BY <2>1, CommitsHaveNoNull DEF ArtifactFollows
    <3> QED  BY <2>5, <3>1, <3>2, <3>3, <3>4
  <2> QED  BY <2>6, <2>7, <2>8, <2>9 DEF ValidBundle, b
<1> QED  BY <1>1, RunnerInvariantHolds, PTL

\* An operation that is over, and whose cancel commands were carried out, has
\* left no authorization and no stream that goes on in the host.
THEOREM NothingIsLeftBehind == RnSpec => []NothingLeftBehind
<1>1. RunnerInvariant => NothingLeftBehind
  <2> SUFFICES ASSUME RunnerInvariant, op.await \in {"persisting", "done"},
                      asked = {}, cancel = {}
               PROVE  /\ pending = {}
                      /\ \A t \in Threads : call[t].stage # "taken"
                      /\ \A t \in Threads :
                            call[t].stage = "streaming" => call[t].control # "active"
    BY DEF NothingLeftBehind
  <2>1. op.await \notin {"waiting", "authorized", "executing"}
    OBVIOUS
  <2> QED
    BY <2>1 DEF RunnerInvariant, HostInvariant, WaitsOrWithdrawn, TakenForPage, RunsOrStopped,
       OnItsWay, Streams
<1> QED  BY <1>1, RunnerInvariantHolds, PTL

\* The audit of a run has an attempt for every request that went out, and says
\* that a response started only where the host told the page so.
THEOREM AuditTellsEveryRequest == RnSpec => []AuditTellsRequests
<1>1. RunnerInvariant => AuditTellsRequests
  <2> SUFFICES ASSUME RunnerInvariant, Present(ThisRun)
               PROVE  /\ sentOut \subseteq 1 .. Len(op.attempts)
                      /\ \A i \in 1 .. Len(op.attempts) :
                            op.attempts[i].responseStarted => i \in told
                      /\ run[ThisRun].attempts = op.attempts
    BY DEF AuditTellsRequests
  <2>1. op.await = "done" /\ run[ThisRun].attempts = op.attempts
    BY DEF RunnerInvariant, RecordedAtEnd, Present
  <2>2. Len(op.attempts) \in Nat /\ Current = Len(op.attempts) + 1
    BY CurrentIsRequest DEF RunnerInvariant
  <2>3. ASSUME NEW r \in sentOut PROVE r \in 1 .. Len(op.attempts)
    <3>1. r \in Requests /\ r \in 1 .. MaxAttempts
      BY RunnerConstants DEF RunnerInvariant, HostInvariant
    <3>2. ~(r >= Current)
      BY <2>1, <2>2, <3>1, RunnerConstants
      DEF RunnerInvariant, HostInvariant, HostFollows, Untouched
    <3> QED  BY <2>2, <3>1, <3>2, RunnerConstants
  <2> QED  BY <2>1, <2>3 DEF RunnerInvariant, HostInvariant, StartedWasTold
<1> QED  BY <1>1, RunnerInvariantHolds, PTL

\* To the host, the page and the audit are one of the pages it was made for:
\* what holds of every page's host (MgSpec, above) holds of this one.
THEOREM RunnerUsesGateway == RnSpec => MgInit /\ [][MgNext]_mgVars
<1>1. RunnerInvariant /\ [RnNext]_rnVars => [MgNext]_mgVars
  <2> SUFFICES ASSUME RunnerInvariant, [RnNext]_rnVars PROVE [MgNext]_mgVars
    OBVIOUS
  <2>1. CASE Start \/ Compiled \/ PageGoesOn \/ Abort
    BY <2>1, PageStep
  <2>2. CASE \/ HostAuthorizes \/ HostTakes \/ HostRegisters \/ HostRefuses \/ HostReturns
             \/ HostEmits \/ HostEnds \/ HostFinishes \/ HostCancels \/ HostElse
    BY <2>2, HostStep
  <2>3. CASE HostPersists
    BY <2>3 DEF HostPersists
  <2>4. CASE UNCHANGED rnVars
    BY <2>4 DEF rnVars
  <2> QED  BY <2>1, <2>2, <2>3, <2>4 DEF RnNext, HostGoesOn
<1>2. RnInit => MgInit
  BY DEF RnInit
<1> QED  BY <1>1, <1>2, RunnerInvariantHolds, PTL DEF RnSpec

=============================================================================
