----------------------------- MODULE ModelGateway -----------------------------
(***************************************************************************)
(* The host side of a model request (optimizer-host/src/model_gateway.rs   *)
(* with the commands of src-tauri/src/lib.rs): a page asks for a one-time  *)
(* authorization, executes it, and may cancel the request by its id.       *)
(*                                                                         *)
(* Every command runs on a blocking thread of its own.  Three locks are at *)
(* work: the session mutex, held by every project command and, during an   *)
(* execution, until the request is registered; and the mutexes of the maps *)
(* pending and active, each held for one access.  An access of a map is an *)
(* action; a command that holds the session mutex throughout, and looks at *)
(* each map once, is one action.  Cancelling takes no session mutex and    *)
(* looks at active first and at pending later: two actions.                *)
(*                                                                         *)
(* This is one process.  The session mutex orders its commands, not those  *)
(* of a second process that has the same package open: that one may commit *)
(* between the comparison of the head and the registration.                *)
(*                                                                         *)
(* Abstractions.  A commit is a number that every save, and every other    *)
(* project opened, raises.  Time is the action that makes an authorization *)
(* expire or a watchdog fire.  The transport is its result; a socket       *)
(* error, a protocol error and a page that no longer listens are all a     *)
(* failure.                                                                *)
(***************************************************************************)
EXTENDS Integers, FiniteSets

CONSTANTS
    Requests,            \* request ids a page may use
    Threads,             \* threads that execute an authorization
    NoThread,            \* no thread holds the session mutex, or the request
    MaxPending,          \* MAX_PENDING_MODEL_AUTHORIZATIONS
    MaxAuthorizations,   \* bound: authorizations issued
    MaxHead              \* bound: commits and projects opened

ASSUME NoThreadIsNone == NoThread \notin Threads
ASSUME BoundsAreNatural ==
    MaxPending \in Nat /\ MaxAuthorizations \in Nat /\ MaxHead \in Nat \ {0}

VARIABLES
    session,   \* the session mutex: project open, its head, who holds the mutex
    issued,    \* authorizations issued so far; the last one's id
    pending,   \* authorizations waiting for execution
    active,    \* the thread that runs a request, per request id
    call,      \* what each execution thread is doing
    cancel     \* the request ids whose cancel command is between its two accesses

mgVars == <<session, issued, pending, active, call, cancel>>

-----------------------------------------------------------------------------
(* Values *)

Authorizations == 1 .. MaxAuthorizations

Pending == [id : Authorizations, request : Requests, base : 1 .. MaxHead, expired : BOOLEAN]

\* answered: a cancel command returned that it had stopped this stream.
Call ==
    [ stage    : {"taken", "streaming", "finishing", "returning"},
      auth     : Pending,
      control  : {"active", "cancelled", "timed_out"},
      answered : BOOLEAN,
      outcome  : {"none", "ok", "failed", "cancelled", "timed_out"} ]

Idle == [stage |-> "idle"]

Busy(t) == call[t].stage # "idle"

RequestOf(t) == call[t].auth.request

Free == session.holder = NoThread

\* The authorizations of request r that may still lead to a request.
LiveFor(r) ==
    {p.id : p \in {q \in pending : q.request = r}}
      \cup {call[t].auth.id : t \in {u \in Threads : Busy(u) /\ RequestOf(u) = r}}

-----------------------------------------------------------------------------
(* Commands that hold the session mutex throughout *)

\* Mutant of InUse: only waiting authorizations are looked at.
WaitingOnly(r, waiting) == \E p \in waiting : p.request = r

\* A request id is waiting or running already.
InUse(r, waiting) == (\E p \in waiting : p.request = r) \/ active[r] # NoThread

AtCapacity(waiting) == Cardinality(waiting) >= MaxPending

\* authorize: expired entries are dropped, even when the request is refused.
Authorize(r) ==
    LET waiting == {p \in pending : ~p.expired}
        refused == AtCapacity(waiting) \/ InUse(r, waiting)
        fresh == [id |-> issued + 1, request |-> r, base |-> session.head, expired |-> FALSE]
    IN  /\ Free /\ session.open
        /\ issued < MaxAuthorizations
        /\ \/ /\ refused
              /\ pending' = waiting
              /\ UNCHANGED issued
           \/ /\ ~refused
              /\ pending' = waiting \cup {fresh}
              /\ issued' = issued + 1
        /\ UNCHANGED <<session, active, call, cancel>>

\* open_project and create_project: the project of before, or another one.
Open ==
    /\ Free /\ ~session.open
    /\ \E head \in {session.head, session.head + 1} :
          head <= MaxHead /\ session' = [session EXCEPT !.open = TRUE, !.head = head]
    /\ UNCHANGED <<issued, pending, active, call, cancel>>

\* A command of this process that commits; another process takes no part.
Commit ==
    /\ Free /\ session.open
    /\ session.head < MaxHead
    /\ session' = [session EXCEPT !.head = @ + 1]
    /\ UNCHANGED <<issued, pending, active, call, cancel>>

\* Mutant of Stop: a watchdog or a cancel writes its state over another's.
StopAnyway(c, state) == [c EXCEPT !.control = state]

\* ModelCancellation: the first of cancel, time_out and complete wins.
Stop(c, state) == IF c.control = "active" THEN [c EXCEPT !.control = state] ELSE c

CancelAll ==
    /\ pending' = {}
    /\ call' = [t \in Threads |->
                   IF Busy(t) /\ active[RequestOf(t)] = t
                   THEN Stop(call[t], "cancelled") ELSE call[t]]

\* close_project.
Close ==
    /\ Free /\ session.open
    /\ CancelAll
    /\ session' = [session EXCEPT !.open = FALSE]
    /\ UNCHANGED <<issued, active, cancel>>

-----------------------------------------------------------------------------
(* Executing an authorization *)

\* Mutant of HoldSession: the mutex is given back after the authorization was taken.
HoldNothing(t) == UNCHANGED session

HoldSession(t) == session' = [session EXCEPT !.holder = t]

\* Mutant of Usable: the head is not compared again.
NotExpired(p) == ~p.expired

Usable(p) == ~p.expired /\ p.base = session.head

\* take_authorized_request: whatever is wrong with it, the authorization is gone.
Take(t, p) ==
    /\ Free /\ session.open
    /\ ~Busy(t)
    /\ p \in pending
    /\ pending' = pending \ {p}
    /\ \/ /\ ~Usable(p)
          /\ UNCHANGED <<session, call>>
       \/ /\ Usable(p)
          /\ HoldSession(t)
          /\ call' = [call EXCEPT ![t] =
                         [ stage |-> "taken", auth |-> p, control |-> "active",
                           answered |-> FALSE, outcome |-> "none" ]]
    /\ UNCHANGED <<issued, active, cancel>>

ReleaseSession == session' = [session EXCEPT !.holder = NoThread]

\* The endpoint is no longer trusted, or the credential is missing.
PrepareFails(t) ==
    /\ call[t].stage = "taken"
    /\ call' = [call EXCEPT ![t] = Idle]
    /\ ReleaseSession
    /\ UNCHANGED <<issued, pending, active, cancel>>

\* The request can be cancelled from here on, and ready() frees the session.
Register(t) ==
    /\ call[t].stage = "taken"
    /\ active[RequestOf(t)] = NoThread
    /\ active' = [active EXCEPT ![RequestOf(t)] = t]
    /\ call' = [call EXCEPT ![t].stage = "streaming"]
    /\ ReleaseSession
    /\ UNCHANGED <<issued, pending, cancel>>

\* Mutant of TimeOut: no watchdog is started.
NoTimeOut(t) == FALSE /\ UNCHANGED mgVars

\* The watchdog; it may come late, after the transport has returned.
TimeOut(t) ==
    /\ call[t].stage \in {"streaming", "finishing", "returning"}
    /\ call' = [call EXCEPT ![t] = Stop(@, "timed_out")]
    /\ UNCHANGED <<session, issued, pending, active, cancel>>

\* What the state of the stream makes of the transport's result; "none" goes
\* on to the last events.
Outcome(control) == IF control = "active" THEN {"none", "failed"} ELSE {control}

\* The transport has returned.  A stopped stream has an error whatever the
\* transport says.
EndTransport(t) ==
    /\ call[t].stage = "streaming"
    /\ \E o \in Outcome(call[t].control) :
          call' = [call EXCEPT ![t].outcome = o,
                               ![t].stage = IF o = "none" THEN "finishing" ELSE "returning"]
    /\ UNCHANGED <<session, issued, pending, active, cancel>>

EndStopped(t) ==
    /\ call[t].stage = "streaming" /\ call[t].control # "active"
    /\ EndTransport(t)

\* sink.finish: the last events are emitted and the summary is made.
Finish(t) ==
    /\ call[t].stage = "finishing"
    /\ \E o \in {"ok", "failed"} :
          call' = [call EXCEPT ![t].stage = "returning", ![t].outcome = o]
    /\ UNCHANGED <<session, issued, pending, active, cancel>>

\* ActiveRequestGuard: the id is removed, whoever it belongs to now.
Return(t) ==
    /\ call[t].stage = "returning"
    /\ active' = [active EXCEPT ![RequestOf(t)] = NoThread]
    /\ call' = [call EXCEPT ![t] = Idle]
    /\ UNCHANGED <<session, issued, pending, cancel>>

-----------------------------------------------------------------------------
(* Cancelling, and time *)

\* cancel returns whether it was the one that stopped the stream.
CancelStream(c) ==
    [Stop(c, "cancelled") EXCEPT
        !.answered = @ \/ (c.control = "active" /\ c.stage = "streaming")]

\* First access: a stream that runs is stopped.
CancelActive(r) ==
    LET t == active[r] IN
    /\ r \notin cancel
    /\ \/ t = NoThread /\ UNCHANGED call
       \/ t # NoThread /\ call' = [call EXCEPT ![t] = CancelStream(@)]
    /\ cancel' = cancel \cup {r}
    /\ UNCHANGED <<session, issued, pending, active>>

\* Second access: an authorization that waits is removed.
CancelPending(r) ==
    /\ r \in cancel
    /\ LET mine == {p \in pending : p.request = r} IN
       IF mine = {} THEN UNCHANGED pending
       ELSE \E p \in mine : pending' = pending \ {p}
    /\ cancel' = cancel \ {r}
    /\ UNCHANGED <<session, issued, active, call>>

\* 120 seconds have passed.
Expire(p) ==
    /\ p \in pending /\ ~p.expired
    /\ pending' = (pending \ {p}) \cup {[p EXCEPT !.expired = TRUE]}
    /\ UNCHANGED <<session, issued, active, call, cancel>>

-----------------------------------------------------------------------------

MgInit ==
    /\ session = [open |-> FALSE, head |-> 1, holder |-> NoThread]
    /\ issued = 0
    /\ pending = {}
    /\ active = [r \in Requests |-> NoThread]
    /\ call = [t \in Threads |-> Idle]
    /\ cancel = {}

MgNext ==
    \/ \E r \in Requests : Authorize(r) \/ CancelActive(r) \/ CancelPending(r)
    \/ Open \/ Commit \/ Close
    \/ \E p \in pending : Expire(p)
    \/ \E t \in Threads :
          \/ \E p \in pending : Take(t, p)
          \/ PrepareFails(t) \/ Register(t) \/ TimeOut(t) \/ EndTransport(t)
          \/ Finish(t) \/ Return(t)

\* The host's own steps go on.  The provider may be silent for ever, but a
\* transport whose handle was closed returns, and a watchdog fires.
MgFairness ==
    \A t \in Threads :
        /\ WF_mgVars(PrepareFails(t) \/ Register(t))
        /\ WF_mgVars(TimeOut(t))
        /\ WF_mgVars(EndStopped(t))
        /\ WF_mgVars(Finish(t))
        /\ WF_mgVars(Return(t))

MgSpec == MgInit /\ [][MgNext]_mgVars /\ MgFairness

-----------------------------------------------------------------------------
(* Properties *)

MgTypeOK ==
    /\ session \in [open : BOOLEAN, head : 1 .. MaxHead, holder : Threads \cup {NoThread}]
    /\ issued \in 0 .. MaxAuthorizations
    /\ pending \subseteq Pending
    /\ IsFiniteSet(pending) /\ Cardinality(pending) <= MaxPending
    /\ active \in [Requests -> Threads \cup {NoThread}]
    /\ call \in [Threads -> Call \cup {Idle}]
    /\ cancel \subseteq Requests

\* When no project is open, no authorization waits, none is on its way to the
\* network, and every stream has been told to stop (ADR 0018, decision 7: the
\* session mutex is held until the request is registered, which removes the race
\* between closing and registering).
ClosedProjectRunsNothing ==
    ~session.open =>
        /\ pending = {}
        /\ \A t \in Threads : Busy(t) =>
              call[t].stage \in {"finishing", "returning"} \/ call[t].control # "active"

\* What is on its way to the network was authorized for the commit that is the
\* head at that moment, of the project that is open (ADR 0018: requests of an old
\* head or another project do not leave the host).  Only commits of this process
\* are meant: the session mutex is its own.
HeadIsAuthorized ==
    \A t \in Threads : call[t].stage = "taken" =>
        session.open /\ session.head = call[t].auth.base

\* One holder per request id: an id that waits does not run, it waits once and
\* it runs once (ADR 0018, decision 5), and a stream is found under its id for
\* as long as it runs, so that it can be cancelled.
OneHolderPerRequest ==
    \A r \in Requests :
        /\ Cardinality(LiveFor(r)) <= 1
        /\ \A t \in Threads :
              Busy(t) /\ call[t].stage # "taken" /\ RequestOf(t) = r => active[r] = t

\* A stream that a cancel command says it stopped while it ran ends as cancelled:
\* not with a result, and not as a time-out, which a runner would retry.
StoppedEndsCancelled ==
    \A t \in Threads :
        Busy(t) /\ call[t].answered => call[t].outcome \in {"none", "cancelled"}

=============================================================================
