-------------------------------- MODULE Agent --------------------------------
(***************************************************************************)
(* internal/agent: the shutdown of one server while its streams are open.  *)
(* Agent.Shutdown is called by the program on a signal, by serve when the  *)
(* multiplexer stops, and by the goroutine of setupServer when gRPC cannot *)
(* accept any more; a lock and a flag let one of them do the work.         *)
(*                                                                         *)
(* The handlers are those of module LogServer.  Starting a server, and     *)
(* what leaving means to the others, is in module Membership.              *)
(***************************************************************************)
EXTENDS LogServer

CONSTANT NoCaller

VARIABLES
  call,       \* what each caller of Shutdown is at
  lock,       \* the holder of shutdownLock
  shutdown,   \* the flag
  runs,       \* how often channel shutdowns was closed and the list begun
  member,     \* in serf's cluster?
  accepting,  \* the listener below the multiplexer is open
  graceful,   \* GracefulStop has been called
  logOpen     \* the distributed log is open

avars == <<log, leads, adrift, handler, gone, sent, inbox, offset, first,
           responses, delivered, call, lock, shutdown, runs, member,
           accepting, graceful, logOpen>>
ownVars == <<call, lock, shutdown, runs, member, accepting, graceful, logOpen>>

Callers == {"main", "serve", "setupServer"}

ASSUME NoCallerAssumption == NoCaller \notin Callers

InitAgent ==
  /\ Init
  /\ call = [g \in Callers |-> "none"]
  /\ lock = NoCaller
  /\ shutdown = FALSE
  /\ runs = 0
  /\ member = TRUE
  /\ accepting = TRUE
  /\ graceful = FALSE
  /\ logOpen = TRUE

At(g, place) == call' = [call EXCEPT ![g] = place]

\* The listener fails by itself.
ListenerFails ==
  /\ accepting
  /\ accepting' = FALSE
  /\ UNCHANGED <<svars, call, lock, shutdown, runs, member, graceful, logOpen>>

\* mux.Serve returns when the listener is closed; so does server.Serve, but
\* without an error if GracefulStop closed it.
Triggered(g) ==
  CASE g = "main"        -> TRUE
    [] g = "serve"       -> ~accepting
    [] g = "setupServer" -> ~accepting /\ ~graceful

CallShutdown(g) ==
  /\ call[g] = "none"
  /\ Triggered(g)
  /\ At(g, "waiting")
  /\ UNCHANGED <<svars, lock, shutdown, runs, member, accepting, graceful, logOpen>>

\* Wrong: the flag is not set.
EnterUnflagged(g) ==
  /\ call[g] = "waiting"
  /\ lock = NoCaller
  /\ At(g, "leave")
  /\ lock' = g
  /\ runs' = runs + 1
  /\ UNCHANGED <<svars, shutdown, member, accepting, graceful, logOpen>>

\* Wrong: the flag is looked at before the lock is taken.
EnterUnlocked(g) ==
  /\ call[g] = "waiting"
  /\ shutdown \/ lock = NoCaller
  /\ IF shutdown
     THEN At(g, "nil") /\ UNCHANGED <<lock, shutdown, runs>>
     ELSE /\ At(g, "leave")
          /\ lock' = g
          /\ shutdown' = TRUE
          /\ runs' = runs + 1
  /\ UNCHANGED <<svars, member, accepting, graceful, logOpen>>

\* The lock is held to the end of the call; a later caller finds the flag set.
Enter(g) ==
  /\ call[g] = "waiting"
  /\ lock = NoCaller
  /\ IF shutdown
     THEN At(g, "nil") /\ UNCHANGED <<lock, shutdown, runs>>
     ELSE /\ At(g, "leave")
          /\ lock' = g
          /\ shutdown' = TRUE
          /\ runs' = runs + 1
  /\ UNCHANGED <<svars, member, accepting, graceful, logOpen>>

\* Wrong: the lock is not released.
ReturnLocked(g, result) == At(g, result) /\ UNCHANGED lock

Return(g, result) == At(g, result) /\ lock' = NoCaller

\* membership.Leave; its error ends the list.
Leave(g) ==
  /\ call[g] = "leave"
  /\ \/ member' = FALSE /\ At(g, "stop") /\ UNCHANGED lock
     \/ Return(g, "error") /\ UNCHANGED member
  /\ UNCHANGED <<svars, shutdown, runs, accepting, graceful, logOpen>>

\* GracefulStop accepts no more streams and waits for those there are.
Stop(g) ==
  /\ call[g] = "stop"
  /\ accepting' = FALSE
  /\ graceful' = TRUE
  /\ At(g, "drain")
  /\ UNCHANGED <<svars, lock, shutdown, runs, member, logOpen>>

Active == {c \in Clients : handler[c] \notin {"none", "ended"}}

\* Wrong: Stop instead of GracefulStop, which does not wait.
DrainNothing(g) ==
  /\ call[g] = "drain"
  /\ At(g, "close")
  /\ UNCHANGED <<svars, lock, shutdown, runs, member, accepting, graceful, logOpen>>

Drain(g) ==
  /\ call[g] = "drain"
  /\ Active = {}
  /\ At(g, "close")
  /\ UNCHANGED <<svars, lock, shutdown, runs, member, accepting, graceful, logOpen>>

CloseLog(g) ==
  /\ call[g] = "close"
  /\ \/ logOpen' = FALSE /\ Return(g, "nil")
     \/ Return(g, "error") /\ UNCHANGED logOpen
  /\ UNCHANGED <<svars, shutdown, runs, member, accepting, graceful>>

ShutdownStep(g) == Enter(g) \/ Leave(g) \/ Stop(g) \/ Drain(g) \/ CloseLog(g)

Streams ==
  /\ \/ accepting /\ Connect
     \/ Client
     \/ logOpen /\ Raft
     \/ \E p \in Producers : ProduceStream(p)
     \/ \E c \in Consumers : ConsumeStream(c)
  /\ UNCHANGED ownVars

NextAgent ==
  \/ Streams
  \/ ListenerFails
  \/ \E g \in Callers : CallShutdown(g) \/ ShutdownStep(g)

SpecAgent == InitAgent /\ [][NextAgent]_avars

\* Goroutines keep running, handlers and callers alike.
FairSpecAgent ==
  /\ SpecAgent
  /\ \A p \in Producers : WF_avars(ProduceStream(p) /\ UNCHANGED ownVars)
  /\ \A c \in Consumers : WF_avars(ConsumeStream(c) /\ UNCHANGED ownVars)
  /\ \A g \in Callers : WF_avars(ShutdownStep(g))

(***************************************************************************)
(* Properties                                                              *)
(***************************************************************************)

TypeOKAgent ==
  /\ TypeOK
  /\ call \in [Callers -> {"none", "waiting", "leave", "stop", "drain", "close", "nil", "error"}]
  /\ lock \in Callers \cup {NoCaller}
  /\ shutdown \in BOOLEAN /\ member \in BOOLEAN
  /\ accepting \in BOOLEAN /\ graceful \in BOOLEAN /\ logOpen \in BOOLEAN

\* The log is closed under no handler: whoever calls Shutdown, and whatever
\* streams were opened in between, their calls are over by then (agent.go:288).
HandlersEndBeforeLog == ~logOpen => Active = {}

\* The list is run once, by one caller: closing the channel twice would panic
\* (agent.go:283).
ShutdownOnce ==
  /\ runs <= 1
  /\ \A g, h \in Callers :
       (g # h /\ call[g] \in {"leave", "stop", "drain", "close"}) =>
         call[h] \in {"none", "waiting", "error", "nil"}

\* Every call of Shutdown returns if all clients hang up some day; a consumer
\* that does not keeps it waiting for ever (agent.go:289).
ShutdownReturns ==
  <>(gone = Clients) =>
    \A g \in Callers : call[g] = "waiting" ~> call[g] \in {"nil", "error"}

\* "Shutdown: shuts down the agent service by gracefully switching off all
\* it's components" (agent.go:269), once, however often it is called: a call
\* that reports success has seen them switched off, unless an earlier one has
\* reported an error.
SuccessMeansDown ==
  \A g \in Callers :
    call[g] = "nil" =>
      (\E h \in Callers : call[h] = "error") \/ (~member /\ ~accepting /\ ~logOpen)

=============================================================================
