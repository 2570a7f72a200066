------------------------------ MODULE LogServer ------------------------------
(***************************************************************************)
(* internal/server: the gRPC service of one server, over its user log.     *)
(* Every open stream has a handler goroutine; the client at the other end  *)
(* sends without waiting and may go away at any time.  The unary calls     *)
(* Produce and Consume are what a handler does for one message.            *)
(*                                                                         *)
(* Below is DistributedLog: a record is appended by raft, through the FSM, *)
(* while the handler waits, and reads are local (module Replication).      *)
(***************************************************************************)
EXTENDS Naturals, Sequences, FiniteSets, SequencesExt

CONSTANTS
  Producers,    \* clients with a ProduceStream
  Consumers,    \* clients with a ConsumeStream
  Permitted,    \* the clients the Authorizer lets through
  Other,        \* the origin of records produced on other servers
  Offsets,      \* the offsets consumers ask for
  MaxRequests,  \* bound: messages a producer sends
  MaxOther      \* bound: records produced elsewhere

ASSUME ClientsAssumption ==
  /\ Producers \cap Consumers = {}
  /\ Permitted \subseteq Producers \cup Consumers
  /\ Other \notin Producers
ASSUME BoundsAssumption == MaxRequests \in Nat /\ MaxOther \in Nat /\ Offsets \subseteq Nat

VARIABLES
  log,        \* the user log: the record at offset o is log[o + 1]
  leads,      \* is this server raft's leader?
  adrift,     \* requests whose Append failed, that raft may yet apply
  handler,    \* per client: what its stream's handler does
  gone,       \* clients that have closed or cancelled their stream
  sent,       \* how many requests a producer has sent
  inbox,      \* requests sent that Produce has not dealt with
  offset,     \* producer: the offset Append returned; consumer: req.Offset
  first,      \* the offset a consumer asked for
  responses,  \* what a producer was answered: offsets
  delivered   \* what a consumer was sent: records

svars == <<log, leads, adrift, handler, gone, sent, inbox, offset, first,
           responses, delivered>>

Clients == Producers \cup Consumers
MaxLog  == MaxOther + MaxRequests * Cardinality(Producers)
Request == [client : Producers, n : 1..MaxRequests]
Record  == Request \cup {[client |-> Other, n |-> 0]}

Init ==
  /\ log = <<>>
  /\ leads \in BOOLEAN
  /\ adrift = {}
  /\ handler = [c \in Clients |-> "none"]
  /\ gone = {}
  /\ sent = [p \in Producers |-> 0]
  /\ inbox = [p \in Producers |-> <<>>]
  /\ first \in [Consumers -> Offsets]
  /\ offset = [c \in Clients |-> IF c \in Consumers THEN first[c] ELSE 0]
  /\ responses = [p \in Producers |-> <<>>]
  /\ delivered = [c \in Consumers |-> <<>>]

Moves(c, h) == handler' = [handler EXCEPT ![c] = h]

(***************************************************************************)
(* Clients and raft                                                        *)
(***************************************************************************)

\* A new stream: gRPC starts its handler.
Open(c) ==
  /\ handler[c] = "none" /\ c \notin gone
  /\ Moves(c, IF c \in Producers THEN "receive" ELSE "loop")
  /\ UNCHANGED <<log, leads, adrift, gone, sent, inbox, offset, first,
                 responses, delivered>>

Send(p) ==
  /\ handler[p] \notin {"none", "ended"} /\ p \notin gone
  /\ sent[p] < MaxRequests
  /\ sent' = [sent EXCEPT ![p] = @ + 1]
  /\ inbox' = [inbox EXCEPT ![p] = Append(@, [client |-> p, n |-> sent'[p]])]
  /\ UNCHANGED <<log, leads, adrift, handler, gone, offset, first, responses,
                 delivered>>

HangUp(c) ==
  /\ c \notin gone
  /\ gone' = gone \cup {c}
  /\ UNCHANGED <<log, leads, adrift, handler, sent, inbox, offset, first,
                 responses, delivered>>

LeaderChanges ==
  /\ leads' = ~leads
  /\ UNCHANGED <<log, adrift, handler, gone, sent, inbox, offset, first,
                 responses, delivered>>

\* The FSM applies what was produced elsewhere, or what was given up here.
Apply(r) ==
  /\ \/ r \in adrift
     \/ /\ r.client = Other /\ ~leads
        /\ Cardinality({i \in 1..Len(log) : log[i] = r}) < MaxOther
  /\ log' = Append(log, r)
  /\ adrift' = adrift \ {r}
  /\ UNCHANGED <<leads, handler, gone, sent, inbox, offset, first, responses,
                 delivered>>

(***************************************************************************)
(* ProduceStream                                                           *)
(***************************************************************************)

\* Recv may fail once the client is gone; Produce first asks the Authorizer.
Receive(p) ==
  /\ handler[p] = "receive"
  /\ \/ inbox[p] # <<>> /\ Moves(p, IF p \in Permitted THEN "append" ELSE "ended")
     \/ p \in gone /\ Moves(p, "ended")
  /\ UNCHANGED <<log, leads, adrift, gone, sent, inbox, offset, first,
                 responses, delivered>>

\* Wrong: an Append that failed is tried again.
AppendRetried(p) ==
  LET r == Head(inbox[p])
  IN  /\ handler[p] = "append"
      /\ \/ /\ leads
            /\ log' = Append(log, r)
            /\ offset' = [offset EXCEPT ![p] = Len(log)]
            /\ inbox' = [inbox EXCEPT ![p] = Tail(@)]
            /\ Moves(p, "answer")
            /\ UNCHANGED adrift
         \/ /\ ~leads
            /\ adrift' = adrift \cup {r}
            /\ UNCHANGED <<log, handler, inbox, offset>>
      /\ UNCHANGED <<leads, gone, sent, first, responses, delivered>>

\* CommitLog.Append: raft stores, replicates and applies the record and the
\* call returns its offset; or the server does not lead; or it ceases to lead
\* with the record somewhere in raft.
AppendRecord(p) ==
  LET r == Head(inbox[p])
  IN  /\ handler[p] = "append"
      /\ \/ /\ leads
            /\ log' = Append(log, r)
            /\ offset' = [offset EXCEPT ![p] = Len(log)]
            /\ Moves(p, "answer")
            /\ UNCHANGED adrift
         \/ /\ ~leads
            /\ Moves(p, "ended")
            /\ adrift' \in {adrift, adrift \cup {r}}
            /\ UNCHANGED <<log, offset>>
      /\ inbox' = [inbox EXCEPT ![p] = Tail(@)]
      /\ UNCHANGED <<leads, gone, sent, first, responses, delivered>>

\* Wrong: the answer is the highest offset at the time it is sent.
AnswerHighest(p) ==
  /\ handler[p] = "answer"
  /\ Moves(p, "receive")
  /\ responses' = [responses EXCEPT ![p] = Append(@, Len(log) - 1)]
  /\ UNCHANGED <<log, leads, adrift, gone, sent, inbox, offset, first, delivered>>

Answer(p) ==
  /\ handler[p] = "answer"
  /\ Moves(p, IF p \in gone THEN "ended" ELSE "receive")
  /\ responses' = IF p \in gone THEN responses
                  ELSE [responses EXCEPT ![p] = Append(@, offset[p])]
  /\ UNCHANGED <<log, leads, adrift, gone, sent, inbox, offset, first, delivered>>

(***************************************************************************)
(* ConsumeStream                                                           *)
(***************************************************************************)

\* Wrong: the offset moves on although there was no record.
ConsumeSkips(c) ==
  /\ handler[c] = "loop"
  /\ c \notin gone /\ c \in Permitted
  /\ IF offset[c] < Len(log)
     THEN Moves(c, "send") /\ UNCHANGED offset
     ELSE UNCHANGED handler /\ offset' = [offset EXCEPT ![c] = @ + 1]
  /\ UNCHANGED <<log, leads, adrift, gone, sent, inbox, first, responses, delivered>>

\* Wrong: the stream ends at the end of the log.
ConsumeStops(c) ==
  /\ handler[c] = "loop"
  /\ Moves(c, IF c \in Permitted \ gone /\ offset[c] < Len(log) THEN "send" ELSE "ended")
  /\ UNCHANGED <<log, leads, adrift, gone, sent, inbox, offset, first,
                 responses, delivered>>

\* One turn of the loop: the context is looked at, then the record is read.
\* An offset that is not there yet is tried again.
Consume(c) ==
  /\ handler[c] = "loop"
  /\ \/ c \in gone /\ Moves(c, "ended")
     \/ c \notin gone /\ c \notin Permitted /\ Moves(c, "ended")
     \/ c \notin gone /\ c \in Permitted /\ offset[c] < Len(log) /\ Moves(c, "send")
  /\ UNCHANGED <<log, leads, adrift, gone, sent, inbox, offset, first,
                 responses, delivered>>

SendRecord(c) ==
  /\ handler[c] = "send"
  /\ IF c \in gone
     THEN Moves(c, "ended") /\ UNCHANGED <<offset, delivered>>
     ELSE /\ Moves(c, "loop")
          /\ delivered' = [delivered EXCEPT ![c] = Append(@, log[offset[c] + 1])]
          /\ offset' = [offset EXCEPT ![c] = @ + 1]
  /\ UNCHANGED <<log, leads, adrift, gone, sent, inbox, first, responses>>

ProduceStream(p) == Receive(p) \/ AppendRecord(p) \/ Answer(p)
ConsumeStream(c) == Consume(c) \/ SendRecord(c)

Connect == \E c \in Clients : Open(c)
Client  == (\E p \in Producers : Send(p)) \/ \E c \in Clients : HangUp(c)
Raft    == LeaderChanges \/ \E r \in Record : Apply(r)

Next ==
  \/ Connect
  \/ Client
  \/ Raft
  \/ \E p \in Producers : ProduceStream(p)
  \/ \E c \in Consumers : ConsumeStream(c)

Spec == Init /\ [][Next]_svars

\* The goroutine of a handler keeps running; no client owes anything.
Fairness ==
  /\ \A p \in Producers : WF_svars(ProduceStream(p))
  /\ \A c \in Consumers : WF_svars(ConsumeStream(c))

FairSpec == Spec /\ Fairness

(***************************************************************************)
(* Properties                                                              *)
(***************************************************************************)

TypeOK ==
  /\ log \in Seq(Record)
  /\ leads \in BOOLEAN
  /\ adrift \subseteq Request
  /\ handler \in [Clients -> {"none", "receive", "append", "answer", "loop", "send", "ended"}]
  /\ gone \subseteq Clients
  /\ sent \in [Producers -> 0..MaxRequests]
  /\ \A p \in Producers : inbox[p] \in Seq(Request)
  /\ offset \in [Clients -> Nat]
  /\ \A p \in Producers : offset[p] = 0 \/ offset[p] < Len(log)
  /\ \A c \in Consumers : offset[c] = first[c] \/ offset[c] \in first[c]..Len(log)
  /\ \A p \in Producers : responses[p] \in Seq(0..(Len(log) - 1))
  /\ \A c \in Consumers : delivered[c] \in Seq(Record)

\* The k-th answer on a stream is the offset of the k-th request sent on it,
\* however many requests the client sends ahead (server.go:195).
AnswersMatchRequests ==
  \A p \in Producers : \A k \in 1..Len(responses[p]) :
    log[responses[p][k] + 1] = [client |-> p, n |-> k]

\* A request is in the log once at most, and those of one stream are in the
\* order they were sent, even when Append gave up on the last one and raft
\* applied it after all.
ProducedInOrder ==
  \A i, j \in 1..Len(log) :
    (i < j /\ log[i].client = log[j].client /\ log[i].client # Other) =>
      log[i].n < log[j].n

\* A consumer is sent every record from its offset on, each once, in order.
NoGapsInStream ==
  \A c \in Consumers :
    delivered[c] = SubSeq(log, first[c] + 1, first[c] + Len(delivered[c]))

\* "the server streams every record that follows" (server.go:222): a consumer
\* that stays connected is sent whatever gets into the log.
TailDelivered ==
  \A c \in Consumers \cap Permitted : \A o \in 0..(MaxLog - 1) :
    (handler[c] # "none" /\ o < Len(log) /\ o >= first[c]) ~>
      (c \in gone \/ first[c] + Len(delivered[c]) > o)

=============================================================================
