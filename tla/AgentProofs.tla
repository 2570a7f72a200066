----------------------------- MODULE AgentProofs -----------------------------
(***************************************************************************)
(* One server: the streams of its handlers (module LogServer), and its     *)
(* shutdown while they are open (module Agent), for any clients, requests, *)
(* offsets and records.  One caller does the work, the log is closed under *)
(* no handler, and success is reported when everything is down; meanwhile  *)
(* the handlers take no step they could not take before, so what holds of  *)
(* the streams goes on.                                                    *)
(***************************************************************************)
EXTENDS Agent, SequenceTheorems, TLAPS

(***************************************************************************)
(* The streams                                                             *)
(***************************************************************************)

\* The types of all variables; a client's handler is of its kind.
ServerTypes ==
  /\ log \in Seq(Record)
  /\ leads \in BOOLEAN
  /\ adrift \subseteq Request
  /\ handler \in [Clients -> {"none", "receive", "append", "answer", "loop", "send", "ended"}]
  /\ gone \subseteq Clients
  /\ sent \in [Producers -> 0..MaxRequests]
  /\ inbox \in [Producers -> Seq(Request)]
  /\ offset \in [Clients -> Nat]
  /\ first \in [Consumers -> Nat]
  /\ responses \in [Producers -> Seq(Nat)]
  /\ delivered \in [Consumers -> Seq(Record)]

\* How many requests the handler of p has taken.
Taken(p) == sent[p] - Len(inbox[p])

\* What waits to be taken are the requests sent last, in their order.
Inboxes ==
  \A p \in Producers :
    /\ Len(inbox[p]) <= sent[p]
    /\ \A k \in 1..Len(inbox[p]) : inbox[p][k] = [client |-> p, n |-> Taken(p) + k]
    /\ handler[p] = "append" => inbox[p] # <<>>

\* Nothing is in the log that the handler has not taken.
LogBehind ==
  \A i \in 1..Len(log) :
    log[i].client \in Producers => log[i].n <= Taken(log[i].client)

\* A stream ends with the request Append gave up on, so that raft applies it
\* behind the others if it does.
AdriftLast ==
  \A r \in adrift :
    /\ handler[r.client] = "ended" /\ r.n = Taken(r.client)
    /\ \A i \in 1..Len(log) : log[i].client = r.client => log[i].n < r.n

\* What the handler of a producer has answered, and is about to.
Answers(p) ==
  /\ handler[p] \in {"none", "receive", "append"} => Len(responses[p]) = Taken(p)
  /\ handler[p] = "answer" =>
       /\ Len(responses[p]) + 1 = Taken(p)
       /\ offset[p] < Len(log)
       /\ log[offset[p] + 1] = [client |-> p, n |-> Taken(p)]
  /\ offset[p] = 0 \/ offset[p] < Len(log)
  /\ \A k \in 1..Len(responses[p]) :
       /\ responses[p][k] < Len(log)
       /\ log[responses[p][k] + 1] = [client |-> p, n |-> k]

Answering == \A p \in Producers : Answers(p)

\* What the handlers of the consumers have sent, and are about to.
Streaming ==
  \A c \in Consumers :
    /\ offset[c] = first[c] + Len(delivered[c])
    /\ handler[c] = "send" => offset[c] < Len(log)
    /\ \A k \in 1..Len(delivered[c]) :
         first[c] + k <= Len(log) /\ delivered[c][k] = log[first[c] + k]

ServerInv ==
  /\ ServerTypes /\ Inboxes /\ LogBehind /\ AdriftLast /\ Answering /\ Streaming
  /\ ProducedInOrder

(***************************************************************************)
(* Steps that leave the log alone, and steps that append to it             *)
(***************************************************************************)

\* What a record in the log is.
LEMMA LogRecord ==
  ASSUME ServerTypes, NEW i \in 1..Len(log)
  PROVE  /\ log[i] \in Record
         /\ log[i].client \in Producers \/ log[i].client = Other
         /\ log[i].client \in Producers => log[i].n \in Nat
<1>1. log[i] \in Record BY ElementOfSeq DEF ServerTypes
<1> QED BY <1>1, BoundsAssumption, ClientsAssumption DEF Record, Request

\* The log of the next state has the records of this one.
LogGrows ==
  /\ Len(log) <= Len(log')
  /\ \A i \in 1..Len(log) : log'[i] = log[i]

\* Append to the log.
LEMMA LogAppended ==
  ASSUME ServerTypes, NEW r \in Record, log' = Append(log, r)
  PROVE  /\ log' \in Seq(Record)
         /\ Len(log) \in Nat /\ Len(log') = Len(log) + 1
         /\ \A i \in 1..Len(log) : log'[i] = log[i]
         /\ log'[Len(log) + 1] = r
         /\ LogGrows
<1>1. log \in Seq(Record) BY DEF ServerTypes
<1> DEFINE l == log
           m == Append(l, r)
<1>2. l \in Seq(Record) /\ log' = m BY <1>1
<1> HIDE DEF l
<1>3. /\ m \in Seq(Record) /\ Len(l) \in Nat /\ Len(m) = Len(l) + 1
      /\ \A i \in 1..Len(l) : m[i] = l[i]
      /\ m[Len(l) + 1] = r
  BY <1>2, AppendProperties
<1> HIDE DEF m
<1>4. log = l BY DEF l
<1> QED BY <1>2, <1>3, <1>4 DEF LogGrows

\* A request appended to the log that has not been there.
LEMMA AppendKeepsOrder ==
  ASSUME ServerTypes, ProducedInOrder, NEW r \in Record, log' = Append(log, r),
         r.client # Other =>
           \A i \in 1..Len(log) : log[i].client = r.client => log[i].n < r.n
  PROVE  ProducedInOrder'
<1>1. /\ Len(log) \in Nat /\ Len(log') = Len(log) + 1
      /\ \A i \in 1..Len(log) : log'[i] = log[i]
      /\ log'[Len(log) + 1] = r
  BY LogAppended
<1> SUFFICES ASSUME NEW i \in 1..Len(log'), NEW j \in 1..Len(log'),
                    i < j, log'[i].client = log'[j].client, log'[i].client # Other
             PROVE  log'[i].n < log'[j].n
  BY DEF ProducedInOrder
<1>2. i \in 1..Len(log) BY <1>1
<1>3. CASE j \in 1..Len(log) BY <1>1, <1>2, <1>3 DEF ProducedInOrder
<1>4. CASE j = Len(log) + 1 BY <1>1, <1>2, <1>4
<1> QED BY <1>1, <1>3, <1>4

\* A consumer's stream is not touched by steps of others, whatever they append.
LEMMA StreamingKept ==
  ASSUME ServerTypes, Streaming, LogGrows, Len(log') \in Nat,
         UNCHANGED <<first, delivered>>,
         \A c \in Consumers : offset'[c] = offset[c],
         \A c \in Consumers : handler'[c] = "send" => handler[c] = "send" \/ offset[c] < Len(log)
  PROVE  Streaming'
<1>1. /\ first \in [Consumers -> Nat] /\ Len(log) \in Nat
      /\ \A c \in Consumers : offset[c] \in Nat
  BY DEF ServerTypes, Clients
<1> SUFFICES ASSUME NEW c \in Consumers
             PROVE  /\ offset'[c] = first[c] + Len(delivered[c])
                    /\ handler'[c] = "send" => offset'[c] < Len(log')
                    /\ \A k \in 1..Len(delivered[c]) :
                         first[c] + k <= Len(log') /\ delivered[c][k] = log'[first[c] + k]
  BY DEF Streaming
<1>2. offset'[c] = first[c] + Len(delivered[c]) BY DEF Streaming
<1>3. handler'[c] = "send" => offset'[c] < Len(log') BY <1>1 DEF Streaming, LogGrows
<1>4. ASSUME NEW k \in 1..Len(delivered[c])
      PROVE  first[c] + k <= Len(log') /\ delivered[c][k] = log'[first[c] + k]
  <2>1. first[c] + k <= Len(log) /\ delivered[c][k] = log[first[c] + k] BY DEF Streaming
  <2>2. first[c] + k \in 1..Len(log)
    <3>1. Len(delivered[c]) \in Nat
      <4>1. delivered[c] \in Seq(Record) BY DEF ServerTypes
      <4> QED BY <4>1
    <3>2. first[c] \in Nat BY <1>1
    <3> QED BY <1>1, <2>1, <3>1, <3>2
  <2> QED BY <1>1, <2>1, <2>2 DEF LogGrows
<1> QED BY <1>2, <1>3, <1>4

\* Nor is a producer's by steps of others.
LEMMA AnswersKept ==
  ASSUME ServerTypes, Answering, LogGrows, Len(log') \in Nat, NEW p \in Producers,
         responses'[p] = responses[p], offset'[p] = offset[p], Taken(p)' = Taken(p),
         handler'[p] = "answer" => handler[p] = "answer",
         handler'[p] \in {"none", "receive", "append"} =>
           handler[p] \in {"none", "receive", "append"}
  PROVE  Answers(p)'
<1>1. /\ Len(log) \in Nat /\ offset[p] \in Nat /\ responses[p] \in Seq(Nat)
  BY DEF ServerTypes, Clients
<1>2. Answers(p) BY DEF Answering
<1>3. \A k \in 1..Len(responses[p]) : responses[p][k] \in Nat BY <1>1, ElementOfSeq
<1>4. ASSUME NEW x \in Nat, x < Len(log) PROVE x < Len(log') /\ log'[x + 1] = log[x + 1]
  <2>1. x + 1 \in 1..Len(log) BY <1>1, <1>4
  <2> QED BY <1>1, <1>4, <2>1 DEF LogGrows
<1>5. handler'[p] \in {"none", "receive", "append"} => Len(responses'[p]) = Taken(p)'
  BY <1>2 DEF Answers
<1>6. handler'[p] = "answer" =>
        /\ Len(responses'[p]) + 1 = Taken(p)'
        /\ offset'[p] < Len(log')
        /\ log'[offset'[p] + 1] = [client |-> p, n |-> Taken(p)']
  <2>1. handler'[p] = "answer" =>
          /\ Len(responses[p]) + 1 = Taken(p)
          /\ offset[p] < Len(log)
          /\ log[offset[p] + 1] = [client |-> p, n |-> Taken(p)]
    BY <1>2 DEF Answers
  <2> QED BY <1>1, <1>4, <2>1
<1>7. offset'[p] = 0 \/ offset'[p] < Len(log')
  <2>1. offset[p] = 0 \/ offset[p] < Len(log) BY <1>2 DEF Answers
  <2> QED BY <1>1, <1>4, <2>1
<1>8. ASSUME NEW k \in 1..Len(responses'[p])
      PROVE  /\ responses'[p][k] < Len(log')
             /\ log'[responses'[p][k] + 1] = [client |-> p, n |-> k]
  <2>1. responses[p][k] \in Nat BY <1>3
  <2>2. responses[p][k] < Len(log) /\ log[responses[p][k] + 1] = [client |-> p, n |-> k]
    BY <1>2 DEF Answers
  <2> QED BY <1>4, <2>1, <2>2
<1> QED BY <1>5, <1>6, <1>7, <1>8 DEF Answers

\* A step that leaves the log, the answers and what was sent alone.
LEMMA QuietKeepsServerInv ==
  ASSUME ServerInv, ServerTypes', Inboxes',
         UNCHANGED <<log, adrift, offset, first, responses, delivered>>,
         \A p \in Producers : Taken(p)' = Taken(p),
         \A r \in adrift : handler'[r.client] = "ended",
         \A p \in Producers :
           /\ handler'[p] = "answer" => handler[p] = "answer"
           /\ handler'[p] \in {"none", "receive", "append"} =>
                handler[p] \in {"none", "receive", "append"},
         \A c \in Consumers : handler'[c] = "send" => handler[c] = "send" \/ offset[c] < Len(log)
  PROVE  ServerInv'
<1>1. ServerTypes /\ LogBehind /\ AdriftLast /\ Answering /\ Streaming /\ ProducedInOrder
  BY DEF ServerInv
<1>2. Len(log) \in Nat /\ LogGrows /\ Len(log') \in Nat BY <1>1 DEF ServerTypes, LogGrows
<1>3. Streaming' BY <1>1, <1>2, StreamingKept
<1>4. Answering' BY <1>1, <1>2, AnswersKept DEF Answering
<1>5. LogBehind'
  <2> SUFFICES ASSUME NEW i \in 1..Len(log), log[i].client \in Producers
               PROVE  log[i].n <= Taken(log[i].client)'
    BY DEF LogBehind
  <2>1. PICK p \in Producers : p = log[i].client OBVIOUS
  <2>2. Taken(p)' = Taken(p) /\ log[i].n <= Taken(p) BY <1>1, <2>1 DEF LogBehind
  <2> QED BY <2>1, <2>2 DEF Taken
<1>6. AdriftLast'
  <2> SUFFICES ASSUME NEW r \in adrift
               PROVE  r.n = Taken(r.client)'
    BY <1>1 DEF AdriftLast
  <2>1. PICK p \in Producers : p = r.client BY <1>1 DEF ServerTypes, Request
  <2>2. Taken(p)' = Taken(p) /\ r.n = Taken(p) BY <1>1, <2>1 DEF AdriftLast
  <2> QED BY <2>1, <2>2 DEF Taken
<1>7. ProducedInOrder' BY <1>1 DEF ProducedInOrder
<1> QED BY <1>3, <1>4, <1>5, <1>6, <1>7 DEF ServerInv

\* A step of a handler or client that does not touch what was sent either.
LEMMA HandlerKeepsServerInv ==
  ASSUME ServerInv, NEW c \in Clients, NEW h, handler' = [handler EXCEPT ![c] = h],
         h \in {"receive", "append", "loop", "send", "ended"},
         UNCHANGED <<log, leads, adrift, gone, sent, inbox, offset, first, responses, delivered>>,
         handler[c] # "ended",
         c \in Producers => \/ h = "ended"
                            \/ /\ h \in {"receive", "append"}
                               /\ handler[c] \in {"none", "receive", "append"}
                               /\ h = "append" => inbox[c] # <<>>,
         c \in Consumers /\ h = "send" => offset[c] < Len(log)
  PROVE  ServerInv'
<1>1. ServerTypes /\ Inboxes /\ AdriftLast BY DEF ServerInv
<1>2. ServerTypes' BY <1>1 DEF ServerTypes
<1>3. handler \in [Clients -> {"none", "receive", "append", "answer", "loop", "send", "ended"}]
      /\ Producers \subseteq Clients /\ Consumers \subseteq Clients
  BY <1>1 DEF ServerTypes, Clients
<1>4. \A d \in Clients : handler'[d] = IF d = c THEN h ELSE handler[d] BY <1>3
<1>5. \A p \in Producers : Taken(p)' = Taken(p) BY DEF Taken
<1>6. Inboxes' BY <1>1, <1>3, <1>4, <1>5 DEF Inboxes
<1>7. \A r \in adrift : handler'[r.client] = "ended"
  <2> TAKE r \in adrift
  <2>1. r.client \in Clients /\ handler[r.client] = "ended"
    BY <1>1, <1>3 DEF ServerTypes, AdriftLast, Request
  <2> QED BY <1>4, <2>1
<1>8. \A p \in Producers :
        /\ handler'[p] = "answer" => handler[p] = "answer"
        /\ handler'[p] \in {"none", "receive", "append"} =>
             handler[p] \in {"none", "receive", "append"}
  BY <1>3, <1>4
<1>9. \A d \in Consumers : handler'[d] = "send" => handler[d] = "send" \/ offset[d] < Len(log)
  BY <1>3, <1>4
<1> QED BY <1>2, <1>5, <1>6, <1>7, <1>8, <1>9, QuietKeepsServerInv

\* A stream is opened, a request is sent, a client goes away, the leader changes.
LEMMA ClientKeepsServerInv ==
  ASSUME ServerInv, Connect \/ Client \/ LeaderChanges
  PROVE  ServerInv'
<1>1. ServerTypes /\ Inboxes /\ AdriftLast BY DEF ServerInv
<1>2. ASSUME NEW c \in Clients, Open(c) PROVE ServerInv'
  <2>1. handler' = [handler EXCEPT ![c] = IF c \in Producers THEN "receive" ELSE "loop"]
        /\ handler[c] = "none"
        /\ UNCHANGED <<log, leads, adrift, gone, sent, inbox, offset, first, responses, delivered>>
    BY <1>2 DEF Open, Moves
  <2>2. CASE c \in Producers BY <2>1, <2>2, HandlerKeepsServerInv
  <2>3. CASE c \notin Producers BY <2>1, <2>3, HandlerKeepsServerInv
  <2> QED BY <2>2, <2>3
<1>3. ASSUME UNCHANGED <<log, adrift, handler, sent, inbox, offset, first, responses, delivered>>,
             leads' \in BOOLEAN, gone' \subseteq Clients
      PROVE  ServerInv'
  <2>1. ServerTypes' BY <1>1, <1>3 DEF ServerTypes
  <2>2. \A p \in Producers : Taken(p)' = Taken(p) BY <1>3 DEF Taken
  <2>3. Inboxes' BY <1>1, <1>3, <2>2 DEF Inboxes
  <2> QED BY <1>1, <1>3, <2>1, <2>2, <2>3, QuietKeepsServerInv DEF AdriftLast
<1>4. ASSUME NEW c \in Clients, HangUp(c) PROVE ServerInv'
  BY <1>1, <1>3, <1>4 DEF HangUp, ServerTypes
<1>5. CASE LeaderChanges
  <2>1. leads \in BOOLEAN /\ gone \subseteq Clients BY <1>1 DEF ServerTypes
  <2>2. leads' \in BOOLEAN BY <1>5, <2>1 DEF LeaderChanges
  <2> QED BY <1>3, <1>5, <2>1, <2>2 DEF LeaderChanges
<1>6. ASSUME NEW p \in Producers, Send(p) PROVE ServerInv'
  <2>1. /\ sent[p] < MaxRequests /\ sent' = [sent EXCEPT ![p] = sent[p] + 1]
        /\ inbox' = [inbox EXCEPT ![p] = Append(inbox[p], [client |-> p, n |-> sent[p] + 1])]
        /\ UNCHANGED <<log, leads, adrift, handler, gone, offset, first, responses, delivered>>
    BY <1>1, <1>6 DEF Send, ServerTypes
  <2>2. /\ inbox \in [Producers -> Seq(Request)] /\ sent \in [Producers -> 0..MaxRequests]
        /\ MaxRequests \in Nat
    BY <1>1, BoundsAssumption DEF ServerTypes
  <2>3. sent[p] \in Nat /\ sent[p] + 1 \in 1..MaxRequests BY <2>1, <2>2
  <2> DEFINE r == [client |-> p, n |-> sent[p] + 1]
             b == inbox[p]
  <2>4. r \in Request /\ b \in Seq(Request) BY <2>2, <2>3 DEF Request
  <2> HIDE DEF r, b
  <2>5. /\ Append(b, r) \in Seq(Request) /\ Len(Append(b, r)) = Len(b) + 1 /\ Len(b) \in Nat
        /\ \A k \in 1..Len(b) : Append(b, r)[k] = b[k]
        /\ Append(b, r)[Len(b) + 1] = r
    BY <2>4, AppendProperties
  <2>6. inbox' = [inbox EXCEPT ![p] = Append(b, r)] BY <2>1 DEF b, r
  <2>7. ServerTypes'
    <3>1. inbox' \in [Producers -> Seq(Request)] BY <2>2, <2>5, <2>6
    <3>2. sent' \in [Producers -> 0..MaxRequests] BY <2>1, <2>2, <2>3
    <3> QED BY <1>1, <2>1, <3>1, <3>2 DEF ServerTypes
  <2>8. \A q \in Producers \ {p} : inbox'[q] = inbox[q] /\ sent'[q] = sent[q]
    BY <2>1, <2>2
  <2>9. inbox'[p] = Append(b, r) /\ sent'[p] = sent[p] + 1 BY <2>1, <2>2, <2>6
  <2>10. \A q \in Producers : Taken(q)' = Taken(q)
    <3>1. Taken(p)' = Taken(p) BY <2>3, <2>5, <2>9 DEF Taken, b
    <3>2. \A q \in Producers \ {p} : Taken(q)' = Taken(q) BY <2>8 DEF Taken
    <3> QED BY <3>1, <3>2
  <2>11. Inboxes'
    <3> SUFFICES ASSUME NEW q \in Producers
                 PROVE  (/\ Len(inbox[q]) <= sent[q]
                         /\ \A k \in 1..Len(inbox[q]) :
                              inbox[q][k] = [client |-> q, n |-> Taken(q) + k]
                         /\ handler[q] = "append" => inbox[q] # <<>>)'
      BY DEF Inboxes
    <3>1. CASE q # p BY <1>1, <2>1, <2>8, <2>10, <3>1 DEF Inboxes
    <3>2. CASE q = p
      <4>1. /\ Len(b) <= sent[p]
            /\ \A k \in 1..Len(b) : b[k] = [client |-> p, n |-> Taken(p) + k]
        BY <1>1 DEF Inboxes, b
      <4>2. Len(inbox'[p]) = Len(b) + 1 BY <2>5, <2>9
      <4>3. Len(inbox'[p]) <= sent'[p] BY <2>3, <2>5, <2>9, <4>1, <4>2
      <4>4. inbox'[p] # <<>> BY <2>5, <4>2
      <4>5. ASSUME NEW k \in 1..(Len(b) + 1)
            PROVE  inbox'[p][k] = [client |-> p, n |-> Taken(p) + k]
        <5>1. CASE k \in 1..Len(b) BY <2>5, <2>9, <4>1, <5>1
        <5>2. CASE k = Len(b) + 1
          <6>1. Taken(p) + k = sent[p] + 1 BY <2>3, <2>5, <5>2 DEF Taken, b
          <6> QED BY <2>5, <2>9, <5>2, <6>1 DEF r
        <5> QED BY <2>5, <5>1, <5>2
      <4> QED BY <2>10, <3>2, <4>2, <4>3, <4>4, <4>5
    <3> QED BY <3>1, <3>2
  <2> QED BY <1>1, <2>1, <2>7, <2>10, <2>11, QuietKeepsServerInv DEF AdriftLast
<1> QED BY <1>2, <1>4, <1>5, <1>6 DEF Connect, Client

\* The handler looks at its stream and moves on, or ends it.
LEMMA LookKeepsServerInv ==
  ASSUME ServerInv,
         (\E p \in Producers : Receive(p)) \/ (\E c \in Consumers : Consume(c))
  PROVE  ServerInv'
<1>1. ASSUME NEW p \in Producers, Receive(p) PROVE ServerInv'
  <2>1. PICK h \in {"append", "ended"} :
          /\ handler' = [handler EXCEPT ![p] = h] /\ handler[p] = "receive"
          /\ h = "append" => inbox[p] # <<>>
          /\ UNCHANGED <<log, leads, adrift, gone, sent, inbox, offset, first, responses, delivered>>
    BY <1>1 DEF Receive, Moves
  <2>2. p \in Clients /\ p \notin Consumers BY ClientsAssumption DEF Clients
  <2> QED BY <2>1, <2>2, HandlerKeepsServerInv
<1>2. ASSUME NEW c \in Consumers, Consume(c) PROVE ServerInv'
  <2>1. PICK h \in {"send", "ended"} :
          /\ handler' = [handler EXCEPT ![c] = h] /\ handler[c] = "loop"
          /\ h = "send" => offset[c] < Len(log)
          /\ UNCHANGED <<log, leads, adrift, gone, sent, inbox, offset, first, responses, delivered>>
    BY <1>2 DEF Consume, Moves
  <2>2. c \in Clients /\ c \notin Producers BY ClientsAssumption DEF Clients
  <2> QED BY <2>1, <2>2, HandlerKeepsServerInv
<1> QED BY <1>1, <1>2

\* Send of the answer: one more, for the request that Append returned from.
LEMMA AnswerKeepsServerInv ==
  ASSUME ServerInv, NEW p \in Producers, Answer(p)
  PROVE  ServerInv'
<1>1. ServerTypes /\ Inboxes /\ LogBehind /\ AdriftLast /\ Answering /\ Streaming
      /\ ProducedInOrder
  BY DEF ServerInv
<1>2. /\ UNCHANGED <<log, leads, adrift, gone, sent, inbox, offset, first, delivered>>
      /\ handler[p] = "answer"
      /\ handler' = [handler EXCEPT ![p] = IF p \in gone THEN "ended" ELSE "receive"]
      /\ responses' = IF p \in gone THEN responses
                      ELSE [responses EXCEPT ![p] = Append(responses[p], offset[p])]
  BY <1>1 DEF Answer, Moves, ServerTypes
<1>3. /\ handler \in [Clients -> {"none", "receive", "append", "answer", "loop", "send", "ended"}]
      /\ responses \in [Producers -> Seq(Nat)]
      /\ p \in Clients /\ p \notin Consumers /\ offset[p] \in Nat
      /\ Len(log) \in Nat
      /\ Producers \subseteq Clients /\ Consumers \subseteq Clients
  BY <1>1, ClientsAssumption DEF ServerTypes, Clients
<1> DEFINE a == responses[p]
           x == offset[p]
<1>4. /\ a \in Seq(Nat) /\ x \in Nat /\ a = responses[p] /\ x = offset[p] BY <1>3
<1> HIDE DEF a, x
<1>5. /\ Append(a, x) \in Seq(Nat) /\ Len(Append(a, x)) = Len(a) + 1 /\ Len(a) \in Nat
      /\ \A k \in 1..Len(a) : Append(a, x)[k] = a[k]
      /\ Append(a, x)[Len(a) + 1] = x
  BY <1>4, AppendProperties
<1>6. responses' = IF p \in gone THEN responses ELSE [responses EXCEPT ![p] = Append(a, x)]
  BY <1>2, <1>4
<1>7. responses' \in [Producers -> Seq(Nat)]
      /\ \A q \in Producers \ {p} : responses'[q] = responses[q]
  BY <1>3, <1>5, <1>6
<1>8. ServerTypes' BY <1>1, <1>2, <1>7 DEF ServerTypes
<1>9. \A d \in Clients \ {p} : handler'[d] = handler[d] BY <1>2, <1>3
<1>10. \A q \in Producers : Taken(q)' = Taken(q) BY <1>2 DEF Taken
<1>11. handler'[p] \in {"ended", "receive"} /\ (handler'[p] = "receive" => p \notin gone)
  BY <1>2, <1>3
<1>12. LogGrows /\ Len(log') \in Nat BY <1>2, <1>3 DEF LogGrows
<1>13. Answers(p)'
  <2>1. Answers(p) BY <1>1 DEF Answering
  <2>2. /\ Len(a) + 1 = Taken(p) /\ x < Len(log)
        /\ log[x + 1] = [client |-> p, n |-> Taken(p)]
        /\ \A k \in 1..Len(a) : a[k] < Len(log) /\ log[a[k] + 1] = [client |-> p, n |-> k]
    BY <1>2, <1>4, <2>1 DEF Answers
  <2>3. CASE p \in gone
    <3>1. handler'[p] = "ended" /\ responses' = responses BY <1>6, <1>11, <2>3
    <3> QED BY <1>2, <1>4, <2>2, <3>1 DEF Answers
  <2>4. CASE p \notin gone
    <3>1. responses'[p] = Append(a, x) BY <1>3, <1>6, <2>4
    <3>2. Len(responses'[p]) = Taken(p)' BY <1>5, <1>10, <2>2, <3>1
    <3>3. ASSUME NEW k \in 1..(Len(a) + 1)
          PROVE  responses'[p][k] < Len(log)
                 /\ log[responses'[p][k] + 1] = [client |-> p, n |-> k]
      <4>1. CASE k \in 1..Len(a) BY <1>5, <2>2, <3>1, <4>1
      <4>2. CASE k = Len(a) + 1 BY <1>5, <2>2, <3>1, <4>2
      <4> QED BY <1>5, <4>1, <4>2
    <3>4. Len(responses'[p]) = Len(a) + 1 BY <1>5, <3>1
    <3> QED BY <1>2, <1>4, <1>11, <2>2, <3>2, <3>3, <3>4 DEF Answers
  <2> QED BY <2>3, <2>4
<1>14. Answering'
  <2> SUFFICES ASSUME NEW q \in Producers, q # p PROVE Answers(q)'
    BY <1>13 DEF Answering
  <2> QED BY <1>1, <1>2, <1>3, <1>7, <1>9, <1>10, <1>12, AnswersKept
<1>15. Streaming'
  <2>1. \A c \in Consumers : handler'[c] = "send" => handler[c] = "send"
    BY <1>3, <1>9
  <2> QED BY <1>1, <1>2, <1>12, <2>1, StreamingKept
<1>16. Inboxes'
  <2>1. \A q \in Producers : handler'[q] = "append" => handler[q] = "append"
    BY <1>3, <1>9, <1>11
  <2> QED BY <1>1, <1>2, <1>10, <2>1 DEF Inboxes
<1>17. LogBehind' BY <1>1, <1>2 DEF LogBehind, Taken
<1>18. AdriftLast'
  <2> SUFFICES ASSUME NEW r \in adrift PROVE handler'[r.client] = "ended"
    BY <1>1, <1>2 DEF AdriftLast, Taken
  <2>1. r.client \in Clients /\ handler[r.client] = "ended"
    BY <1>1, <1>3 DEF ServerTypes, AdriftLast, Request
  <2> QED BY <1>2, <1>9, <2>1
<1>19. ProducedInOrder' BY <1>1, <1>2 DEF ProducedInOrder
<1> QED BY <1>8, <1>14, <1>15, <1>16, <1>17, <1>18, <1>19 DEF ServerInv

\* Send of the record that was read.
LEMMA SendRecordKeepsServerInv ==
  ASSUME ServerInv, NEW c \in Consumers, SendRecord(c)
  PROVE  ServerInv'
<1>1. ServerTypes /\ Inboxes /\ LogBehind /\ AdriftLast /\ Answering /\ Streaming
      /\ ProducedInOrder
  BY DEF ServerInv
<1>2. handler[c] = "send" /\ UNCHANGED <<log, leads, adrift, gone, sent, inbox, first, responses>>
  BY DEF SendRecord
<1>3. c \in Clients /\ c \notin Producers BY ClientsAssumption DEF Clients
<1>4. CASE c \in gone
  <2>1. handler' = [handler EXCEPT ![c] = "ended"] /\ UNCHANGED <<offset, delivered>>
    BY <1>4 DEF SendRecord, Moves
  <2> QED BY <1>2, <1>3, <2>1, HandlerKeepsServerInv
<1>5. CASE c \notin gone
  <2>1. /\ handler' = [handler EXCEPT ![c] = "loop"]
        /\ delivered' = [delivered EXCEPT ![c] = Append(delivered[c], log[offset[c] + 1])]
        /\ offset' = [offset EXCEPT ![c] = offset[c] + 1]
    BY <1>1, <1>5 DEF SendRecord, Moves, ServerTypes
  <2>2. /\ handler \in [Clients -> {"none", "receive", "append", "answer", "loop", "send", "ended"}]
        /\ delivered \in [Consumers -> Seq(Record)] /\ offset \in [Clients -> Nat]
        /\ first[c] \in Nat /\ offset[c] \in Nat /\ Len(log) \in Nat
        /\ Producers \subseteq Clients /\ Consumers \subseteq Clients
    BY <1>1, <1>3 DEF ServerTypes, Clients
  <2> DEFINE d == delivered[c]
             r == log[offset[c] + 1]
  <2>3. /\ offset[c] = first[c] + Len(delivered[c]) /\ offset[c] < Len(log)
        /\ \A k \in 1..Len(d) : first[c] + k <= Len(log) /\ d[k] = log[first[c] + k]
    BY <1>1, <1>2 DEF Streaming
  <2>4. d \in Seq(Record) /\ r \in Record
    <3>1. offset[c] + 1 \in 1..Len(log) BY <2>2, <2>3
    <3> QED BY <1>1, <2>2, <3>1, LogRecord
  <2>5. d = delivered[c] /\ r = log[offset[c] + 1] OBVIOUS
  <2> HIDE DEF d, r
  <2>6. /\ Append(d, r) \in Seq(Record) /\ Len(Append(d, r)) = Len(d) + 1 /\ Len(d) \in Nat
        /\ \A k \in 1..Len(d) : Append(d, r)[k] = d[k]
        /\ Append(d, r)[Len(d) + 1] = r
    BY <2>4, AppendProperties
  <2>7. delivered' = [delivered EXCEPT ![c] = Append(d, r)] BY <2>1, <2>5
  <2>8. ServerTypes'
    <3>1. delivered' \in [Consumers -> Seq(Record)] BY <2>2, <2>6, <2>7
    <3>2. offset' \in [Clients -> Nat] BY <2>1, <2>2
    <3>3. handler' \in [Clients -> {"none", "receive", "append", "answer", "loop", "send", "ended"}]
      BY <2>1, <2>2
    <3> QED BY <1>1, <1>2, <3>1, <3>2, <3>3 DEF ServerTypes
  <2>9. /\ \A e \in Clients \ {c} : handler'[e] = handler[e] /\ offset'[e] = offset[e]
        /\ \A e \in Consumers \ {c} : delivered'[e] = delivered[e]
        /\ handler'[c] = "loop" /\ offset'[c] = offset[c] + 1 /\ delivered'[c] = Append(d, r)
    BY <1>3, <2>1, <2>2, <2>7
  <2>10. LogGrows /\ Len(log') \in Nat BY <1>2, <2>2 DEF LogGrows
  <2>11. \A q \in Producers : Taken(q)' = Taken(q) /\ handler'[q] = handler[q]
                              /\ offset'[q] = offset[q] /\ responses'[q] = responses[q]
    BY <1>2, <1>3, <2>2, <2>9 DEF Taken
  <2>12. Answering' BY <1>1, <2>10, <2>11, AnswersKept DEF Answering
  <2>13. Streaming'
    <3> SUFFICES ASSUME NEW e \in Consumers
                 PROVE  /\ offset'[e] = first[e] + Len(delivered'[e])
                        /\ handler'[e] = "send" => offset'[e] < Len(log)
                        /\ \A k \in 1..Len(delivered'[e]) :
                             first[e] + k <= Len(log) /\ delivered'[e][k] = log[first[e] + k]
      BY <1>2 DEF Streaming
    <3>1. CASE e # c
      <4>1. handler'[e] = handler[e] /\ offset'[e] = offset[e] /\ delivered'[e] = delivered[e]
        BY <2>2, <2>9, <3>1
      <4> QED BY <1>1, <4>1 DEF Streaming
    <3>2. CASE e = c
      <4>1. Len(delivered'[c]) = Len(d) + 1 BY <2>6, <2>9
      <4>2. offset[c] = first[c] + Len(d) BY <2>3, <2>5
      <4>3. ASSUME NEW k \in 1..(Len(d) + 1)
            PROVE  first[c] + k <= Len(log) /\ Append(d, r)[k] = log[first[c] + k]
        <5>1. CASE k \in 1..Len(d) BY <2>3, <2>6, <5>1
        <5>2. CASE k = Len(d) + 1
          <6>1. first[c] + k = offset[c] + 1 BY <2>2, <2>6, <4>2, <5>2
          <6>2. first[c] + k <= Len(log) BY <2>2, <2>3, <6>1
          <6> QED BY <2>5, <2>6, <5>2, <6>1, <6>2
        <5> QED BY <2>6, <5>1, <5>2
      <4>4. offset'[c] = first[c] + Len(delivered'[c]) BY <2>2, <2>6, <2>9, <4>1, <4>2
      <4> QED BY <2>9, <3>2, <4>1, <4>3, <4>4
    <3> QED BY <3>1, <3>2
  <2>14. Inboxes' BY <1>1, <1>2, <2>11 DEF Inboxes
  <2>15. LogBehind' BY <1>1, <1>2 DEF LogBehind, Taken
  <2>16. AdriftLast'
    <3> SUFFICES ASSUME NEW s \in adrift PROVE handler'[s.client] = "ended"
      BY <1>1, <1>2 DEF AdriftLast, Taken
    <3>1. s.client \in Producers /\ handler[s.client] = "ended"
      BY <1>1 DEF ServerTypes, AdriftLast, Request
    <3> QED BY <2>11, <3>1
  <2>17. ProducedInOrder' BY <1>1, <1>2 DEF ProducedInOrder
  <2> QED BY <2>8, <2>12, <2>13, <2>14, <2>15, <2>16, <2>17 DEF ServerInv
<1> QED BY <1>4, <1>5

\* The FSM applies a record of another server, or a request that was given up.
LEMMA ApplyKeepsServerInv ==
  ASSUME ServerInv, NEW r \in Record, Apply(r)
  PROVE  ServerInv'
<1>1. ServerTypes /\ Inboxes /\ LogBehind /\ AdriftLast /\ Answering /\ Streaming
      /\ ProducedInOrder
  BY DEF ServerInv
<1>2. /\ log' = Append(log, r) /\ adrift' = adrift \ {r}
      /\ r \in adrift \/ r.client = Other
      /\ UNCHANGED <<leads, handler, gone, sent, inbox, offset, first, responses, delivered>>
  BY DEF Apply
<1>3. /\ log' \in Seq(Record) /\ Len(log) \in Nat /\ Len(log') = Len(log) + 1
      /\ \A i \in 1..Len(log) : log'[i] = log[i]
      /\ log'[Len(log) + 1] = r
      /\ LogGrows /\ Len(log') \in Nat
  BY <1>1, <1>2, LogAppended
<1>4. ServerTypes' BY <1>1, <1>2, <1>3 DEF ServerTypes
<1>5. \A q : Taken(q)' = Taken(q) BY <1>2 DEF Taken
<1>6. Inboxes' BY <1>1, <1>2, <1>5 DEF Inboxes
<1>7. LogBehind'
  <2> SUFFICES ASSUME NEW i \in 1..Len(log'), NEW q \in Producers, q = log'[i].client
               PROVE  log'[i].n <= Taken(q)
    BY <1>5 DEF LogBehind, Taken
  <2>1. CASE i \in 1..Len(log)
    BY <1>1, <1>3, <2>1 DEF LogBehind
  <2>2. CASE i = Len(log) + 1
    <3>1. log'[i] = r BY <1>3, <2>2
    <3>2. r \in adrift BY <1>2, <3>1, ClientsAssumption
    <3>3. r.n = Taken(q) BY <1>1, <3>1, <3>2 DEF AdriftLast
    <3>4. r.n \in Nat BY <1>1, <3>2, BoundsAssumption DEF ServerTypes, Request
    <3> QED BY <3>1, <3>3, <3>4
  <2> QED BY <1>3, <2>1, <2>2
<1>8. AdriftLast'
  <2> SUFFICES ASSUME NEW s \in adrift, s # r
               PROVE  \A i \in 1..Len(log') : log'[i].client = s.client => log'[i].n < s.n
    BY <1>1, <1>2 DEF AdriftLast, Taken
  <2>1. /\ s \in Request /\ s.n = Taken(s.client)
        /\ \A i \in 1..Len(log) : log[i].client = s.client => log[i].n < s.n
    BY <1>1 DEF ServerTypes, AdriftLast
  <2>2. r.client # s.client
    <3>1. CASE r \in adrift
      <4>1. r \in Request /\ r.n = Taken(r.client) BY <1>1, <3>1 DEF ServerTypes, AdriftLast
      <4>2. r.client = s.client => r.n = s.n BY <2>1, <4>1
      <4>3. r.client = s.client /\ r.n = s.n => r = s BY <2>1, <4>1 DEF Request
      <4> QED BY <4>2, <4>3
    <3>2. CASE r.client = Other BY <2>1, <3>2, ClientsAssumption DEF Request
    <3> QED BY <1>2, <3>1, <3>2
  <2> SUFFICES ASSUME NEW i \in 1..Len(log'), log'[i].client = s.client
               PROVE  log'[i].n < s.n
    OBVIOUS
  <2>3. i # Len(log) + 1 BY <1>3, <2>2
  <2>4. i \in 1..Len(log) BY <1>3, <2>3
  <2> QED BY <1>3, <2>1, <2>4
<1>9. Answering' BY <1>1, <1>2, <1>3, <1>5, AnswersKept DEF Answering
<1>10. Streaming' BY <1>1, <1>2, <1>3, StreamingKept
<1>11. ProducedInOrder'
  <2>1. r.client # Other =>
          \A i \in 1..Len(log) : log[i].client = r.client => log[i].n < r.n
    BY <1>1, <1>2 DEF AdriftLast
  <2> QED BY <1>1, <1>2, <2>1, AppendKeepsOrder
<1> QED BY <1>4, <1>6, <1>7, <1>8, <1>9, <1>10, <1>11 DEF ServerInv

\* Append of the next request: it returns the offset, or an error with which the
\* stream ends and the request may be adrift.
LEMMA AppendKeepsServerInv ==
  ASSUME ServerInv, NEW p \in Producers, AppendRecord(p)
  PROVE  ServerInv'
<1>1. ServerTypes /\ Inboxes /\ LogBehind /\ AdriftLast /\ Answering /\ Streaming
      /\ ProducedInOrder
  BY DEF ServerInv
<1>2. /\ handler \in [Clients -> {"none", "receive", "append", "answer", "loop", "send", "ended"}]
      /\ inbox \in [Producers -> Seq(Request)] /\ offset \in [Clients -> Nat]
      /\ sent \in [Producers -> 0..MaxRequests] /\ sent[p] \in Nat
      /\ p \in Clients /\ p \notin Consumers /\ Len(log) \in Nat
      /\ Producers \subseteq Clients /\ Consumers \subseteq Clients
  BY <1>1, ClientsAssumption, BoundsAssumption DEF ServerTypes, Clients
<1> DEFINE b == inbox[p]
           r == [client |-> p, n |-> Taken(p) + 1]
<1>3. b \in Seq(Request) /\ b # <<>> /\ b = inbox[p]
  BY <1>1, <1>2 DEF AppendRecord, Inboxes
<1> HIDE DEF b
<1>4. /\ Len(b) \in Nat \ {0} /\ Head(b) = b[1] /\ Tail(b) \in Seq(Request)
      /\ Len(Tail(b)) = Len(b) - 1
      /\ \A k \in 1..(Len(b) - 1) : Tail(b)[k] = b[k + 1]
  BY <1>3, HeadTailProperties
<1>5. /\ Len(b) <= sent[p]
      /\ \A k \in 1..Len(b) : b[k] = [client |-> p, n |-> Taken(p) + k]
  BY <1>1, <1>3 DEF Inboxes
<1>6. Head(b) = r /\ Taken(p) = sent[p] - Len(b) /\ Taken(p) \in Nat
  <2>1. Taken(p) = sent[p] - Len(b) BY <1>3 DEF Taken
  <2> QED BY <1>2, <1>4, <1>5, <2>1
<1>7. r \in Request /\ r \in Record /\ r.client = p /\ r.n = Taken(p) + 1
  <2>1. b[1] \in Request BY <1>3, <1>4, ElementOfSeq
  <2> QED BY <1>4, <1>6, <2>1 DEF Record
<1>8. /\ handler[p] = "append" /\ inbox' = [inbox EXCEPT ![p] = Tail(b)]
      /\ UNCHANGED <<leads, gone, sent, first, responses, delivered>>
  BY <1>1, <1>2, <1>3 DEF AppendRecord
<1>9. /\ inbox' \in [Producers -> Seq(Request)] /\ inbox'[p] = Tail(b)
      /\ \A q \in Producers \ {p} : inbox'[q] = inbox[q]
  BY <1>2, <1>4, <1>8
<1>10. Taken(p)' = Taken(p) + 1 /\ \A q \in Producers \ {p} : Taken(q)' = Taken(q)
  <2>1. Taken(p)' = sent[p] - (Len(b) - 1) BY <1>4, <1>8, <1>9 DEF Taken
  <2>2. Taken(p)' = Taken(p) + 1 BY <1>2, <1>4, <1>6, <2>1
  <2> QED BY <1>8, <1>9, <2>2 DEF Taken
<1>11. \/ /\ log' = Append(log, r) /\ adrift' = adrift
          /\ offset' = [offset EXCEPT ![p] = Len(log)]
          /\ handler' = [handler EXCEPT ![p] = "answer"]
       \/ /\ log' = log /\ offset' = offset
          /\ handler' = [handler EXCEPT ![p] = "ended"]
          /\ adrift' = adrift \/ adrift' = adrift \cup {r}
  BY <1>3, <1>6 DEF AppendRecord, Moves
<1>12. /\ \A i \in 1..Len(log) : log[i].client = p => log[i].n < r.n
       /\ \A s \in adrift : s.client # p
  <2>1. ASSUME NEW i \in 1..Len(log), log[i].client = p PROVE log[i].n < r.n
    <3>1. log[i].n <= Taken(p) BY <1>1, <2>1 DEF LogBehind
    <3>2. log[i].n \in Nat BY <1>1, <2>1, LogRecord
    <3> QED BY <1>6, <1>7, <3>1, <3>2
  <2>2. \A s \in adrift : s.client # p BY <1>1, <1>8 DEF AdriftLast
  <2> QED BY <2>1, <2>2
<1>13. /\ log' \in Seq(Record) /\ LogGrows /\ Len(log') \in Nat
       /\ Len(log') = Len(log) \/ (Len(log') = Len(log) + 1 /\ log'[Len(log) + 1] = r)
  <2>1. CASE log' = Append(log, r) BY <1>1, <1>7, <2>1, LogAppended
  <2>2. CASE log' = log BY <1>1, <1>2, <2>2 DEF LogGrows, ServerTypes
  <2> QED BY <1>11, <2>1, <2>2
<1> HIDE DEF r
<1>14. /\ \A d \in Clients \ {p} : handler'[d] = handler[d] /\ offset'[d] = offset[d]
       /\ handler'[p] \in {"answer", "ended"}
       /\ handler'[p] = "answer" => log' = Append(log, r) /\ offset'[p] = Len(log)
       /\ handler'[p] = "ended" => log' = log /\ offset'[p] = offset[p]
       /\ offset' \in [Clients -> Nat]
       /\ handler' \in [Clients -> {"none", "receive", "append", "answer", "loop", "send", "ended"}]
  BY <1>2, <1>11
<1>15. ServerTypes'
  <2>1. adrift' \subseteq Request BY <1>1, <1>7, <1>11 DEF ServerTypes
  <2> QED BY <1>1, <1>8, <1>9, <1>13, <1>14, <2>1 DEF ServerTypes
<1>16. Inboxes'
  <2> SUFFICES ASSUME NEW q \in Producers
               PROVE  /\ Len(inbox'[q]) <= sent[q]
                      /\ \A k \in 1..Len(inbox'[q]) :
                           inbox'[q][k] = [client |-> q, n |-> Taken(q)' + k]
                      /\ handler'[q] = "append" => inbox'[q] # <<>>
    BY <1>8 DEF Inboxes, Taken
  <2>1. CASE q # p
    <3>1. handler'[q] = handler[q] /\ inbox'[q] = inbox[q] /\ Taken(q)' = Taken(q)
      BY <1>2, <1>9, <1>10, <1>14, <2>1
    <3> QED BY <1>1, <1>8, <3>1 DEF Inboxes
  <2>2. CASE q = p
    <3>1. Len(inbox'[p]) = Len(b) - 1 BY <1>4, <1>9
    <3>2. Len(inbox'[p]) <= sent[p]
      <4>1. PICK m \in Nat : m = Len(b) BY <1>4
      <4>2. PICK n \in Nat : n = sent[p] BY <1>2
      <4>3. m <= n BY <1>5, <4>1, <4>2
      <4>4. m - 1 <= n BY <4>3
      <4> QED BY <3>1, <4>1, <4>2, <4>4
    <3>3. ASSUME NEW k \in 1..(Len(b) - 1)
          PROVE  inbox'[p][k] = [client |-> p, n |-> (Taken(p) + 1) + k]
      <4>1. k + 1 \in 1..Len(b) BY <1>4
      <4>2. inbox'[p][k] = b[k + 1] BY <1>4, <1>9
      <4>3. Taken(p) + (k + 1) = (Taken(p) + 1) + k
        <5>1. PICK m \in Nat : m = Taken(p) BY <1>6
        <5>2. k \in Int BY <1>4
        <5>3. m + (k + 1) = (m + 1) + k BY <5>1, <5>2
        <5> QED BY <5>1, <5>3
      <4> QED BY <1>5, <4>1, <4>2, <4>3
    <3> QED BY <1>8, <1>10, <1>14, <2>2, <3>1, <3>2, <3>3
  <2> QED BY <2>1, <2>2
<1>17. LogBehind'
  <2> SUFFICES ASSUME NEW i \in 1..Len(log'), NEW q \in Producers, q = log'[i].client
               PROVE  log'[i].n <= Taken(q)'
    BY DEF LogBehind, Taken
  <2>1. CASE i \in 1..Len(log)
    <3>1. log'[i] = log[i] BY <1>13, <2>1 DEF LogGrows
    <3>2. log[i].n <= Taken(q) /\ log[i].n \in Nat
      BY <1>1, <2>1, <3>1, LogRecord DEF LogBehind
    <3>3. Taken(q)' = Taken(q) \/ (q = p /\ Taken(q)' = Taken(q) + 1) BY <1>10
    <3> QED BY <1>6, <3>1, <3>2, <3>3
  <2>2. CASE i \notin 1..Len(log)
    <3>1. log'[i] = r /\ q = p
      <4>1. i = Len(log) + 1 /\ log'[i] = r BY <1>2, <1>13, <2>2
      <4> QED BY <1>7, <4>1
    <3> QED BY <1>6, <1>7, <1>10, <3>1
  <2> QED BY <2>1, <2>2
<1>18. AdriftLast'
  <2> SUFFICES ASSUME NEW s \in adrift'
               PROVE  /\ handler'[s.client] = "ended" /\ s.n = Taken(s.client)'
                      /\ \A i \in 1..Len(log') : log'[i].client = s.client => log'[i].n < s.n
    BY DEF AdriftLast
  <2>1. CASE s \in adrift
    <3>1. PICK q \in Producers : q = s.client BY <1>1, <2>1 DEF ServerTypes, Request
    <3>2. /\ handler[q] = "ended" /\ s.n = Taken(q) /\ q # p
          /\ \A i \in 1..Len(log) : log[i].client = q => log[i].n < s.n
      BY <1>1, <1>12, <2>1, <3>1 DEF AdriftLast
    <3>3. handler'[q] = "ended" /\ s.n = Taken(q)' BY <1>2, <1>10, <1>14, <3>2
    <3>4. ASSUME NEW i \in 1..Len(log'), log'[i].client = q PROVE log'[i].n < s.n
      <4>1. i \in 1..Len(log)
        <5>1. i # Len(log) + 1 \/ Len(log') = Len(log) BY <1>7, <1>13, <3>2, <3>4
        <5> QED BY <1>2, <1>13, <5>1
      <4> QED BY <1>13, <3>2, <3>4, <4>1 DEF LogGrows
    <3> QED BY <3>1, <3>3, <3>4 DEF Taken
  <2>2. CASE s \notin adrift
    <3>1. s = r /\ handler'[p] = "ended" /\ log' = log
      <4>1. s = r /\ adrift' # adrift BY <1>11, <2>2
      <4>2. log' = log /\ handler' = [handler EXCEPT ![p] = "ended"] BY <1>11, <4>1
      <4> QED BY <1>2, <4>1, <4>2
    <3>2. s.n = Taken(p)' BY <1>7, <1>10, <3>1
    <3> QED BY <1>7, <1>12, <3>1, <3>2 DEF Taken
  <2> QED BY <2>1, <2>2
<1>19. Answers(p)'
  <2>1. Answers(p) BY <1>1 DEF Answering
  <2>2. /\ Len(responses[p]) = Taken(p)
        /\ offset[p] = 0 \/ offset[p] < Len(log)
        /\ \A k \in 1..Len(responses[p]) :
             /\ responses[p][k] < Len(log)
             /\ log[responses[p][k] + 1] = [client |-> p, n |-> k]
    BY <1>8, <2>1 DEF Answers
  <2>3. responses[p] \in Seq(Nat) /\ \A k \in 1..Len(responses[p]) : responses[p][k] \in Nat
    <3>1. responses[p] \in Seq(Nat) BY <1>1 DEF ServerTypes
    <3> QED BY <3>1, ElementOfSeq
  <2>4. ASSUME NEW k \in 1..Len(responses[p])
        PROVE  /\ responses[p][k] < Len(log')
               /\ log'[responses[p][k] + 1] = [client |-> p, n |-> k]
    <3>1. PICK o \in Nat : o = responses[p][k] BY <2>3
    <3>2. o < Len(log) BY <2>2, <3>1
    <3>3. o + 1 \in 1..Len(log) BY <1>2, <3>2
    <3>4. log'[o + 1] = log[o + 1] BY <1>13, <3>3 DEF LogGrows
    <3>5. o < Len(log') BY <1>2, <1>13, <3>2
    <3> QED BY <2>2, <3>1, <3>4, <3>5
  <2>5. CASE handler'[p] = "answer"
    <3>1. log' = Append(log, r) /\ offset'[p] = Len(log) BY <1>14, <2>5
    <3>2. Len(log') = Len(log) + 1 /\ log'[Len(log) + 1] = r
      BY <1>1, <1>7, <3>1, LogAppended
    <3>3. r = [client |-> p, n |-> Taken(p) + 1] BY DEF r
    <3>4. log'[offset'[p] + 1] = [client |-> p, n |-> Taken(p)']
      BY <1>10, <3>1, <3>2, <3>3
    <3>5. offset'[p] < Len(log') BY <1>2, <3>1, <3>2
    <3>6. Len(responses'[p]) + 1 = Taken(p)' BY <1>8, <1>10, <2>2
    <3>7. \A k \in 1..Len(responses'[p]) :
            /\ responses'[p][k] < Len(log')
            /\ log'[responses'[p][k] + 1] = [client |-> p, n |-> k]
      BY <1>8, <2>4
    <3> QED BY <2>5, <3>4, <3>5, <3>6, <3>7 DEF Answers
  <2>6. CASE handler'[p] = "ended"
    BY <1>8, <1>14, <2>2, <2>4, <2>6 DEF Answers
  <2> QED BY <1>14, <2>5, <2>6
<1>20. Answering'
  <2> SUFFICES ASSUME NEW q \in Producers, q # p PROVE Answers(q)'
    BY <1>19 DEF Answering
  <2> QED BY <1>1, <1>2, <1>8, <1>10, <1>13, <1>14, AnswersKept
<1>21. Streaming'
  <2>1. \A c \in Consumers : handler'[c] = handler[c] /\ offset'[c] = offset[c]
    BY <1>2, <1>14
  <2> QED BY <1>1, <1>8, <1>13, <2>1, StreamingKept
<1>22. ProducedInOrder'
  <2>1. CASE log' = Append(log, r)
    BY <1>1, <1>7, <1>12, <2>1, AppendKeepsOrder
  <2>2. CASE log' = log BY <1>1, <2>2 DEF ProducedInOrder
  <2> QED BY <1>11, <2>1, <2>2
<1> QED BY <1>15, <1>16, <1>17, <1>18, <1>20, <1>21, <1>22 DEF ServerInv

(***************************************************************************)
(* The invariant of the specification                                      *)
(***************************************************************************)

\* It holds of a server that has no stream yet.
LEMMA InitServerInv == Init => ServerInv
<1> SUFFICES ASSUME Init PROVE ServerInv OBVIOUS
<1>1. /\ log = <<>> /\ adrift = {} /\ gone = {} /\ leads \in BOOLEAN
      /\ handler = [c \in Clients |-> "none"]
      /\ sent = [p \in Producers |-> 0] /\ inbox = [p \in Producers |-> <<>>]
      /\ first \in [Consumers -> Offsets]
      /\ offset = [c \in Clients |-> IF c \in Consumers THEN first[c] ELSE 0]
      /\ responses = [p \in Producers |-> <<>>]
      /\ delivered = [c \in Consumers |-> <<>>]
  BY DEF Init
<1>2. first \in [Consumers -> Nat] BY <1>1, BoundsAssumption
<1>3. offset \in [Clients -> Nat]
  <2> SUFFICES ASSUME NEW c \in Clients
               PROVE  (IF c \in Consumers THEN first[c] ELSE 0) \in Nat
    BY <1>1
  <2> QED BY <1>2
<1>4. ServerTypes
  <2>1. log \in Seq(Record) /\ Len(log) = 0 BY <1>1, EmptySeq
  <2>2. /\ inbox \in [Producers -> Seq(Request)] /\ responses \in [Producers -> Seq(Nat)]
        /\ delivered \in [Consumers -> Seq(Record)]
    BY <1>1, EmptySeq
  <2>3. sent \in [Producers -> 0..MaxRequests] BY <1>1, BoundsAssumption
  <2>4. handler \in [Clients -> {"none", "receive", "append", "answer", "loop", "send", "ended"}]
    BY <1>1
  <2> QED BY <1>1, <1>2, <1>3, <2>1, <2>2, <2>3, <2>4 DEF ServerTypes
<1>5. /\ Producers \subseteq Clients /\ Consumers \subseteq Clients
      /\ \A p \in Producers : p \notin Consumers
  BY ClientsAssumption DEF Clients
<1>6. \A p \in Producers :
        /\ sent[p] = 0 /\ Len(inbox[p]) = 0 /\ Len(responses[p]) = 0
        /\ handler[p] = "none" /\ offset[p] = 0 /\ Taken(p) = 0
  <2> SUFFICES ASSUME NEW p \in Producers
               PROVE  /\ sent[p] = 0 /\ Len(inbox[p]) = 0 /\ Len(responses[p]) = 0
                      /\ handler[p] = "none" /\ offset[p] = 0 /\ Taken(p) = 0
    OBVIOUS
  <2>1. sent[p] = 0 /\ inbox[p] = <<>> /\ responses[p] = <<>> /\ handler[p] = "none"
    BY <1>1, <1>5
  <2>2. offset[p] = 0 BY <1>1, <1>5
  <2>3. Len(inbox[p]) = 0 /\ Len(responses[p]) = 0 BY <2>1
  <2>4. Taken(p) = 0
    <3>1. sent[p] = 0 BY <2>1
    <3>2. Taken(p) = sent[p] - Len(inbox[p]) BY DEF Taken
    <3>3. Taken(p) = 0 - 0 BY <2>3, <3>1, <3>2, Zenon
    <3> QED BY <3>3
  <2> QED BY <2>1, <2>2, <2>3, <2>4
<1>7. Inboxes BY <1>6 DEF Inboxes
<1>8. LogBehind /\ AdriftLast /\ ProducedInOrder
  BY <1>1 DEF LogBehind, AdriftLast, ProducedInOrder
<1>9. Answering BY <1>6 DEF Answering, Answers
<1>10. Streaming
  <2> SUFFICES ASSUME NEW c \in Consumers
               PROVE  /\ offset[c] = first[c] + Len(delivered[c])
                      /\ handler[c] = "send" => offset[c] < Len(log)
                      /\ \A k \in 1..Len(delivered[c]) :
                           first[c] + k <= Len(log) /\ delivered[c][k] = log[first[c] + k]
    BY DEF Streaming
  <2>1. delivered[c] = <<>> /\ handler[c] = "none" /\ offset[c] = first[c]
    BY <1>1, <1>5
  <2>2. first[c] \in Nat BY <1>2
  <2> QED BY <2>1, <2>2
<1> QED BY <1>4, <1>7, <1>8, <1>9, <1>10 DEF ServerInv

\* Every step of clients, raft and handlers keeps it.
LEMMA NextKeepsServerInv == ServerInv /\ [Next]_svars => ServerInv'
<1> SUFFICES ASSUME ServerInv, [Next]_svars PROVE ServerInv' OBVIOUS
<1>1. CASE Connect \/ Client \/ LeaderChanges BY <1>1, ClientKeepsServerInv
<1>2. CASE \E r \in Record : Apply(r) BY <1>2, ApplyKeepsServerInv
<1>3. CASE \E p \in Producers : Receive(p) BY <1>3, LookKeepsServerInv
<1>4. CASE \E p \in Producers : AppendRecord(p) BY <1>4, AppendKeepsServerInv
<1>5. CASE \E p \in Producers : Answer(p) BY <1>5, AnswerKeepsServerInv
<1>6. CASE \E c \in Consumers : Consume(c) BY <1>6, LookKeepsServerInv
<1>7. CASE \E c \in Consumers : SendRecord(c) BY <1>7, SendRecordKeepsServerInv
<1>8. CASE UNCHANGED svars
  BY <1>8 DEF svars, ServerInv, ServerTypes, Inboxes, LogBehind, AdriftLast, Answering,
              Answers, Streaming, ProducedInOrder, Taken
<1> QED BY <1>1, <1>2, <1>3, <1>4, <1>5, <1>6, <1>7, <1>8
  DEF Next, Raft, ProduceStream, ConsumeStream

\* The inductive invariant: what waits in the inboxes, what the handlers have
\* answered and sent, and that nothing is in the log that was not taken.
THEOREM ServerInvHolds == Spec => []ServerInv
<1> QED BY InitServerInv, NextKeepsServerInv, PTL DEF Spec

(***************************************************************************)
(* What the runs check                                                     *)
(***************************************************************************)

\* The invariant has the types, and the bounds of the offsets.
LEMMA ServerInvTypeOK == ServerInv => TypeOK
<1> SUFFICES ASSUME ServerInv PROVE TypeOK OBVIOUS
<1>1. ServerTypes /\ Answering /\ Streaming BY DEF ServerInv
<1>2. /\ log \in Seq(Record) /\ leads \in BOOLEAN /\ adrift \subseteq Request
      /\ handler \in [Clients -> {"none", "receive", "append", "answer", "loop", "send", "ended"}]
      /\ gone \subseteq Clients /\ sent \in [Producers -> 0..MaxRequests]
      /\ \A p \in Producers : inbox[p] \in Seq(Request)
      /\ offset \in [Clients -> Nat]
      /\ \A c \in Consumers : delivered[c] \in Seq(Record)
  BY <1>1 DEF ServerTypes
<1>3. \A p \in Producers : offset[p] = 0 \/ offset[p] < Len(log)
  BY <1>1 DEF Answering, Answers
<1>4. ASSUME NEW c \in Consumers
      PROVE  offset[c] = first[c] \/ offset[c] \in first[c]..Len(log)
  <2>1. PICK n \in Nat : n = Len(delivered[c])
    <3>1. delivered[c] \in Seq(Record) BY <1>2
    <3> QED BY <3>1, LenProperties
  <2>2. PICK f \in Nat : f = first[c] BY <1>1 DEF ServerTypes
  <2>3. offset[c] = f + n /\ (n \in 1..n => f + n <= Len(log))
    BY <1>1, <2>1, <2>2 DEF Streaming
  <2>4. Len(log) \in Nat BY <1>2, LenProperties
  <2> QED BY <2>2, <2>3, <2>4
<1>5. ASSUME NEW p \in Producers PROVE responses[p] \in Seq(0..(Len(log) - 1))
  <2>1. responses[p] \in Seq(Nat) BY <1>1 DEF ServerTypes
  <2>2. \A k \in 1..Len(responses[p]) : responses[p][k] < Len(log)
    BY <1>1 DEF Answering, Answers
  <2>3. Len(log) \in Nat BY <1>2, LenProperties
  <2>4. ASSUME NEW k \in 1..Len(responses[p]) PROVE responses[p][k] \in 0..(Len(log) - 1)
    <3>1. PICK x \in Nat : x = responses[p][k] BY <2>1, ElementOfSeq
    <3>2. PICK n \in Nat : n = Len(log) BY <2>3
    <3>3. x < n BY <2>2, <3>1, <3>2
    <3>4. x \in 0..(n - 1) BY <3>3
    <3> QED BY <3>1, <3>2, <3>4
  <2> QED BY <2>1, <2>4, SeqDef
<1> QED BY <1>2, <1>3, <1>4, <1>5 DEF TypeOK

\* The answers of a stream are the offsets of its requests, in order.
LEMMA ServerInvAnswers == ServerInv => AnswersMatchRequests
BY DEF ServerInv, Answering, Answers, AnswersMatchRequests

\* What a stream was sent is a stretch of the log.
LEMMA ServerInvStream == ServerInv => NoGapsInStream
<1> SUFFICES ASSUME ServerInv, NEW c \in Consumers
             PROVE  delivered[c] = SubSeq(log, first[c] + 1, first[c] + Len(delivered[c]))
  BY DEF NoGapsInStream
<1>1. ServerTypes /\ Streaming BY DEF ServerInv
<1>2. PICK d \in Seq(Record) : d = delivered[c] BY <1>1 DEF ServerTypes
<1>3. PICK f \in Nat : f = first[c] BY <1>1 DEF ServerTypes
<1>4. PICK l \in Seq(Record) : l = log BY <1>1 DEF ServerTypes
<1>5. \A k \in 1..Len(d) : f + k <= Len(l) /\ d[k] = l[f + k]
  BY <1>1, <1>2, <1>3, <1>4 DEF Streaming
<1>6. Len(d) \in Nat /\ Len(l) \in Nat /\ d = [k \in 1..Len(d) |-> d[k]]
  BY LenProperties, SeqDef
<1>7. SubSeq(l, f + 1, f + Len(d)) = [k \in 1..Len(d) |-> d[k]]
  <2>1. SubSeq(l, f + 1, f + Len(d)) = [k \in 1..Len(d) |-> l[f + k]]
    BY <1>6
  <2> QED BY <1>5, <2>1
<1> QED BY <1>2, <1>3, <1>4, <1>6, <1>7

\* The types of the streams, with the bounds of the offsets (TypeOK).
THEOREM ServerTypeOKHolds == Spec => []TypeOK
<1> QED BY ServerInvHolds, ServerInvTypeOK, PTL

\* The k-th answer on a ProduceStream is the offset of the k-th request
\* (server.go:195), for any number of clients and requests.
THEOREM AnswersMatchRequestsHolds == Spec => []AnswersMatchRequests
<1> QED BY ServerInvHolds, ServerInvAnswers, PTL

\* The requests of one stream are in the log in their order, each once at most.
THEOREM ProducedInOrderHolds == Spec => []ProducedInOrder
<1>1. ServerInv => ProducedInOrder BY DEF ServerInv
<1> QED BY ServerInvHolds, <1>1, PTL

\* A ConsumeStream sends the log from the offset on, without gaps or repeats.
THEOREM NoGapsInStreamHolds == Spec => []NoGapsInStream
<1> QED BY ServerInvHolds, ServerInvStream, PTL

(***************************************************************************)
(* The shutdown                                                            *)
(***************************************************************************)

Places  == {"none", "waiting", "leave", "stop", "drain", "close", "nil", "error"}
Working == {"leave", "stop", "drain", "close"}

CallType ==
  /\ call \in [Callers -> Places]
  /\ shutdown \in BOOLEAN /\ member \in BOOLEAN
  /\ accepting \in BOOLEAN /\ logOpen \in BOOLEAN

\* The holder of the lock is the caller at work.
LockHeld == \A g \in Callers : call[g] \in Working <=> lock = g

\* The list is begun when the flag is set.
FlagSet ==
  IF shutdown THEN runs = 1
  ELSE runs = 0 /\ \A g \in Callers : call[g] \in {"none", "waiting"}

\* What the caller at work has done already.
DoneSoFar ==
  \A g \in Callers :
    /\ call[g] \in {"stop", "drain", "close"} => ~member
    /\ call[g] \in {"drain", "close"} => ~accepting
    /\ call[g] = "close" => Active = {}

\* The log is the last to be closed.
LogLast == ~logOpen => ~member /\ ~accepting /\ Active = {}

\* A shutdown that was begun is going on, has failed, or is complete.
Begun ==
  shutdown => \/ \E g \in Callers : call[g] \in Working \cup {"error"}
              \/ ~logOpen

IInv == CallType /\ LockHeld /\ FlagSet /\ DoneSoFar /\ LogLast /\ Begun /\ SuccessMeansDown

\* No handler runs again once none is running and none can be started.
LEMMA StreamsStayEnded ==
  ASSUME Streams, ~accepting, Active = {}
  PROVE  Active' = {}
<1>1. \A c \in Clients : handler[c] \in {"none", "ended"} BY DEF Active
<1>2. handler' = handler
  <2>1. ~\E p \in Producers : ProduceStream(p)
    BY <1>1 DEF Clients, ProduceStream, Receive, AppendRecord, Answer
  <2>2. ~\E c \in Consumers : ConsumeStream(c)
    BY <1>1 DEF Clients, ConsumeStream, Consume, SendRecord
  <2> QED BY <2>1, <2>2 DEF Streams, Client, Send, HangUp, Raft, LeaderChanges, Apply
<1> QED BY <1>2 DEF Active

\* A step of the streams while the agent serves touches nothing of the agent.
LEMMA StreamsKeepIInv == ASSUME IInv, Streams PROVE IInv'
<1>1. UNCHANGED ownVars BY DEF Streams
<1>2. DoneSoFar'
  BY <1>1, StreamsStayEnded DEF IInv, DoneSoFar, ownVars
<1>3. LogLast'
  BY <1>1, StreamsStayEnded DEF IInv, LogLast, ownVars
<1> QED
  BY <1>1, <1>2, <1>3
  DEF IInv, CallType, LockHeld, FlagSet, Begun, SuccessMeansDown, ownVars

\* Nor do a failing listener and a further caller of Shutdown disturb them.
LEMMA OtherStepsKeepIInv ==
  ASSUME IInv, ListenerFails \/ UNCHANGED avars
         \/ \E g \in Callers : CallShutdown(g)
  PROVE  IInv'
<1>1. Active' = Active
  BY DEF ListenerFails, CallShutdown, avars, svars, Active
<1>2. CASE ListenerFails
  BY <1>1, <1>2
  DEF ListenerFails, IInv, CallType, LockHeld, FlagSet, DoneSoFar, LogLast, Begun, SuccessMeansDown
<1>3. CASE UNCHANGED avars
  BY <1>1, <1>3
  DEF avars, IInv, CallType, LockHeld, FlagSet, DoneSoFar, LogLast, Begun, SuccessMeansDown
<1>4. ASSUME NEW g \in Callers, CallShutdown(g) PROVE IInv'
  <2>1. CallType' BY <1>4 DEF IInv, CallType, CallShutdown, At, Places
  <2>2. LockHeld' BY <1>4 DEF IInv, CallType, LockHeld, CallShutdown, At, Working
  <2>3. FlagSet' BY <1>4 DEF IInv, CallType, FlagSet, CallShutdown, At
  <2>4. DoneSoFar' BY <1>1, <1>4 DEF IInv, CallType, DoneSoFar, CallShutdown, At
  <2>5. LogLast' BY <1>1, <1>4 DEF IInv, LogLast, CallShutdown
  <2>6. Begun'
    BY <1>4 DEF IInv, CallType, Begun, CallShutdown, At, Working
  <2>7. SuccessMeansDown'
    BY <1>4 DEF IInv, CallType, SuccessMeansDown, CallShutdown, At
  <2> QED BY <2>1, <2>2, <2>3, <2>4, <2>5, <2>6, <2>7 DEF IInv
<1> QED BY <1>2, <1>3, <1>4

\* The caller that enters sets the flag, or finds it set by one that is done.
LEMMA EnterKeepsIInv == ASSUME IInv, NEW g \in Callers, Enter(g) PROVE IInv'
<1>1. Active' = Active BY DEF Enter, svars, Active
<1>2. \A h \in Callers : call[h] \notin Working
  BY NoCallerAssumption DEF Enter, IInv, LockHeld
<1>3. CASE shutdown
  <2>1. call' = [call EXCEPT ![g] = "nil"] /\ UNCHANGED <<lock, shutdown, runs, member, accepting, logOpen>>
    BY <1>3 DEF Enter, At
  <2>2. (\E h \in Callers : call[h] = "error") \/ ~logOpen
    BY <1>2, <1>3 DEF IInv, Begun
  <2>3. call[g] = "waiting" BY DEF Enter
  <2>4. SuccessMeansDown'
    BY <2>1, <2>2, <2>3 DEF IInv, CallType, LogLast, SuccessMeansDown
  <2>5. Begun' BY <2>1, <2>2, <2>3 DEF IInv, CallType, Begun
  <2>6. CallType' /\ LockHeld' /\ FlagSet' /\ DoneSoFar' /\ LogLast'
    BY <1>1, <1>3, <2>1, <2>3
    DEF IInv, CallType, LockHeld, FlagSet, DoneSoFar, LogLast, Places, Working
  <2> QED BY <2>4, <2>5, <2>6 DEF IInv
<1>4. CASE ~shutdown
  <2>1. /\ call' = [call EXCEPT ![g] = "leave"] /\ lock' = g /\ shutdown' = TRUE
        /\ runs' = runs + 1 /\ UNCHANGED <<member, accepting, logOpen>>
    BY <1>4 DEF Enter, At
  <2>2. \A h \in Callers : call[h] \in {"none", "waiting"} BY <1>4 DEF IInv, FlagSet
  <2>3. CallType' BY <2>1 DEF IInv, CallType, Places
  <2>4. LockHeld' BY <2>1, <2>2 DEF IInv, CallType, LockHeld, Working
  <2>5. FlagSet' BY <1>4, <2>1 DEF IInv, FlagSet
  <2>6. DoneSoFar' BY <2>1, <2>2 DEF IInv, CallType, DoneSoFar
  <2>7. LogLast' BY <1>1, <2>1 DEF IInv, LogLast
  <2>8. Begun' BY <2>1 DEF IInv, CallType, Begun, Working
  <2>9. SuccessMeansDown' BY <2>1, <2>2 DEF IInv, CallType, SuccessMeansDown
  <2> QED BY <2>3, <2>4, <2>5, <2>6, <2>7, <2>8, <2>9 DEF IInv
<1> QED BY <1>3, <1>4 DEF IInv, CallType

\* A step of the list gets its caller further, or ends the call with an error.
LEMMA WorkKeepsIInv ==
  ASSUME IInv, NEW g \in Callers, Leave(g) \/ Stop(g) \/ Drain(g) \/ CloseLog(g)
  PROVE  IInv'
<1>1. Active' = Active BY DEF Leave, Stop, Drain, CloseLog, svars, Active
<1>2. /\ call[g] \in Working /\ lock = g
      /\ \A h \in Callers \ {g} : call[h] \notin Working
  BY DEF Leave, Stop, Drain, CloseLog, IInv, LockHeld, Working
<1>3. shutdown /\ runs = 1
  BY <1>2 DEF IInv, FlagSet, Working
<1>4. PICK place \in Working \cup {"nil", "error"} :
        /\ call' = [call EXCEPT ![g] = place]
        /\ lock' = IF place \in Working THEN g ELSE NoCaller
        /\ place = "stop" => ~member'
        /\ place = "drain" => ~member' /\ ~accepting'
        /\ place = "close" => ~member' /\ ~accepting' /\ Active = {}
        /\ place = "nil" => ~member' /\ ~accepting' /\ ~logOpen'
        /\ place # "leave"
  <2>1. CASE Leave(g)
    <3>1. CASE member' = FALSE /\ At(g, "stop") /\ UNCHANGED lock
      BY <1>2, <3>1 DEF At, Working
    <3>2. CASE Return(g, "error") BY <3>2 DEF Return, At, Working
    <3> QED BY <2>1, <3>1, <3>2 DEF Leave
  <2>2. CASE Stop(g) BY <1>2, <2>2 DEF Stop, At, Working, IInv, DoneSoFar
  <2>3. CASE Drain(g) BY <1>2, <2>3 DEF Drain, At, Working, IInv, DoneSoFar
  <2>4. CASE CloseLog(g)
    <3>1. ~member' /\ ~accepting' BY <2>4 DEF CloseLog, IInv, DoneSoFar
    <3>2. CASE logOpen' = FALSE /\ Return(g, "nil")
      BY <3>1, <3>2 DEF Return, At, Working
    <3>3. CASE Return(g, "error") BY <3>3 DEF Return, At, Working
    <3> QED BY <2>4, <3>2, <3>3 DEF CloseLog
  <2> QED BY <2>1, <2>2, <2>3, <2>4
<1>5. /\ UNCHANGED <<shutdown, runs>>
      /\ member' \in BOOLEAN /\ accepting' \in BOOLEAN /\ logOpen' \in BOOLEAN
      /\ ~member => ~member'
      /\ ~accepting => ~accepting'
      /\ ~logOpen => ~logOpen'
      /\ ~logOpen' => ~logOpen \/ call[g] = "close"
  <2>1. member \in BOOLEAN /\ accepting \in BOOLEAN /\ logOpen \in BOOLEAN
    BY DEF IInv, CallType
  <2>2. CASE Leave(g)
    <3>1. UNCHANGED <<shutdown, runs, accepting, logOpen>> BY <2>2 DEF Leave
    <3>2. member' = FALSE \/ member' = member BY <2>2 DEF Leave
    <3>3. member' \in BOOLEAN BY <2>1, <3>2
    <3>4. ~member => ~member' BY <2>1, <3>2
    <3> QED BY <2>1, <3>1, <3>3, <3>4
  <2>3. CASE Stop(g) BY <2>1, <2>3 DEF Stop
  <2>4. CASE Drain(g) BY <2>1, <2>4 DEF Drain
  <2>5. CASE CloseLog(g)
    <3>1. call[g] = "close" /\ UNCHANGED <<shutdown, runs, member, accepting>>
      BY <2>5 DEF CloseLog
    <3>2. logOpen' = FALSE \/ logOpen' = logOpen BY <2>5 DEF CloseLog
    <3>3. logOpen' \in BOOLEAN BY <2>1, <3>2
    <3>4. ~logOpen => ~logOpen' BY <2>1, <3>2
    <3> QED BY <2>1, <3>1, <3>3, <3>4
  <2> QED BY <2>2, <2>3, <2>4, <2>5
<1>6. CallType' BY <1>4, <1>5 DEF IInv, CallType, Places, Working
<1>7. LockHeld' BY <1>2, <1>4, NoCallerAssumption DEF IInv, CallType, LockHeld, Working
<1>8. FlagSet' BY <1>3, <1>5 DEF FlagSet
<1>9. DoneSoFar' BY <1>1, <1>2, <1>4 DEF IInv, CallType, DoneSoFar, Working
<1>10. LogLast' BY <1>1, <1>5 DEF IInv, LogLast, DoneSoFar
<1>11. Begun' BY <1>4 DEF IInv, CallType, Begun, Working
<1>12. SuccessMeansDown'
  <2> SUFFICES ASSUME NEW h \in Callers, call'[h] = "nil"
               PROVE  (\E k \in Callers : call'[k] = "error") \/ (~member' /\ ~accepting' /\ ~logOpen')
    BY DEF SuccessMeansDown
  <2>1. CASE h = g BY <1>4, <2>1 DEF IInv, CallType
  <2>2. CASE h # g
    <3>1. call[h] = "nil" BY <1>4, <2>2 DEF IInv, CallType
    <3>2. CASE \E k \in Callers : call[k] = "error"
      BY <1>2, <1>4, <3>2 DEF IInv, CallType, Working
    <3>3. CASE ~member /\ ~accepting /\ ~logOpen BY <1>5, <3>3
    <3> QED BY <3>1, <3>2, <3>3 DEF IInv, SuccessMeansDown
  <2> QED BY <2>1, <2>2
<1> QED BY <1>6, <1>7, <1>8, <1>9, <1>10, <1>11, <1>12 DEF IInv

\* The invariant of the agent's own variables.
LEMMA IInvHolds == SpecAgent => []IInv
<1>1. InitAgent => IInv
  BY NoCallerAssumption
  DEF InitAgent, IInv, CallType, LockHeld, FlagSet, DoneSoFar, LogLast, Begun,
      SuccessMeansDown, Places, Working, Callers
<1>2. IInv /\ [NextAgent]_avars => IInv'
  BY StreamsKeepIInv, OtherStepsKeepIInv, EnterKeepsIInv, WorkKeepsIInv
  DEF NextAgent, ShutdownStep
<1> QED BY <1>1, <1>2, PTL DEF SpecAgent

\* The log is closed under no handler, however many clients there are and
\* whenever they open their streams (agent.go:288).
THEOREM LogClosedLast == SpecAgent => []HandlersEndBeforeLog
<1>1. IInv => HandlersEndBeforeLog BY DEF IInv, LogLast, HandlersEndBeforeLog
<1> QED BY <1>1, IInvHolds, PTL

\* One caller of Shutdown runs the list, once (agent.go:283).
THEOREM OneShutdown == SpecAgent => []ShutdownOnce
<1>1. IInv => ShutdownOnce
  BY DEF IInv, CallType, LockHeld, FlagSet, ShutdownOnce, Places, Working
<1> QED BY <1>1, IInvHolds, PTL

\* A call of Shutdown that reports success has seen everything down, unless an
\* earlier one has failed (agent.go:269).
THEOREM SuccessIsDown == SpecAgent => []SuccessMeansDown
<1>1. IInv => SuccessMeansDown BY DEF IInv
<1> QED BY <1>1, IInvHolds, PTL

(***************************************************************************)
(* The streams of a server that is shut down                               *)
(***************************************************************************)

\* The lock, the flag and what is switched off have their types.
OwnTypes ==
  /\ call \in [Callers -> Places]
  /\ lock \in Callers \cup {NoCaller}
  /\ shutdown \in BOOLEAN /\ member \in BOOLEAN
  /\ accepting \in BOOLEAN /\ graceful \in BOOLEAN /\ logOpen \in BOOLEAN

\* The types of the agent's own variables.
LEMMA OwnTypesHold == SpecAgent => []OwnTypes
<1>1. InitAgent => OwnTypes BY DEF InitAgent, OwnTypes, Places
<1>2. OwnTypes /\ [NextAgent]_avars => OwnTypes'
  <2> SUFFICES ASSUME OwnTypes, [NextAgent]_avars PROVE OwnTypes' OBVIOUS
  <2>1. CASE Streams BY <2>1 DEF Streams, ownVars, OwnTypes
  <2>2. CASE UNCHANGED avars BY <2>2 DEF avars, OwnTypes
  <2>3. CASE ListenerFails BY <2>3 DEF ListenerFails, OwnTypes
  <2>4. ASSUME NEW g \in Callers, CallShutdown(g) PROVE OwnTypes'
    BY <2>4 DEF CallShutdown, At, OwnTypes, Places
  <2>5. ASSUME NEW g \in Callers, Enter(g) PROVE OwnTypes'
    BY <2>5 DEF Enter, At, OwnTypes, Places
  <2>6. ASSUME NEW g \in Callers, Leave(g) PROVE OwnTypes'
    BY <2>6 DEF Leave, Return, At, OwnTypes, Places
  <2>7. ASSUME NEW g \in Callers, Stop(g) PROVE OwnTypes'
    BY <2>7 DEF Stop, At, OwnTypes, Places
  <2>8. ASSUME NEW g \in Callers, Drain(g) PROVE OwnTypes'
    BY <2>8 DEF Drain, At, OwnTypes, Places
  <2>9. ASSUME NEW g \in Callers, CloseLog(g) PROVE OwnTypes'
    BY <2>9 DEF CloseLog, Return, At, OwnTypes, Places
  <2> QED BY <2>1, <2>2, <2>3, <2>4, <2>5, <2>6, <2>7, <2>8, <2>9
    DEF NextAgent, ShutdownStep
<1> QED BY <1>1, <1>2, PTL DEF SpecAgent

\* A server that may be shut down serves its streams as module LogServer says:
\* closing the listener and the log only takes steps away.
THEOREM StreamsAreServed == SpecAgent => Spec
<1>1. InitAgent => Init BY DEF InitAgent
<1>2. [NextAgent]_avars => [Next]_svars
  <2> SUFFICES ASSUME [NextAgent]_avars PROVE [Next]_svars OBVIOUS
  <2>1. CASE Streams BY <2>1 DEF Streams, Next
  <2>2. CASE UNCHANGED avars BY <2>2 DEF avars, svars
  <2>3. CASE ListenerFails BY <2>3 DEF ListenerFails
  <2>4. ASSUME NEW g \in Callers, CallShutdown(g) \/ ShutdownStep(g)
        PROVE  UNCHANGED svars
    BY <2>4 DEF CallShutdown, ShutdownStep, Enter, Leave, Stop, Drain, CloseLog
  <2> QED BY <2>1, <2>2, <2>3, <2>4 DEF NextAgent
<1> QED BY <1>1, <1>2, PTL DEF SpecAgent, Spec

\* Every variable of the server keeps its type while it is shut down.
THEOREM TypeOKAgentHolds == SpecAgent => []TypeOKAgent
<1>1. OwnTypes /\ TypeOK => TypeOKAgent BY DEF OwnTypes, TypeOKAgent, Places
<1> QED BY <1>1, OwnTypesHold, StreamsAreServed, ServerTypeOKHolds, PTL

\* Whenever the server is shut down, answers stay those of their requests
\* (server.go:195), requests stay in order, and no stream has a gap.
THEOREM StreamsStayInOrder ==
  SpecAgent => [](AnswersMatchRequests /\ ProducedInOrder /\ NoGapsInStream)
<1> QED
  BY StreamsAreServed, AnswersMatchRequestsHolds, ProducedInOrderHolds,
     NoGapsInStreamHolds, PTL

=============================================================================
