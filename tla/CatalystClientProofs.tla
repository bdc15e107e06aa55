------------------------ MODULE CatalystClientProofs ------------------------
(***************************************************************************)
(* Proofs about the clients of a validator: any number of clients and of   *)
(* connections, any commands, connections that break at any moment, and    *)
(* restarts.                                                               *)
(***************************************************************************)
EXTENDS CatalystClient, ValidatorProofs

-----------------------------------------------------------------------------
(* The clients drive the validator through its own operations: what holds  *)
(* of every behaviour of the validator holds with its clients.             *)

\* Every step of the composition is a step of the validator or leaves its
\* state alone.
LEMMA ClientStepIsValidatorStep == [ClientNext]_allVars => [Next]_vars
<1> SUFFICES ASSUME [ClientNext]_allVars
             PROVE  [Next]_vars
  OBVIOUS
<1>1. ASSUME NEW k \in Clients, ClientStep(k)
      PROVE  UNCHANGED vars
  <2>1. ASSUME NEW c \in Conns, Connect(k, c)
        PROVE  UNCHANGED vars
    BY <2>1 DEF Connect
  <2>2. CASE Receive(k)
    BY <2>2 DEF Receive
  <2>3. CASE ConnectFails(k)
    BY <2>3 DEF ConnectFails
  <2>4. CASE ReadFails(k)
    BY <2>4 DEF ReadFails
  <2> QED
    BY <1>1, <2>1, <2>2, <2>3, <2>4 DEF ClientStep
<1>2. ASSUME NEW c \in Conns, Server(c)
      PROVE  [Next]_vars
  <2>1. CASE HandleSubmit(c)
    BY <2>1 DEF HandleSubmit, Next
  <2>2. CASE HandleSeal(c)
    BY <2>2 DEF HandleSeal, Next
  <2>3. CASE HandleStatus(c)
    BY <2>3 DEF HandleStatus
  <2>4. CASE Respond(c)
    BY <2>4 DEF Respond
  <2>5. CASE RequestLost(c)
    BY <2>5 DEF RequestLost
  <2> QED
    BY <1>2, <2>1, <2>2, <2>3, <2>4, <2>5 DEF Server, Handle
<1>3. CASE Background
  BY <1>3 DEF Background, Next
<1>4. CASE RestartResets
  BY <1>4 DEF RestartResets, Next
<1>5. CASE UNCHANGED allVars
  BY <1>5 DEF allVars
<1> QED
  BY <1>1, <1>2, <1>3, <1>4, <1>5 DEF ClientNext

\* The validator behaves as specified whatever its clients do.
THEOREM ClientsKeepTheValidator == ClientSpec => Spec
<1>1. ClientInit => Init
  BY DEF ClientInit
<1> QED
  BY <1>1, ClientStepIsValidatorStep, PTL DEF ClientSpec, Spec

-----------------------------------------------------------------------------
(* Connections.  An open connection belongs to the client that waits on    *)
(* it, for the request that client is at; one whose client is gone carries *)
(* an earlier request, and is sent or handled but never answered.          *)

WireStates == {"free", "sent", "handling", "answered", "reset"}
Kinds == {"none", "failed", "tx", "status", "sealed", "no_transactions"}
Answers == [kind : Kinds, tx_id : Nat, batch_id : Nat, epoch : Nat]
Requests == Clients \X (Nat \ {0})

Wires == [st : WireStates, from : {<<>>} \cup Requests,
          open : BOOLEAN, answer : Answers]

ClientType ==
  /\ session \in [Clients -> [pc : Nat \ {0}, conn : Conns \cup {"none"}]]
  /\ wire \in [Conns -> Wires]
  /\ outcomes \in [Clients -> Seq(Answers)]
  /\ \A k \in Clients : Len(outcomes[k]) = session[k].pc - 1

\* A waiting client has an open connection that carries its request.
WaitingHasWire ==
  \A k \in Clients : session[k].conn # "none" =>
     /\ wire[session[k].conn].st # "free"
     /\ wire[session[k].conn].open
     /\ wire[session[k].conn].from = <<k, session[k].pc>>

\* The other way round.
WireHasRequest ==
  \A c \in Conns : wire[c].st # "free" =>
     \E k \in Clients, i \in Nat \ {0} :
        /\ wire[c].from = <<k, i>>
        /\ IF wire[c].open THEN session[k].conn = c /\ i = session[k].pc
           ELSE i < session[k].pc /\ wire[c].st \in {"sent", "handling"}

\* No request is on two connections.
OneWirePerRequest ==
  \A c, d \in Conns : wire[c].st # "free" /\ wire[d].st # "free"
                        /\ wire[c].from = wire[d].from => c = d

\* A free connection is nobody's.
FreeIsClosed == \A c \in Conns : wire[c].st = "free" => ~ wire[c].open

ConnInv ==
  ClientType /\ WaitingHasWire /\ WireHasRequest /\ OneWirePerRequest /\ FreeIsClosed

\* The record constants of the module are answers.
LEMMA AnswerTypes ==
  /\ NoAnswer = [kind |-> "none", tx_id |-> 0, batch_id |-> 0, epoch |-> 0]
  /\ Failure = [kind |-> "failed", tx_id |-> 0, batch_id |-> 0, epoch |-> 0]
  /\ NoAnswer \in Answers /\ Failure \in Answers
  /\ FreeWire = [st |-> "free", from |-> <<>>, open |-> FALSE, answer |-> NoAnswer]
BY DEF NoAnswer, Failure, FreeWire, Answers, Kinds

\* What a client's return from send_rpc does to its session.
LEMMA ReturnEffect ==
  ASSUME ClientType, NEW k \in Clients, NEW r \in Answers, Return(k, r)
  PROVE  /\ session' \in [Clients -> [pc : Nat \ {0}, conn : Conns \cup {"none"}]]
         /\ session'[k].pc = session[k].pc + 1
         /\ session'[k].conn = "none"
         /\ \A j \in Clients : j # k => session'[j] = session[j] /\ outcomes'[j] = outcomes[j]
         /\ outcomes' \in [Clients -> Seq(Answers)]
         /\ outcomes'[k] = Append(outcomes[k], r)
         /\ \A j \in Clients : Len(outcomes'[j]) = session'[j].pc - 1
<1>1. session' = [session EXCEPT ![k] = [pc |-> session[k].pc + 1, conn |-> "none"]]
  BY DEF Return
<1>2. outcomes' = [outcomes EXCEPT ![k] = Append(outcomes[k], r)]
  BY DEF Return
<1>3. /\ session \in [Clients -> [pc : Nat \ {0}, conn : Conns \cup {"none"}]]
      /\ outcomes \in [Clients -> Seq(Answers)]
      /\ \A j \in Clients : Len(outcomes[j]) = session[j].pc - 1
  BY DEF ClientType
<1>4. Append(outcomes[k], r) \in Seq(Answers) /\ Len(Append(outcomes[k], r)) = Len(outcomes[k]) + 1
  BY <1>3
<1>5. session[k].pc \in Nat \ {0}
  BY <1>3
<1>6. session' \in [Clients -> [pc : Nat \ {0}, conn : Conns \cup {"none"}]]
  BY <1>1, <1>3, <1>5
<1>7. session'[k].pc = session[k].pc + 1 /\ session'[k].conn = "none"
  BY <1>1, <1>3
<1>8. \A j \in Clients : j # k => session'[j] = session[j] /\ outcomes'[j] = outcomes[j]
  BY <1>1, <1>2, <1>3
<1>9. outcomes' \in [Clients -> Seq(Answers)] /\ outcomes'[k] = Append(outcomes[k], r)
  BY <1>2, <1>3, <1>4
<1>10. \A j \in Clients : Len(outcomes'[j]) = session'[j].pc - 1
  <2> SUFFICES ASSUME NEW j \in Clients
               PROVE  Len(outcomes'[j]) = session'[j].pc - 1
    OBVIOUS
  <2>1. CASE j = k
    BY <2>1, <1>3, <1>4, <1>5, <1>7, <1>9
  <2>2. CASE j # k
    BY <2>2, <1>3, <1>8
  <2> QED
    BY <2>1, <2>2
<1> QED
  BY <1>6, <1>7, <1>8, <1>9, <1>10

\* An exchange on one connection by the validator: the connection stays as
\* it was for the client, or is given up when there is no client any more.
LEMMA WireStepInductive ==
  ASSUME ConnInv, NEW c \in Conns,
         wire' \in [Conns -> Wires],
         \A d \in Conns : d # c => wire'[d] = wire[d],
         UNCHANGED <<session, outcomes>>,
         wire[c].st # "free",
         \/ wire'[c] = FreeWire /\ ~wire[c].open
         \/ /\ wire'[c].from = wire[c].from /\ wire'[c].open = wire[c].open
            /\ wire'[c].st \in IF wire[c].open THEN WireStates \ {"free"}
                                ELSE {"sent", "handling"}
  PROVE  ConnInv'
<1>0. FreeWire.st = "free" /\ ~ FreeWire.open
  BY AnswerTypes
<1>1. ClientType'
  BY DEF ConnInv, ClientType
<1>3. WaitingHasWire'
  <2> SUFFICES ASSUME NEW k \in Clients, session[k].conn # "none"
               PROVE  /\ wire'[session[k].conn].st # "free"
                      /\ wire'[session[k].conn].open
                      /\ wire'[session[k].conn].from = <<k, session[k].pc>>
    BY DEF WaitingHasWire
  <2>1. session[k].conn \in Conns
    BY DEF ConnInv, ClientType
  <2> QED
    BY <1>0, <2>1 DEF ConnInv, WaitingHasWire
<1>4. WireHasRequest'
  <2> SUFFICES ASSUME NEW d \in Conns, wire'[d].st # "free"
               PROVE  \E k \in Clients, i \in Nat \ {0} :
                        /\ wire'[d].from = <<k, i>>
                        /\ IF wire'[d].open THEN session[k].conn = d /\ i = session[k].pc
                           ELSE i < session[k].pc /\ wire'[d].st \in {"sent", "handling"}
    BY DEF WireHasRequest
  <2>1. CASE d # c
    BY <2>1 DEF ConnInv, WireHasRequest
  <2>2. CASE d = c
    BY <1>0, <2>2 DEF ConnInv, WireHasRequest
  <2> QED
    BY <2>1, <2>2
<1>5. OneWirePerRequest'
  BY <1>0 DEF ConnInv, OneWirePerRequest
<1>6. FreeIsClosed'
  BY <1>0 DEF ConnInv, FreeIsClosed
<1> QED
  BY <1>1, <1>3, <1>4, <1>5, <1>6 DEF ConnInv

\* A client's return gives its connection up, or leaves it to the validator.
LEMMA ReturnStepInductive ==
  ASSUME ConnInv, NEW k \in Clients, NEW r \in Answers, Return(k, r),
         \/ session[k].conn = "none" /\ UNCHANGED wire
         \/ /\ session[k].conn # "none"
            /\ \/ wire' = [wire EXCEPT ![session[k].conn] = FreeWire]
               \/ /\ wire[session[k].conn].st \in {"sent", "handling"}
                  /\ wire' = [wire EXCEPT ![session[k].conn] =
                               [wire[session[k].conn] EXCEPT !.open = FALSE]]
  PROVE  ConnInv'
<1> DEFINE c == session[k].conn
<1>0. /\ session'[k].pc = session[k].pc + 1 /\ session'[k].conn = "none"
      /\ \A j \in Clients : j # k => session'[j] = session[j]
      /\ session[k].pc \in Nat \ {0} /\ c \in Conns \cup {"none"}
      /\ wire \in [Conns -> Wires]
  BY ReturnEffect DEF ConnInv, ClientType
<1>1. FreeWire \in Wires
  BY AnswerTypes DEF Wires, WireStates
<1>2. ASSUME c # "none"
      PROVE  /\ c \in Conns /\ wire[c] \in Wires
             /\ [wire[c] EXCEPT !.open = FALSE] \in Wires
             /\ [wire[c] EXCEPT !.open = FALSE].st = wire[c].st
             /\ [wire[c] EXCEPT !.open = FALSE].from = wire[c].from
             /\ ~ [wire[c] EXCEPT !.open = FALSE].open
             /\ wire[c].from = <<k, session[k].pc>>
  <2>1. c \in Conns /\ wire[c] \in Wires
    BY <1>0, <1>2
  <2>2. wire[c].from = <<k, session[k].pc>>
    BY <1>2 DEF ConnInv, WaitingHasWire
  <2> QED
    BY <2>1, <2>2 DEF Wires
<1>3. ClientType'
  BY <1>0, <1>1, <1>2, ReturnEffect DEF ConnInv, ClientType
<1>4. \A d \in Conns : d # c => wire'[d] = wire[d]
  BY <1>0
<1>5. c # "none" =>
        \/ wire'[c].st = "free" /\ ~ wire'[c].open
        \/ /\ wire[c].st \in {"sent", "handling"} /\ wire'[c].st = wire[c].st
           /\ wire'[c].from = wire[c].from /\ ~ wire'[c].open
  <2> SUFFICES ASSUME c # "none"
               PROVE  \/ wire'[c].st = "free" /\ ~ wire'[c].open
                      \/ /\ wire[c].st \in {"sent", "handling"} /\ wire'[c].st = wire[c].st
                         /\ wire'[c].from = wire[c].from /\ ~ wire'[c].open
    OBVIOUS
  <2>1. c \in Conns
    BY <1>2
  <2>2. CASE wire' = [wire EXCEPT ![c] = FreeWire]
    BY <1>0, <2>1, <2>2, AnswerTypes
  <2>3. CASE /\ wire[c].st \in {"sent", "handling"}
             /\ wire' = [wire EXCEPT ![c] = [wire[c] EXCEPT !.open = FALSE]]
    <3>1. wire'[c] = [wire[c] EXCEPT !.open = FALSE]
      BY <1>0, <2>1, <2>3
    <3> QED
      BY <3>1, <2>3, <1>2
  <2> QED
    BY <2>2, <2>3
<1> HIDE DEF c
<1>6. WaitingHasWire'
  <2> SUFFICES ASSUME NEW j \in Clients, session'[j].conn # "none"
               PROVE  /\ wire'[session'[j].conn].st # "free"
                      /\ wire'[session'[j].conn].open
                      /\ wire'[session'[j].conn].from = <<j, session'[j].pc>>
    BY DEF WaitingHasWire
  <2>1. j # k /\ session'[j] = session[j]
    BY <1>0
  <2>2. session[j].conn \in Conns /\ wire[session[j].conn].from = <<j, session[j].pc>>
    BY <2>1 DEF ConnInv, ClientType, WaitingHasWire
  <2>3. session[j].conn # c
    <3> SUFFICES ASSUME session[j].conn = c
                 PROVE  FALSE
      OBVIOUS
    <3>1. c # "none"
      BY <2>1
    <3> QED
      BY <3>1, <1>2, <2>2, <2>1
  <2> QED
    BY <1>4, <2>1, <2>2, <2>3 DEF ConnInv, WaitingHasWire
<1>7. WireHasRequest'
  <2> SUFFICES ASSUME NEW d \in Conns, wire'[d].st # "free"
               PROVE  \E j \in Clients, i \in Nat \ {0} :
                        /\ wire'[d].from = <<j, i>>
                        /\ IF wire'[d].open THEN session'[j].conn = d /\ i = session'[j].pc
                           ELSE i < session'[j].pc /\ wire'[d].st \in {"sent", "handling"}
    BY DEF WireHasRequest
  <2>1. CASE d = c
    <3>1. c # "none"
      BY <2>1, ClientAssumptions
    <3> QED
      BY <3>1, <2>1, <1>0, <1>2, <1>5
  <2>2. CASE d # c
    <3>1. wire'[d] = wire[d]
      BY <2>2, <1>4
    <3>2. PICK j \in Clients, i \in Nat \ {0} :
            /\ wire[d].from = <<j, i>>
            /\ IF wire[d].open THEN session[j].conn = d /\ i = session[j].pc
               ELSE i < session[j].pc /\ wire[d].st \in {"sent", "handling"}
      BY <3>1 DEF ConnInv, WireHasRequest
    <3>3. CASE j # k
      BY <3>1, <3>2, <3>3, <1>0
    <3>4. CASE j = k
      <4>1. ~ wire[d].open
        BY <3>2, <3>4, <2>2 DEF c
      <4> QED
        BY <4>1, <3>1, <3>2, <3>4, <1>0
    <3> QED
      BY <3>3, <3>4
  <2> QED
    BY <2>1, <2>2
<1>8. OneWirePerRequest'
  BY <1>4, <1>5, ClientAssumptions DEF ConnInv, OneWirePerRequest
<1>9. FreeIsClosed'
  BY <1>4, <1>5, ClientAssumptions DEF ConnInv, FreeIsClosed
<1> QED
  BY <1>3, <1>6, <1>7, <1>8, <1>9 DEF ConnInv

\* Connections and sessions stay together over every step.
LEMMA ConnInductive == TypeInv /\ ConnInv /\ [ClientNext]_allVars => ConnInv'
<1> SUFFICES ASSUME TypeInv, ConnInv, [ClientNext]_allVars
             PROVE  ConnInv'
  OBVIOUS
<1>0. /\ session \in [Clients -> [pc : Nat \ {0}, conn : Conns \cup {"none"}]]
      /\ wire \in [Conns -> Wires]
      /\ restarts \in Nat /\ tx_counter \in Nat
      /\ \A c \in Conns : reply[c].kind \in Kinds /\ reply[c].batch_id \in Nat
  BY ValidatorAssumptions DEF ConnInv, ClientType, TypeInv, TypeOK, Reply, Kinds
<1>1. ASSUME NEW k \in Clients, NEW c \in Conns, Connect(k, c)
      PROVE  ConnInv'
  <2> DEFINE w == [FreeWire EXCEPT !.st = "sent", !.open = TRUE,
                                  !.from = <<k, session[k].pc>>]
  <2>1. /\ wire' = [wire EXCEPT ![c] = w]
        /\ session' = [session EXCEPT ![k].conn = c]
        /\ session[k].conn = "none" /\ wire[c].st = "free"
        /\ outcomes' = outcomes
    BY <1>1 DEF Connect, HasRequest
  <2>2. w \in Wires
    BY <1>0, AnswerTypes DEF Wires, WireStates, Requests
  <2>3. w.st = "sent" /\ w.from = <<k, session[k].pc>> /\ w.open
    BY AnswerTypes
  <2> HIDE DEF w
  <2>4. /\ wire' \in [Conns -> Wires] /\ wire'[c] = w
        /\ \A d \in Conns : d # c => wire'[d] = wire[d]
    BY <1>0, <2>1, <2>2
  <2>5. /\ session' \in [Clients -> [pc : Nat \ {0}, conn : Conns \cup {"none"}]]
        /\ session'[k].conn = c
        /\ \A j \in Clients : session'[j].pc = session[j].pc
        /\ \A j \in Clients : j # k => session'[j] = session[j]
    BY <1>0, <2>1
  <2>6. ClientType'
    BY <2>1, <2>4, <2>5 DEF ConnInv, ClientType
  <2>7. \A d \in Conns : wire[d].st # "free" => wire[d].from # <<k, session[k].pc>>
    <3> SUFFICES ASSUME NEW d \in Conns, wire[d].st # "free",
                        wire[d].from = <<k, session[k].pc>>
                 PROVE  FALSE
      OBVIOUS
    <3>1. PICK j \in Clients, i \in Nat \ {0} :
            /\ wire[d].from = <<j, i>>
            /\ IF wire[d].open THEN session[j].conn = d /\ i = session[j].pc
               ELSE i < session[j].pc /\ wire[d].st \in {"sent", "handling"}
      BY DEF ConnInv, WireHasRequest
    <3>2. j = k /\ i = session[k].pc /\ session[k].pc \in Nat
      BY <3>1, <1>0
    <3> QED
      BY <3>1, <3>2, <2>1, ClientAssumptions
  <2>8. WaitingHasWire'
    <3> SUFFICES ASSUME NEW j \in Clients, session'[j].conn # "none"
                 PROVE  /\ wire'[session'[j].conn].st # "free"
                        /\ wire'[session'[j].conn].open
                        /\ wire'[session'[j].conn].from = <<j, session'[j].pc>>
      BY DEF WaitingHasWire
    <3>1. CASE j = k
      BY <3>1, <2>3, <2>4, <2>5
    <3>2. CASE j # k
      <4>1. session[j].conn \in Conns /\ wire[session[j].conn].st # "free"
        BY <3>2, <2>5, <1>0 DEF ConnInv, WaitingHasWire
      <4>2. session[j].conn # c
        BY <4>1, <2>1
      <4>3. session'[j] = session[j] /\ wire'[session[j].conn] = wire[session[j].conn]
        BY <4>1, <4>2, <3>2, <2>4, <2>5
      <4>4. /\ wire[session[j].conn].open
            /\ wire[session[j].conn].from = <<j, session[j].pc>>
        BY <4>3 DEF ConnInv, WaitingHasWire
      <4> QED
        BY <4>1, <4>3, <4>4
    <3> QED
      BY <3>1, <3>2
  <2>9. WireHasRequest'
    <3> SUFFICES ASSUME NEW d \in Conns, wire'[d].st # "free"
                 PROVE  \E j \in Clients, i \in Nat \ {0} :
                          /\ wire'[d].from = <<j, i>>
                          /\ IF wire'[d].open THEN session'[j].conn = d /\ i = session'[j].pc
                             ELSE i < session'[j].pc /\ wire'[d].st \in {"sent", "handling"}
      BY DEF WireHasRequest
    <3>1. CASE d = c
      BY <3>1, <2>3, <2>4, <2>5, <1>0
    <3>2. CASE d # c
      <4>1. wire'[d] = wire[d]
        BY <3>2, <2>4
      <4>2. PICK j \in Clients, i \in Nat \ {0} :
              /\ wire[d].from = <<j, i>>
              /\ IF wire[d].open THEN session[j].conn = d /\ i = session[j].pc
                 ELSE i < session[j].pc /\ wire[d].st \in {"sent", "handling"}
        BY <4>1 DEF ConnInv, WireHasRequest
      <4>3. wire[d].open => j # k
        BY <4>2, <2>1, ClientAssumptions
      <4> QED
        BY <4>1, <4>2, <4>3, <2>5
    <3> QED
      BY <3>1, <3>2
  <2>10. OneWirePerRequest'
    <3> SUFFICES ASSUME NEW d \in Conns, NEW e \in Conns,
                        wire'[d].st # "free", wire'[e].st # "free",
                        wire'[d].from = wire'[e].from
                 PROVE  d = e
      BY DEF OneWirePerRequest
    <3> QED
      BY <2>3, <2>4, <2>7 DEF ConnInv, OneWirePerRequest
  <2>11. FreeIsClosed'
    BY <2>3, <2>4 DEF ConnInv, FreeIsClosed
  <2> QED
    BY <2>6, <2>8, <2>9, <2>10, <2>11 DEF ConnInv
<1>2. ASSUME NEW k \in Clients, Receive(k)
      PROVE  ConnInv'
  <2>1. session[k].conn \in Conns /\ wire[session[k].conn] \in Wires
    BY <1>0, <1>2 DEF Receive
  <2>2. wire[session[k].conn].answer \in Answers
    BY <2>1 DEF Wires
  <2> QED
    BY <1>2, <2>2, ReturnStepInductive DEF Receive
<1>3. ASSUME NEW k \in Clients, ConnectFails(k)
      PROVE  ConnInv'
  BY <1>3, AnswerTypes, ReturnStepInductive DEF ConnectFails, HasRequest
<1>4. ASSUME NEW k \in Clients, ReadFails(k)
      PROVE  ConnInv'
  <2>1. /\ session[k].conn # "none" /\ Return(k, Failure)
        /\ wire' = [wire EXCEPT ![session[k].conn] =
                      IF wire[session[k].conn].st \in {"sent", "handling"}
                      THEN [wire[session[k].conn] EXCEPT !.open = FALSE]
                      ELSE FreeWire]
    BY <1>4 DEF ReadFails
  <2>2. CASE wire[session[k].conn].st \in {"sent", "handling"}
    BY <2>1, <2>2, AnswerTypes, ReturnStepInductive
  <2>3. CASE wire[session[k].conn].st \notin {"sent", "handling"}
    BY <2>1, <2>3, AnswerTypes, ReturnStepInductive
  <2> QED
    BY <2>2, <2>3
<1>5. ASSUME NEW c \in Conns, HandleSubmit(c)
      PROVE  ConnInv'
  <2>1. wire[c] \in Wires /\ wire[c].st = "sent" /\ UNCHANGED <<session, outcomes>>
    BY <1>0, <1>5 DEF HandleSubmit
  <2>2. /\ wire' \in [Conns -> Wires]
        /\ \A d \in Conns : d # c => wire'[d] = wire[d]
        /\ wire'[c].from = wire[c].from /\ wire'[c].open = wire[c].open
        /\ wire'[c].st = "handling"
    <3> DEFINE answer == [kind |-> "tx", tx_id |-> tx_counter + 1, batch_id |-> 0,
                          epoch |-> restarts]
    <3>1. answer \in Answers
      BY <1>0 DEF Answers, Kinds
    <3>2. wire' = [wire EXCEPT ![c].st = "handling", ![c].answer = answer]
      BY <1>5 DEF HandleSubmit
    <3> HIDE DEF answer
    <3> QED
      BY <1>0, <2>1, <3>1, <3>2 DEF Wires, WireStates
  <2> QED
    BY <2>1, <2>2, WireStepInductive DEF WireStates
<1>6. ASSUME NEW c \in Conns, HandleSeal(c)
      PROVE  ConnInv'
  <2>1. wire[c] \in Wires /\ wire[c].st = "sent" /\ UNCHANGED <<session, outcomes>>
    BY <1>0, <1>6 DEF HandleSeal
  <2>2. /\ wire' \in [Conns -> Wires]
        /\ \A d \in Conns : d # c => wire'[d] = wire[d]
        /\ wire'[c].from = wire[c].from /\ wire'[c].open = wire[c].open
        /\ wire'[c].st = "handling"
    BY <1>0, <1>6, <2>1 DEF HandleSeal, Wires, WireStates
  <2> QED
    BY <2>1, <2>2, WireStepInductive DEF WireStates
<1>7. ASSUME NEW c \in Conns, HandleStatus(c)
      PROVE  ConnInv'
  <2>1. wire[c] \in Wires /\ wire[c].st = "sent" /\ UNCHANGED <<session, outcomes>>
    BY <1>0, <1>7 DEF HandleStatus
  <2>2. /\ wire' \in [Conns -> Wires]
        /\ \A d \in Conns : d # c => wire'[d] = wire[d]
        /\ wire'[c].from = wire[c].from /\ wire'[c].open = wire[c].open
        /\ wire'[c].st = "handling"
    BY <1>0, <1>7, <2>1, AnswerTypes DEF HandleStatus, Wires, WireStates, Answers, Kinds
  <2> QED
    BY <2>1, <2>2, WireStepInductive DEF WireStates
<1>8. ASSUME NEW c \in Conns, Respond(c)
      PROVE  ConnInv'
  <2>0. wire[c] \in Wires /\ wire[c].st = "handling" /\ UNCHANGED <<session, outcomes>>
    BY <1>0, <1>8 DEF Respond
  <2>1. CASE wire[c].open
    <3>1. Response(c) \in Answers
      BY <1>0, <2>0 DEF Response, Wires, Answers, Kinds
    <3>2. /\ wire' \in [Conns -> Wires]
          /\ \A d \in Conns : d # c => wire'[d] = wire[d]
          /\ wire'[c].from = wire[c].from /\ wire'[c].open = wire[c].open
          /\ wire'[c].st = "answered"
      BY <1>0, <1>8, <2>0, <2>1, <3>1 DEF Respond, Wires, WireStates
    <3> QED
      BY <2>0, <2>1, <3>2, WireStepInductive DEF WireStates
  <2>2. CASE ~ wire[c].open
    <3>1. FreeWire \in Wires
      BY AnswerTypes DEF Wires, WireStates
    <3>2. wire' = [wire EXCEPT ![c] = FreeWire]
      BY <1>8, <2>2 DEF Respond
    <3>3. /\ wire' \in [Conns -> Wires] /\ wire'[c] = FreeWire
          /\ \A d \in Conns : d # c => wire'[d] = wire[d]
      BY <1>0, <3>1, <3>2
    <3> QED
      BY <2>0, <2>2, <3>3, WireStepInductive
  <2> QED
    BY <2>1, <2>2
<1>9. ASSUME NEW c \in Conns, RequestLost(c)
      PROVE  ConnInv'
  <2>1. FreeWire \in Wires
    BY AnswerTypes DEF Wires, WireStates
  <2>2. /\ wire' \in [Conns -> Wires] /\ wire'[c] = FreeWire
        /\ \A d \in Conns : d # c => wire'[d] = wire[d]
    BY <1>0, <1>9, <2>1 DEF RequestLost
  <2> QED
    BY <1>9, <2>2, WireStepInductive DEF RequestLost
<1>10. CASE RestartResets
  <2>1. /\ wire' = [c \in Conns |-> IF wire[c].open THEN [wire[c] EXCEPT !.st = "reset"]
                                    ELSE FreeWire]
        /\ UNCHANGED <<session, outcomes>>
    BY <1>10 DEF RestartResets
  <2>2. FreeWire \in Wires /\ FreeWire.st = "free" /\ ~ FreeWire.open
    BY AnswerTypes DEF Wires, WireStates
  <2>3. \A c \in Conns : /\ wire'[c] \in Wires
                         /\ IF wire[c].open
                            THEN /\ wire'[c].st = "reset" /\ wire'[c].open
                                 /\ wire'[c].from = wire[c].from
                            ELSE wire'[c].st = "free"
    BY <1>0, <2>1, <2>2 DEF Wires, WireStates
  <2>4. ClientType'
    <3>1. wire' \in [Conns -> Wires]
      BY <2>1, <2>3
    <3> QED
      BY <2>1, <3>1 DEF ConnInv, ClientType
  <2>5. WaitingHasWire'
    BY <1>0, <2>1, <2>3 DEF ConnInv, WaitingHasWire
  <2>6. \A c \in Conns : wire'[c].st # "free" => wire[c].st # "free" /\ wire[c].open
    BY <2>3 DEF ConnInv, FreeIsClosed
  <2>7. WireHasRequest'
    BY <2>1, <2>3, <2>6 DEF ConnInv, WireHasRequest
  <2>8. OneWirePerRequest'
    BY <2>3, <2>6 DEF ConnInv, OneWirePerRequest
  <2>9. FreeIsClosed'
    BY <1>0, <2>1, <2>2, <2>3 DEF FreeIsClosed
  <2> QED
    BY <2>4, <2>5, <2>7, <2>8, <2>9 DEF ConnInv
<1>11. CASE UNCHANGED clientVars
  <2>1. session' = session /\ wire' = wire /\ outcomes' = outcomes
    BY <1>11 DEF clientVars
  <2>2. ClientType' /\ WaitingHasWire' /\ OneWirePerRequest' /\ FreeIsClosed'
    BY <2>1 DEF ConnInv, ClientType, WaitingHasWire, OneWirePerRequest, FreeIsClosed
  <2>3. WireHasRequest'
    BY <2>1 DEF ConnInv, WireHasRequest
  <2> QED
    BY <2>2, <2>3 DEF ConnInv
<1>12. ASSUME NEW k \in Clients, ClientStep(k)
       PROVE  ConnInv'
  BY <1>1, <1>2, <1>3, <1>4, <1>12 DEF ClientStep
<1>13. ASSUME NEW c \in Conns, Server(c)
       PROVE  ConnInv'
  BY <1>5, <1>6, <1>7, <1>8, <1>9, <1>13 DEF Server, Handle
<1>14. CASE Background
  BY <1>11, <1>14 DEF Background
<1>15. CASE UNCHANGED allVars
  BY <1>11, <1>15 DEF allVars
<1> QED
  BY <1>10, <1>12, <1>13, <1>14, <1>15 DEF ClientNext

\* All connections are free at the start.
LEMMA InitConn == ClientInit => ConnInv
<1> SUFFICES ASSUME ClientInit
             PROVE  ConnInv
  OBVIOUS
<1>1. FreeWire \in Wires /\ FreeWire.st = "free" /\ ~ FreeWire.open
  BY AnswerTypes DEF Wires, WireStates
<1>2. /\ \A c \in Conns : wire[c] = FreeWire
      /\ wire \in [Conns -> Wires]
  BY <1>1 DEF ClientInit
<1>3. /\ session \in [Clients -> [pc : Nat \ {0}, conn : Conns \cup {"none"}]]
      /\ \A k \in Clients : session[k].pc = 1 /\ session[k].conn = "none"
  BY DEF ClientInit
<1>4. Len(<<>>) = 0 /\ <<>> \in Seq(Answers)
  OBVIOUS
<1>5. outcomes \in [Clients -> Seq(Answers)] /\ \A k \in Clients : Len(outcomes[k]) = 0
  BY <1>4 DEF ClientInit
<1> QED
  BY <1>1, <1>2, <1>3, <1>5 DEF ConnInv, ClientType, WaitingHasWire, WireHasRequest,
     OneWirePerRequest, FreeIsClosed

-----------------------------------------------------------------------------
(* Acceptance.  A request the validator has accepted is one its client is  *)
(* past, or waits for on a connection from which it has been read: it is   *)
(* on no connection from which it could be read again.                     *)

AcceptedIsPast ==
  \A a \in accepted :
     \E k \in Clients, i \in Nat \ {0} :
        /\ a.from = <<k, i>>
        /\ i < session[k].pc \/ (i = session[k].pc /\ session[k].conn # "none")

AcceptedIsNotSent ==
  \A a \in accepted, c \in Conns : wire[c].st = "sent" => a.from # wire[c].from

\* An answer with an id is that of the request on its connection.
AnswerIsAccepted ==
  \A c \in Conns :
     /\ wire[c].st = "sent" => wire[c].answer.kind = "none"
     /\ wire[c].st \in {"handling", "answered"} /\ wire[c].answer.kind = "tx" =>
          [from |-> wire[c].from, tx_id |-> wire[c].answer.tx_id,
           epoch |-> wire[c].answer.epoch] \in accepted

AcceptInv ==
  /\ AcceptedIsPast /\ AcceptedIsNotSent /\ AnswerIsAccepted
  /\ AtMostOnce /\ AnsweredWithOwnId

\* A step that leaves the outcomes alone, accepts nothing and moves at most
\* connection c, to a state with the same request and an answer that is none
\* of a submission, or keeps it.
LEMMA AcceptKept ==
  ASSUME ConnInv, AcceptInv, UNCHANGED <<session, outcomes, accepted>>,
         \A c \in Conns :
           \/ wire'[c] = wire[c]
           \/ wire'[c].st \in {"free", "reset"}
           \/ /\ wire[c].st # "free" /\ wire'[c].st \in {"handling", "answered"}
              /\ wire'[c].from = wire[c].from
              /\ \/ wire'[c].answer.kind # "tx"
                 \/ wire[c].st \in {"handling", "answered"} /\ wire'[c].answer = wire[c].answer
  PROVE  AcceptInv'
<1>1. AcceptedIsPast'
  BY DEF AcceptInv, AcceptedIsPast
<1>2. AcceptedIsNotSent'
  BY DEF AcceptInv, AcceptedIsNotSent
<1>3. AnswerIsAccepted'
  <2> SUFFICES ASSUME NEW c \in Conns
               PROVE  /\ wire'[c].st = "sent" => wire'[c].answer.kind = "none"
                      /\ wire'[c].st \in {"handling", "answered"} /\ wire'[c].answer.kind = "tx" =>
                           [from |-> wire'[c].from, tx_id |-> wire'[c].answer.tx_id,
                            epoch |-> wire'[c].answer.epoch] \in accepted
    BY DEF AnswerIsAccepted
  <2> QED
    BY DEF AcceptInv, AnswerIsAccepted
<1>4. AtMostOnce' /\ AnsweredWithOwnId'
  BY DEF AcceptInv, AtMostOnce, AnsweredWithOwnId
<1> QED
  BY <1>1, <1>2, <1>3, <1>4 DEF AcceptInv

\* A return with an answer that is accepted if it carries an id.
LEMMA AcceptReturn ==
  ASSUME ConnInv, AcceptInv, NEW k \in Clients, NEW r \in Answers, Return(k, r),
         UNCHANGED accepted,
         r.kind = "tx" => [from |-> <<k, session[k].pc>>, tx_id |-> r.tx_id,
                           epoch |-> r.epoch] \in accepted,
         \A c \in Conns : \/ wire'[c].st = "free"
                          \/ /\ wire'[c].st = wire[c].st /\ wire'[c].from = wire[c].from
                             /\ wire'[c].answer = wire[c].answer
  PROVE  AcceptInv'
<1>1. /\ session'[k].pc = session[k].pc + 1 /\ session[k].pc \in Nat
      /\ \A j \in Clients : j # k => session'[j] = session[j] /\ outcomes'[j] = outcomes[j]
      /\ outcomes'[k] = Append(outcomes[k], r)
      /\ outcomes[k] \in Seq(Answers) /\ Len(outcomes[k]) = session[k].pc - 1
  BY ReturnEffect DEF ConnInv, ClientType
<1>2. AcceptedIsPast'
  <2> SUFFICES ASSUME NEW a \in accepted
               PROVE  \E j \in Clients, i \in Nat \ {0} :
                        /\ a.from = <<j, i>>
                        /\ i < session'[j].pc \/ (i = session'[j].pc /\ session'[j].conn # "none")
    BY DEF AcceptedIsPast
  <2>1. PICK j \in Clients, i \in Nat \ {0} :
          /\ a.from = <<j, i>>
          /\ i < session[j].pc \/ (i = session[j].pc /\ session[j].conn # "none")
    BY DEF AcceptInv, AcceptedIsPast
  <2>2. CASE j = k
    BY <2>1, <2>2, <1>1
  <2>3. CASE j # k
    BY <2>1, <2>3, <1>1
  <2> QED
    BY <2>2, <2>3
<1>3. AcceptedIsNotSent'
  BY DEF AcceptInv, AcceptedIsNotSent
<1>4. AnswerIsAccepted'
  BY DEF AcceptInv, AnswerIsAccepted
<1>5. AtMostOnce'
  BY DEF AcceptInv, AtMostOnce
<1>6. AnsweredWithOwnId'
  <2> SUFFICES ASSUME NEW j \in Clients, NEW i \in DOMAIN outcomes'[j],
                      outcomes'[j][i].kind = "tx"
               PROVE  [from |-> <<j, i>>, tx_id |-> outcomes'[j][i].tx_id,
                       epoch |-> outcomes'[j][i].epoch] \in accepted
    BY DEF AnsweredWithOwnId
  <2>1. CASE j # k
    BY <2>1, <1>1 DEF AcceptInv, AnsweredWithOwnId
  <2>2. CASE j = k /\ i = Len(outcomes[k]) + 1
    <3>1. i = session[k].pc /\ outcomes'[j][i] = r
      BY <2>2, <1>1
    <3> QED
      BY <2>2, <3>1
  <2>3. CASE j = k /\ i # Len(outcomes[k]) + 1
    <3>1. i \in DOMAIN outcomes[k] /\ outcomes'[j][i] = outcomes[k][i]
      BY <2>3, <1>1
    <3> QED
      BY <2>3, <3>1 DEF AcceptInv, AnsweredWithOwnId
  <2> QED
    BY <2>1, <2>2, <2>3
<1> QED
  BY <1>2, <1>3, <1>4, <1>5, <1>6 DEF AcceptInv

\* No step lets a request be accepted again, or answers it with another's id.
LEMMA AcceptInductive == TypeInv /\ ConnInv /\ AcceptInv /\ [ClientNext]_allVars => AcceptInv'
<1> SUFFICES ASSUME TypeInv, ConnInv, AcceptInv, [ClientNext]_allVars
             PROVE  AcceptInv'
  OBVIOUS
<1>0. /\ session \in [Clients -> [pc : Nat \ {0}, conn : Conns \cup {"none"}]]
      /\ wire \in [Conns -> Wires]
      /\ \A c \in Conns : reply[c].kind \in {"none", "sealed", "no_transactions"}
      /\ FreeWire.st = "free" /\ Failure \in Answers /\ Failure.kind = "failed"
  BY AnswerTypes DEF ConnInv, ClientType, TypeInv, TypeOK, Reply
<1>1. ASSUME NEW k \in Clients, NEW c \in Conns, Connect(k, c)
      PROVE  AcceptInv'
  <2>1. /\ session' = [session EXCEPT ![k].conn = c]
        /\ session[k].conn = "none" /\ UNCHANGED <<outcomes, accepted>>
    BY <1>1 DEF Connect, HasRequest
  <2>2. /\ wire'[c].st = "sent" /\ wire'[c].from = <<k, session[k].pc>>
        /\ wire'[c].answer.kind = "none"
        /\ \A d \in Conns : d # c => wire'[d] = wire[d]
    BY <1>0, <1>1, AnswerTypes DEF Connect
  <2>3. \A a \in accepted : a.from # <<k, session[k].pc>>
    BY <2>1, <1>0 DEF AcceptInv, AcceptedIsPast
  <2>4. AcceptedIsPast'
    <3> SUFFICES ASSUME NEW a \in accepted
                 PROVE  \E j \in Clients, i \in Nat \ {0} :
                          /\ a.from = <<j, i>>
                          /\ i < session'[j].pc \/ (i = session'[j].pc /\ session'[j].conn # "none")
      BY <2>1 DEF AcceptedIsPast
    <3>1. PICK j \in Clients, i \in Nat \ {0} :
            /\ a.from = <<j, i>>
            /\ i < session[j].pc \/ (i = session[j].pc /\ session[j].conn # "none")
      BY DEF AcceptInv, AcceptedIsPast
    <3>2. session'[j].pc = session[j].pc /\ (session[j].conn # "none" => session'[j].conn # "none")
      BY <1>0, <2>1, ClientAssumptions
    <3> QED
      BY <3>1, <3>2
  <2>5. AcceptedIsNotSent'
    BY <2>1, <2>2, <2>3 DEF AcceptInv, AcceptedIsNotSent
  <2>6. AnswerIsAccepted'
    BY <2>1, <2>2 DEF AcceptInv, AnswerIsAccepted
  <2>7. AtMostOnce' /\ AnsweredWithOwnId'
    BY <2>1 DEF AcceptInv, AtMostOnce, AnsweredWithOwnId
  <2> QED
    BY <2>4, <2>5, <2>6, <2>7 DEF AcceptInv
<1>2. ASSUME NEW k \in Clients, Receive(k)
      PROVE  AcceptInv'
  <2> DEFINE c == session[k].conn
  <2>1. /\ c \in Conns /\ wire[c].st = "answered" /\ Return(k, wire[c].answer)
        /\ wire' = [wire EXCEPT ![c] = FreeWire] /\ UNCHANGED accepted
    BY <1>0, <1>2 DEF Receive
  <2>2. wire[c].answer \in Answers
    BY <1>0, <2>1 DEF Wires
  <2>3. wire[c].from = <<k, session[k].pc>>
    BY <2>1, ClientAssumptions DEF ConnInv, WaitingHasWire
  <2>4. \A d \in Conns : wire'[d].st = "free" \/ wire'[d] = wire[d]
    BY <1>0, <2>1
  <2>5. wire[c].answer.kind = "tx" =>
          [from |-> <<k, session[k].pc>>, tx_id |-> wire[c].answer.tx_id,
           epoch |-> wire[c].answer.epoch] \in accepted
    BY <2>1, <2>3 DEF AcceptInv, AnswerIsAccepted
  <2> HIDE DEF c
  <2> QED
    BY <2>1, <2>2, <2>4, <2>5, AcceptReturn
<1>3. ASSUME NEW k \in Clients, ConnectFails(k)
      PROVE  AcceptInv'
  BY <1>0, <1>3, AcceptReturn DEF ConnectFails
<1>4. ASSUME NEW k \in Clients, ReadFails(k)
      PROVE  AcceptInv'
  <2> DEFINE c == session[k].conn
  <2>1. /\ c \in Conns /\ Return(k, Failure) /\ UNCHANGED accepted
        /\ wire' = [wire EXCEPT ![c] =
                      IF wire[c].st \in {"sent", "handling"} THEN [wire[c] EXCEPT !.open = FALSE]
                      ELSE FreeWire]
    BY <1>0, <1>4 DEF ReadFails
  <2>2. \A d \in Conns : \/ wire'[d].st = "free"
                         \/ /\ wire'[d].st = wire[d].st /\ wire'[d].from = wire[d].from
                            /\ wire'[d].answer = wire[d].answer
    BY <1>0, <2>1 DEF Wires
  <2> QED
    BY <1>0, <2>1, <2>2, AcceptReturn
<1>5. ASSUME NEW c \in Conns, HandleSubmit(c)
      PROVE  AcceptInv'
  <2> DEFINE answer == [kind |-> "tx", tx_id |-> tx_counter + 1, batch_id |-> 0,
                        epoch |-> restarts]
             new == [from |-> wire[c].from, tx_id |-> answer.tx_id, epoch |-> restarts]
  <2>1. /\ wire[c].st = "sent" /\ session' = session /\ outcomes' = outcomes
        /\ accepted' = accepted \cup {new}
    BY <1>5 DEF HandleSubmit
  <2>w. wire' = [wire EXCEPT ![c].st = "handling", ![c].answer = answer]
    BY <1>5 DEF HandleSubmit
  <2>2. new.from = wire[c].from
        /\ new = [from |-> wire[c].from, tx_id |-> answer.tx_id, epoch |-> answer.epoch]
    OBVIOUS
  <2> HIDE DEF answer, new
  <2>3. /\ wire'[c].st = "handling" /\ wire'[c].from = wire[c].from
        /\ wire'[c].answer = answer
        /\ \A d \in Conns : d # c => wire'[d] = wire[d]
    BY <1>0, <2>w DEF Wires
  <2>4. \A a \in accepted : a.from # new.from
    BY <2>1, <2>2 DEF AcceptInv, AcceptedIsNotSent
  <2>5. \E k \in Clients, i \in Nat \ {0} :
           /\ new.from = <<k, i>>
           /\ i < session[k].pc \/ (i = session[k].pc /\ session[k].conn # "none")
    BY <2>1, <2>2, ClientAssumptions DEF ConnInv, WireHasRequest
  <2>6. AcceptedIsPast'
    BY <2>1, <2>5 DEF AcceptInv, AcceptedIsPast
  <2>7. AcceptedIsNotSent'
    <3> SUFFICES ASSUME NEW a \in accepted', NEW d \in Conns, wire'[d].st = "sent",
                        a.from = wire'[d].from
                 PROVE  FALSE
      BY DEF AcceptedIsNotSent
    <3>1. d # c /\ wire[d].st = "sent" /\ a.from = wire[d].from
      BY <2>3
    <3>2. CASE a = new
      BY <2>1, <2>2, <3>1, <3>2 DEF ConnInv, OneWirePerRequest
    <3>3. CASE a \in accepted
      BY <3>1, <3>3 DEF AcceptInv, AcceptedIsNotSent
    <3> QED
      BY <2>1, <3>2, <3>3
  <2>8. AnswerIsAccepted'
    <3> SUFFICES ASSUME NEW d \in Conns
                 PROVE  /\ wire'[d].st = "sent" => wire'[d].answer.kind = "none"
                        /\ wire'[d].st \in {"handling", "answered"} /\ wire'[d].answer.kind = "tx" =>
                             [from |-> wire'[d].from, tx_id |-> wire'[d].answer.tx_id,
                              epoch |-> wire'[d].answer.epoch] \in accepted'
      BY DEF AnswerIsAccepted
    <3>1. CASE d = c
      BY <2>1, <2>2, <2>3, <3>1
    <3>2. CASE d # c
      BY <2>1, <2>3, <3>2 DEF AcceptInv, AnswerIsAccepted
    <3> QED
      BY <3>1, <3>2
  <2>9. AtMostOnce'
    BY <2>1, <2>4 DEF AcceptInv, AtMostOnce
  <2>10. AnsweredWithOwnId'
    BY <2>1 DEF AcceptInv, AnsweredWithOwnId
  <2> QED
    BY <2>6, <2>7, <2>8, <2>9, <2>10 DEF AcceptInv
<1>6. ASSUME NEW c \in Conns, HandleSeal(c)
      PROVE  AcceptInv'
  <2>1. /\ wire[c].st = "sent" /\ UNCHANGED <<session, outcomes, accepted>>
        /\ wire'[c].st = "handling" /\ wire'[c].from = wire[c].from
        /\ wire'[c].answer = wire[c].answer
        /\ \A d \in Conns : d # c => wire'[d] = wire[d]
    BY <1>0, <1>6 DEF HandleSeal, Wires
  <2>2. wire'[c].answer.kind # "tx"
    BY <2>1 DEF AcceptInv, AnswerIsAccepted
  <2> QED
    BY <2>1, <2>2, AcceptKept
<1>7. ASSUME NEW c \in Conns, HandleStatus(c)
      PROVE  AcceptInv'
  <2>1. /\ wire[c].st = "sent" /\ UNCHANGED <<session, outcomes, accepted>>
        /\ wire'[c].st = "handling" /\ wire'[c].from = wire[c].from
        /\ wire'[c].answer.kind = "status"
        /\ \A d \in Conns : d # c => wire'[d] = wire[d]
    BY <1>0, <1>7, AnswerTypes DEF HandleStatus, Wires
  <2> QED
    BY <2>1, AcceptKept
<1>8. ASSUME NEW c \in Conns, Respond(c)
      PROVE  AcceptInv'
  <2>0. /\ wire[c].st = "handling" /\ UNCHANGED <<session, outcomes, accepted>>
        /\ \A d \in Conns : d # c => wire'[d] = wire[d]
    BY <1>0, <1>8 DEF Respond
  <2>1. CASE wire[c].open
    <3>1. /\ wire'[c].st = "answered" /\ wire'[c].from = wire[c].from
          /\ wire'[c].answer = Response(c)
      BY <1>0, <1>8, <2>1 DEF Respond, Wires
    <3>2. Response(c) = wire[c].answer \/ Response(c).kind # "tx"
      BY <1>0 DEF Response
    <3> QED
      BY <2>0, <3>1, <3>2, AcceptKept
  <2>2. CASE ~ wire[c].open
    <3>1. wire'[c].st = "free"
      BY <1>0, <1>8, <2>2 DEF Respond
    <3> QED
      BY <2>0, <3>1, AcceptKept
  <2> QED
    BY <2>1, <2>2
<1>9. ASSUME NEW c \in Conns, RequestLost(c)
      PROVE  AcceptInv'
  <2>1. /\ UNCHANGED <<session, outcomes, accepted>> /\ wire'[c].st = "free"
        /\ \A d \in Conns : d # c => wire'[d] = wire[d]
    BY <1>0, <1>9 DEF RequestLost
  <2> QED
    BY <2>1, AcceptKept
<1>10. CASE RestartResets
  <2>1. /\ wire' = [c \in Conns |-> IF wire[c].open THEN [wire[c] EXCEPT !.st = "reset"]
                                    ELSE FreeWire]
        /\ UNCHANGED <<session, outcomes, accepted>>
    BY <1>10 DEF RestartResets
  <2>2. \A c \in Conns : wire'[c].st \in {"free", "reset"}
    BY <1>0, <2>1 DEF Wires
  <2> QED
    BY <2>1, <2>2, AcceptKept
<1>11. CASE UNCHANGED clientVars
  BY <1>11, AcceptKept DEF clientVars
<1>12. ASSUME NEW k \in Clients, ClientStep(k)
       PROVE  AcceptInv'
  BY <1>1, <1>2, <1>3, <1>4, <1>12 DEF ClientStep
<1>13. ASSUME NEW c \in Conns, Server(c)
       PROVE  AcceptInv'
  BY <1>5, <1>6, <1>7, <1>8, <1>9, <1>13 DEF Server, Handle
<1>14. CASE Background
  BY <1>11, <1>14 DEF Background
<1>15. CASE UNCHANGED allVars
  BY <1>11, <1>15 DEF allVars
<1> QED
  BY <1>10, <1>12, <1>13, <1>14, <1>15 DEF ClientNext

\* Nothing has been accepted at the start.
LEMMA InitAccept == ClientInit => AcceptInv
BY AnswerTypes DEF ClientInit, AcceptInv, AcceptedIsPast, AcceptedIsNotSent,
   AnswerIsAccepted, AtMostOnce, AnsweredWithOwnId

\* The invariants of connections and of acceptance hold throughout.
LEMMA ClientInvariance == ClientSpec => [](TypeInv /\ ConnInv /\ AcceptInv)
<1>1. ClientInit => TypeInv /\ ConnInv /\ AcceptInv
  BY InitType, InitConn, InitAccept DEF ClientInit
<1>2. /\ TypeInv /\ ConnInv /\ AcceptInv /\ [ClientNext]_allVars
      => (TypeInv /\ ConnInv /\ AcceptInv)'
  BY ClientStepIsValidatorStep, TypeInductive, ConnInductive, AcceptInductive
<1> QED
  BY <1>1, <1>2, PTL DEF ClientSpec

\* A request is accepted at most once, whatever connections break and however
\* often the validator restarts.
THEOREM RequestsAcceptedOnce == ClientSpec => []AtMostOnce
<1>1. TypeInv /\ ConnInv /\ AcceptInv => AtMostOnce
  BY DEF AcceptInv
<1> QED
  BY <1>1, ClientInvariance, PTL

\* The id a client is told is that of its own submission.
THEOREM AnswersCarryOwnId == ClientSpec => []AnsweredWithOwnId
<1>1. TypeInv /\ ConnInv /\ AcceptInv => AnsweredWithOwnId
  BY DEF AcceptInv
<1> QED
  BY <1>1, ClientInvariance, PTL

-----------------------------------------------------------------------------
(* Sealed batches.  Every answer "sealed" of the running validator, given, *)
(* on its way or certain to be given, names a recorded batch, and no two   *)
(* the same: a task's Record adds one batch id to the recorded ones and    *)
(* makes the answer with that id certain, on its own connection.           *)

RecordedIds == {proofs[i].batch_id : i \in DOMAIN proofs}

\* The answers the running validator has given.
Told == {p \in SealsTold : Outcome(p).epoch = restarts}

\* A connection on which such an answer is, or will be, written.
Tells(c) ==
  \/ wire[c].st = "answered" /\ wire[c].answer.kind = "sealed"
  \/ /\ wire[c].st = "handling" /\ MethodOf(c) = "forceSeal"
     /\ \/ jobs[c].step = "broadcast"
        \/ jobs[c].step = "idle" /\ reply[c].kind = "sealed"

Telling == {c \in Conns : Tells(c)}

\* The batch it tells of.
IdTold(c) ==
  IF wire[c].st = "answered" THEN wire[c].answer.batch_id
  ELSE IF jobs[c].step = "broadcast" THEN jobs[c].batch_id
  ELSE reply[c].batch_id

\* A connection's task works for the forceSeal that is being handled on it,
\* other requests are answered with what their handler computed, and what
\* was answered is of the running validator.
WorksForCaller(c) ==
  /\ jobs[c].step # "idle" => wire[c].st = "handling" /\ MethodOf(c) = "forceSeal"
  /\ wire[c].st = "handling" /\ MethodOf(c) # "forceSeal" =>
       wire[c].answer.kind \in {"tx", "status"}
  /\ wire[c].st = "answered" /\ wire[c].answer.kind = "sealed" =>
       wire[c].answer.epoch = restarts

SealsAreHandled == \A c \in Conns : WorksForCaller(c)

\* Nothing carries an epoch that has not begun.
EpochsBegun ==
  /\ \A c \in Conns : wire[c].answer.epoch <= restarts
  /\ \A k \in Clients : \A i \in DOMAIN outcomes[k] : outcomes[k][i].epoch <= restarts

ToldIsPaid ==
  /\ \A c \in Telling : IdTold(c) \in RecordedIds
  /\ \A p \in Told : Outcome(p).batch_id \in RecordedIds
  /\ \A c, d \in Telling : IdTold(c) = IdTold(d) => c = d
  /\ \A c \in Telling, p \in Told : IdTold(c) # Outcome(p).batch_id
  /\ \A p, q \in SealsTold :
        Outcome(p).epoch = Outcome(q).epoch /\ Outcome(p).batch_id = Outcome(q).batch_id
        => p = q

SealInv == SealsAreHandled /\ EpochsBegun /\ ToldIsPaid

\* Steps that tell no client anything new.
SameTold ==
  /\ restarts' = restarts
  /\ SealsTold' = SealsTold
  /\ \A p \in SealsTold : Outcome(p)' = Outcome(p)

\* Steps that make no new answer certain.
TellsNoMore == \A c \in Telling' : c \in Telling /\ IdTold(c)' = IdTold(c)

LEMMA SealedFields == \A b : SealedBatch(b).batch_id = b /\ SealedBatch(b).kind = "sealed"
BY DEF SealedBatch

\* What a connection tells depends on that connection alone.
LEMMA ConnFrame ==
  ASSUME NEW c \in Conns, wire'[c] = wire[c], jobs'[c] = jobs[c], reply'[c] = reply[c],
         restarts' = restarts
  PROVE  /\ Tells(c)' <=> Tells(c)
         /\ IdTold(c)' = IdTold(c)
         /\ WorksForCaller(c)' <=> WorksForCaller(c)
<1>1. Tells(c)' <=> Tells(c)
  BY DEF Tells, MethodOf
<1>2. IdTold(c)' = IdTold(c)
  BY DEF IdTold
<1>3. WorksForCaller(c)' <=> WorksForCaller(c)
  BY DEF WorksForCaller, MethodOf
<1> QED
  BY <1>1, <1>2, <1>3

\* What was told stays true when clients learn nothing.
LEMMA SameToldSame ==
  ASSUME SameTold
  PROVE  Told' = Told /\ \A p \in Told : Outcome(p)' = Outcome(p)
BY DEF SameTold, Told

\* Fewer answers on their way need no more proofs.
LEMMA PaidKept ==
  ASSUME ToldIsPaid, SameTold, TellsNoMore, RecordedIds \subseteq RecordedIds'
  PROVE  ToldIsPaid'
<1>1. Told' = Told /\ \A p \in Told : Outcome(p)' = Outcome(p)
  BY SameToldSame
<1>2. \A c \in Telling' : c \in Telling /\ IdTold(c)' = IdTold(c)
  BY DEF TellsNoMore
<1>3. SealsTold' = SealsTold /\ \A p \in SealsTold : Outcome(p)' = Outcome(p)
  BY DEF SameTold
<1> QED
  BY <1>1, <1>2, <1>3 DEF ToldIsPaid

\* A new batch id among the recorded ones is different from all that were
\* told of, and one answer with it may become certain.
LEMMA PaidByRecord ==
  ASSUME ToldIsPaid, SameTold, NEW t, NEW b, b \notin RecordedIds, b \in RecordedIds',
         RecordedIds \subseteq RecordedIds',
         \A c \in Telling' : \/ c \in Telling /\ IdTold(c)' = IdTold(c)
                             \/ c = t /\ IdTold(c)' = b
  PROVE  ToldIsPaid'
<1>1. Told' = Told /\ \A p \in Told : Outcome(p)' = Outcome(p)
  BY SameToldSame
<1>2. SealsTold' = SealsTold /\ \A p \in SealsTold : Outcome(p)' = Outcome(p)
  BY DEF SameTold
<1>3. \A c \in Telling' : IdTold(c)' \in RecordedIds'
  BY DEF ToldIsPaid
<1>4. \A c, d \in Telling' : IdTold(c)' = IdTold(d)' => c = d
  BY DEF ToldIsPaid
<1>5. \A c \in Telling', p \in Told : IdTold(c)' # Outcome(p).batch_id
  BY DEF ToldIsPaid
<1> QED
  BY <1>1, <1>2, <1>3, <1>4, <1>5 DEF ToldIsPaid

\* A client's return adds at most its own answer to what was told.
LEMMA ToldReturn ==
  ASSUME ConnInv, NEW k \in Clients, NEW r \in Answers, Return(k, r), restarts' = restarts
  PROVE  \A x : x = <<k, session[k].pc>> =>
           /\ r.kind # "sealed" => SameTold
           /\ r.kind = "sealed" => SealsTold' = SealsTold \cup {x} /\ Outcome(x)' = r
           /\ \A p \in SealsTold : Outcome(p)' = Outcome(p)
<1>1. /\ \A j \in Clients : j # k => outcomes'[j] = outcomes[j]
      /\ outcomes'[k] = Append(outcomes[k], r)
      /\ outcomes[k] \in Seq(Answers) /\ Len(outcomes[k]) = session[k].pc - 1
      /\ session[k].pc \in Nat
  BY ReturnEffect DEF ConnInv, ClientType
<1>2. /\ DOMAIN outcomes'[k] = DOMAIN outcomes[k] \cup {session[k].pc}
      /\ \A i \in DOMAIN outcomes[k] : outcomes'[k][i] = outcomes[k][i]
      /\ session[k].pc \notin DOMAIN outcomes[k]
      /\ outcomes'[k][session[k].pc] = r
  BY <1>1
<1> SUFFICES ASSUME NEW x, x = <<k, session[k].pc>>
             PROVE  /\ r.kind # "sealed" => SameTold
                    /\ r.kind = "sealed" => SealsTold' = SealsTold \cup {x} /\ Outcome(x)' = r
                    /\ \A p \in SealsTold : Outcome(p)' = Outcome(p)
  OBVIOUS
<1>3. \A p : p \in SealsTold <=>
               \E j \in Clients : /\ p \in {j} \X DOMAIN outcomes[j]
                                  /\ Outcome(p).kind = "sealed"
  BY DEF SealsTold
<1>4. \A p : p \in SealsTold' <=>
               \E j \in Clients : /\ p \in {j} \X DOMAIN outcomes'[j]
                                  /\ outcomes'[p[1]][p[2]].kind = "sealed"
  BY DEF SealsTold, Outcome
<1>5. \A p : (\E j \in Clients : p \in {j} \X DOMAIN outcomes[j]) =>
               /\ outcomes'[p[1]][p[2]] = outcomes[p[1]][p[2]]
               /\ \E j \in Clients : p \in {j} \X DOMAIN outcomes'[j]
  BY <1>1, <1>2
<1>6. \A p : (\E j \in Clients : p \in {j} \X DOMAIN outcomes'[j]) =>
               \/ \E j \in Clients : p \in {j} \X DOMAIN outcomes[j]
               \/ p = x
  BY <1>1, <1>2
<1>7. x \in {k} \X DOMAIN outcomes'[k] /\ outcomes'[x[1]][x[2]] = r
  BY <1>2
<1>8. Outcome(x)' = r /\ \A p \in SealsTold : Outcome(p)' = Outcome(p)
  BY <1>3, <1>5, <1>7 DEF Outcome
<1>9. \A p : p \in SealsTold => p \in SealsTold'
  BY <1>3, <1>4, <1>5 DEF Outcome
<1>10. \A p : p \in SealsTold' => p \in SealsTold \/ (p = x /\ r.kind = "sealed")
  BY <1>3, <1>4, <1>5, <1>6, <1>7 DEF Outcome
<1>11. r.kind = "sealed" => x \in SealsTold'
  BY <1>4, <1>7
<1> QED
  BY <1>8, <1>9, <1>10, <1>11 DEF SameTold

\* An answer that is read moves from its connection to its client.
LEMMA PaidByDelivery ==
  ASSUME ToldIsPaid, restarts' = restarts, RecordedIds' = RecordedIds,
         NEW c \in Telling, NEW r, r.batch_id = IdTold(c), r.epoch = restarts,
         NEW x, SealsTold' = SealsTold \cup {x}, Outcome(x)' = r,
         \A p \in SealsTold : Outcome(p)' = Outcome(p),
         \A d \in Telling' : d # c /\ d \in Telling /\ IdTold(d)' = IdTold(d)
  PROVE  ToldIsPaid'
<1>1. \A p \in Told' : (p \in Told /\ Outcome(p)' = Outcome(p)) \/ p = x
  BY DEF Told
<1>2. \A p \in SealsTold : Outcome(p)'.epoch = restarts => p \in Told
  BY DEF Told
<1>3. \A d \in Telling' : IdTold(d)' \in RecordedIds'
  BY DEF ToldIsPaid
<1>4. \A p \in Told' : Outcome(p)'.batch_id \in RecordedIds'
  BY <1>1 DEF ToldIsPaid
<1>5. \A d, e \in Telling' : IdTold(d)' = IdTold(e)' => d = e
  BY DEF ToldIsPaid
<1>6. \A d \in Telling', p \in Told' : IdTold(d)' # Outcome(p)'.batch_id
  BY <1>1 DEF ToldIsPaid
<1>7. \A p, q \in SealsTold' :
         Outcome(p)'.epoch = Outcome(q)'.epoch /\ Outcome(p)'.batch_id = Outcome(q)'.batch_id
         => p = q
  BY <1>2 DEF ToldIsPaid
<1> QED
  BY <1>3, <1>4, <1>5, <1>6, <1>7 DEF ToldIsPaid

\* A step of a task makes no new answer "sealed" certain, but for Record: that
\* of the batch it records, on the task's own connection.
LEMMA TaskEffect ==
  ASSUME TypeInv, DiskInv, SealsAreHandled, UNCHANGED clientVars, NEW t \in Tasks,
         JobStep(t) \/ (t = Ticker /\ check_and_seal_batch(t))
  PROVE  /\ restarts' = restarts
         /\ SealsAreHandled'
         /\ RecordedIds \subseteq RecordedIds'
         /\ \/ TellsNoMore
            \/ \E b : /\ b \notin RecordedIds /\ b \in RecordedIds'
                      /\ \A c \in Telling' : \/ c \in Telling /\ IdTold(c)' = IdTold(c)
                                             \/ c = t /\ IdTold(c)' = b
<1>0. /\ jobs \in [Tasks -> [step : Steps, batch_id : 0..MaxBatches, txs : Seq(Tx)]]
      /\ DOMAIN jobs = Tasks /\ Conns \subseteq Tasks
      /\ proofs \in Seq([batch_id : BatchIds, txs : Seq(Tx)])
      /\ wire' = wire
  BY DEF TypeInv, TypeOK, Tasks, clientVars
<1>1. restarts' = restarts
  <2>1. CASE JobStep(t)
    BY <2>1 DEF JobStep, ProveOk, OpenProof, FillProof, OpenTrace, FillTrace, Record,
                Broadcast, JobFails, UnchangedQueue, bounds
  <2>2. CASE check_and_seal_batch(t)
    BY <2>2 DEF check_and_seal_batch, bounds
  <2> QED
    BY <2>1, <2>2
<1>2. \A c \in Conns : c # t => jobs'[c] = jobs[c] /\ reply'[c] = reply[c]
  <2> SUFFICES ASSUME NEW c \in Conns, c # t
               PROVE  jobs'[c] = jobs[c] /\ reply'[c] = reply[c]
    OBVIOUS
  <2>1. CASE JobStep(t)
    BY <1>0, <2>1 DEF JobStep, ProveOk, OpenProof, FillProof, OpenTrace, FillTrace, Record,
                Broadcast, JobFails, Advance, Answer
  <2>2. CASE check_and_seal_batch(t)
    BY <1>0, <2>2 DEF check_and_seal_batch, Answer
  <2> QED
    BY <2>1, <2>2
<1>3. \A c \in Conns : c # t => /\ (Tells(c)' <=> Tells(c)) /\ IdTold(c)' = IdTold(c)
                               /\ (WorksForCaller(c)' <=> WorksForCaller(c))
  BY <1>0, <1>1, <1>2, ConnFrame
<1>4. ASSUME Record(t)
      PROVE  /\ jobs[t].batch_id \notin RecordedIds
             /\ jobs[t].batch_id \in RecordedIds'
             /\ RecordedIds \subseteq RecordedIds'
  <2>1. /\ proofs' = Append(proofs, [batch_id |-> jobs[t].batch_id, txs |-> jobs[t].txs])
        /\ jobs[t].step = "record"
    BY <1>4 DEF Record
  <2>2. /\ DOMAIN proofs' = DOMAIN proofs \cup {Len(proofs) + 1}
        /\ \A i \in DOMAIN proofs : proofs'[i] = proofs[i]
        /\ proofs'[Len(proofs) + 1].batch_id = jobs[t].batch_id
    BY <1>0, <2>1
  <2>3. \A i \in DOMAIN proofs : jobs[t].batch_id # proofs[i].batch_id
    BY <2>1 DEF DiskInv, ProofNumbersInv, Working
  <2> QED
    BY <2>2, <2>3 DEF RecordedIds
<1>5. ASSUME ~ Record(t)
      PROVE  proofs' = proofs
  <2>1. CASE JobStep(t)
    BY <1>5, <2>1 DEF JobStep, ProveOk, OpenProof, FillProof, OpenTrace, FillTrace,
                      Broadcast, JobFails
  <2>2. CASE check_and_seal_batch(t)
    BY <2>2 DEF check_and_seal_batch
  <2> QED
    BY <2>1, <2>2
<1>6. RecordedIds \subseteq RecordedIds'
  BY <1>4, <1>5 DEF RecordedIds
<1>7. CASE t \notin Conns
  <2>1. TellsNoMore /\ SealsAreHandled'
    BY <1>3, <1>7 DEF TellsNoMore, Telling, SealsAreHandled
  <2> QED
    BY <1>1, <1>6, <2>1
<1>8. CASE t \in Conns
  <2>1. JobStep(t)
    BY <1>8, ValidatorAssumptions
  <2>2. jobs[t].step # "idle"
    BY <2>1 DEF JobStep, ProveOk, OpenProof, FillProof, OpenTrace, FillTrace, Record,
                Broadcast, JobFails, Advance
  <2>3. wire[t].st = "handling" /\ MethodOf(t) = "forceSeal"
    BY <1>8, <2>2 DEF SealsAreHandled, WorksForCaller
  <2>4. wire'[t].st = "handling" /\ MethodOf(t)' = "forceSeal"
    BY <1>0, <2>3 DEF MethodOf
  <2>5. WorksForCaller(t)'
    BY <2>4 DEF WorksForCaller
  <2>6. SealsAreHandled'
    BY <1>3, <2>5 DEF SealsAreHandled
  <2>7. CASE Record(t)
    <3>b. PICK b : b = jobs[t].batch_id
      OBVIOUS
    <3>1. IdTold(t)' = b
      <4>1. CASE BroadcastAddr
        <5>1. jobs'[t].step = "broadcast" /\ jobs'[t].batch_id = b
          BY <1>0, <2>7, <3>b, <4>1 DEF Record
        <5> QED
          BY <2>4, <5>1 DEF IdTold
      <4>2. CASE ~ BroadcastAddr
        <5>1. /\ jobs' = [jobs EXCEPT ![t] = Idle]
              /\ reply' = [c \in Conns |-> IF c = t THEN SealedBatch(b) ELSE reply[c]]
          BY <2>7, <3>b, <4>2 DEF Record, Answer
        <5>2. jobs'[t].step = "idle" /\ reply'[t] = SealedBatch(b)
          BY <1>0, <1>8, <5>1 DEF Idle
        <5> QED
          BY <2>4, <5>2, SealedFields DEF IdTold
      <4> QED
        BY <4>1, <4>2
    <3>2. \A c \in Telling' : (c \in Telling /\ IdTold(c)' = IdTold(c))
                              \/ (c = t /\ IdTold(c)' = b)
      BY <1>3, <3>1 DEF Telling
    <3>3. b \notin RecordedIds /\ b \in RecordedIds'
      BY <1>4, <2>7, <3>b
    <3> QED
      BY <1>1, <1>6, <2>6, <3>2, <3>3
  <2>8. CASE ~ Record(t)
    <3>1. Tells(t)' => Tells(t) /\ IdTold(t)' = IdTold(t)
      <4>1. CASE Broadcast(t)
        <5>1. jobs[t].step = "broadcast" /\ jobs' = [jobs EXCEPT ![t] = Idle]
          BY <4>1 DEF Broadcast
        <5>2. jobs'[t].step = "idle"
          BY <1>0, <5>1 DEF Idle
        <5>3. reply'[t].batch_id = jobs[t].batch_id
          BY <1>8, <4>1, SealedFields DEF Broadcast, Answer
        <5>4. IdTold(t)' = IdTold(t)
          BY <2>3, <2>4, <5>1, <5>2, <5>3 DEF IdTold
        <5> QED
          BY <2>3, <5>1, <5>4 DEF Tells
      <4>2. CASE JobFails(t)
        <5>1. jobs'[t].step = "idle" /\ reply'[t].kind = "no_transactions"
          BY <1>0, <1>8, <4>2 DEF JobFails, Answer, Idle, NoTransactions
        <5> QED
          BY <2>4, <5>1 DEF Tells
      <4>3. CASE ProveOk(t) \/ OpenProof(t) \/ FillProof(t) \/ OpenTrace(t) \/ FillTrace(t)
        <5>1. jobs'[t].step \notin {"idle", "broadcast"}
          BY <1>0, <4>3 DEF ProveOk, OpenProof, FillProof, OpenTrace, FillTrace, Advance
        <5> QED
          BY <2>4, <5>1 DEF Tells
      <4> QED
        BY <2>1, <2>8, <4>1, <4>2, <4>3 DEF JobStep
    <3>2. TellsNoMore
      BY <1>3, <3>1 DEF TellsNoMore, Telling
    <3> QED
      BY <1>1, <1>6, <2>6, <3>2
  <2> QED
    BY <2>7, <2>8
<1> QED
  BY <1>7, <1>8

\* A step that moves one connection and no client.
LEMMA EpochsKept ==
  ASSUME EpochsBegun, outcomes' = outcomes, restarts' = restarts, NEW c \in Conns,
         \A d \in Conns : d # c => wire'[d] = wire[d],
         wire'[c].answer.epoch <= restarts
  PROVE  EpochsBegun'
<1>1. \A d \in Conns : wire'[d].answer.epoch <= restarts'
  BY DEF EpochsBegun
<1>2. \A k \in Clients : \A i \in DOMAIN outcomes'[k] : outcomes'[k][i].epoch <= restarts'
  BY DEF EpochsBegun
<1> QED
  BY <1>1, <1>2 DEF EpochsBegun

\* However tasks, handlers and clients interleave, "sealed" is only answered
\* for a proof of its own.
LEMMA SealInductive ==
  TypeInv /\ DiskInv /\ ConnInv /\ SealInv /\ [ClientNext]_allVars => SealInv'
<1> SUFFICES ASSUME TypeInv, DiskInv, ConnInv, SealInv, [ClientNext]_allVars
             PROVE  SealInv'
  OBVIOUS
<1>0. /\ session \in [Clients -> [pc : Nat \ {0}, conn : Conns \cup {"none"}]]
      /\ wire \in [Conns -> Wires]
      /\ restarts \in Nat
      /\ jobs \in [Tasks -> [step : Steps, batch_id : 0..MaxBatches, txs : Seq(Tx)]]
      /\ Conns \subseteq Tasks
  BY DEF ConnInv, ClientType, TypeInv, TypeOK, Tasks
<1>f. /\ FreeWire.st = "free" /\ FreeWire.answer.epoch <= restarts
      /\ Failure \in Answers /\ Failure.kind = "failed" /\ Failure.epoch <= restarts
  <2>1. FreeWire.answer.epoch = 0 /\ Failure.epoch = 0
    BY AnswerTypes
  <2>2. 0 <= restarts
    BY <1>0
  <2> QED
    BY <2>1, <2>2, AnswerTypes
<1>s. SealsAreHandled /\ EpochsBegun /\ ToldIsPaid
  BY DEF SealInv
<1>p. ASSUME UNCHANGED <<jobs, reply, restarts, proofs>>, NEW c \in Conns,
             \A d \in Conns : d # c => wire'[d] = wire[d],
             WorksForCaller(c)', Tells(c)' => Tells(c) /\ IdTold(c)' = IdTold(c)
      PROVE  SealsAreHandled' /\ TellsNoMore
  <2>1. \A d \in Conns : d # c => /\ (Tells(d)' <=> Tells(d)) /\ IdTold(d)' = IdTold(d)
                                 /\ (WorksForCaller(d)' <=> WorksForCaller(d))
    BY <1>p, ConnFrame
  <2> QED
    BY <1>p, <1>s, <2>1 DEF TellsNoMore, Telling, SealsAreHandled
<1>k. ASSUME UNCHANGED <<restarts, outcomes>>
      PROVE  SameTold
  BY <1>k DEF SameTold, SealsTold, Outcome
<1>m. ASSUME proofs' = proofs, SameTold, TellsNoMore
      PROVE  ToldIsPaid'
  <2>1. RecordedIds' = RecordedIds
    BY <1>m DEF RecordedIds
  <2> QED
    BY <1>m, <1>s, <2>1, PaidKept
<1>1. ASSUME NEW k \in Clients, NEW c \in Conns, Connect(k, c)
      PROVE  SealInv'
  <2>1. UNCHANGED <<jobs, reply, restarts, proofs, outcomes>> /\ wire[c].st = "free"
    BY <1>1 DEF Connect, vars, bounds
  <2>2. /\ wire'[c].st = "sent" /\ wire'[c].answer.epoch <= restarts
        /\ \A d \in Conns : d # c => wire'[d] = wire[d]
    <3>1. /\ wire'[c].st = "sent" /\ wire'[c].answer = FreeWire.answer
          /\ \A d \in Conns : d # c => wire'[d] = wire[d]
      BY <1>0, <1>1, AnswerTypes DEF Connect
    <3> QED
      BY <1>f, <3>1
  <2>3. WorksForCaller(c)' /\ ~ Tells(c)'
    BY <1>s, <2>1, <2>2 DEF SealsAreHandled, WorksForCaller, Tells
  <2>4. SealsAreHandled' /\ TellsNoMore
    BY <1>p, <2>1, <2>2, <2>3
  <2>5. EpochsBegun'
    BY <1>0, <1>s, <2>1, <2>2, EpochsKept
  <2>6. ToldIsPaid'
    BY <1>k, <1>m, <2>1, <2>4
  <2> QED
    BY <2>4, <2>5, <2>6 DEF SealInv
<1>2. ASSUME NEW k \in Clients, Receive(k)
      PROVE  SealInv'
  <2>c. PICK c \in Conns : c = session[k].conn
    BY <1>0, <1>2 DEF Receive
  <2>r. PICK r : r = wire[c].answer
    OBVIOUS
  <2>1. /\ wire[c].st = "answered" /\ Return(k, r)
        /\ wire' = [wire EXCEPT ![c] = FreeWire]
        /\ UNCHANGED <<jobs, reply, restarts, proofs>>
    BY <1>0, <1>2, <2>c, <2>r DEF Receive, vars, bounds
  <2>2. r \in Answers /\ r.epoch <= restarts
    BY <1>0, <1>s, <2>1, <2>r DEF Wires, EpochsBegun
  <2>3. wire'[c] = FreeWire /\ \A d \in Conns : d # c => wire'[d] = wire[d]
    BY <1>0, <2>1
  <2>4. WorksForCaller(c)' /\ ~ Tells(c)'
    BY <1>f, <1>s, <2>1, <2>3 DEF SealsAreHandled, WorksForCaller, Tells
  <2>5. SealsAreHandled' /\ TellsNoMore
    BY <1>p, <2>1, <2>3, <2>4
  <2>6. r.kind = "sealed" => c \in Telling /\ r.batch_id = IdTold(c) /\ r.epoch = restarts
    BY <1>s, <2>1, <2>r DEF Telling, Tells, IdTold, SealsAreHandled, WorksForCaller
  <2>7. EpochsBegun'
    <3>1. \A d \in Conns : wire'[d].answer.epoch <= restarts'
      BY <1>0, <1>f, <1>s, <2>1, <2>3 DEF EpochsBegun
    <3>2. \A j \in Clients : \A i \in DOMAIN outcomes'[j] : outcomes'[j][i].epoch <= restarts'
      <4>1. /\ \A j \in Clients : j # k => outcomes'[j] = outcomes[j]
            /\ outcomes'[k] = Append(outcomes[k], r) /\ outcomes[k] \in Seq(Answers)
        BY <2>1, <2>2, ReturnEffect DEF ConnInv, ClientType
      <4>2. \A i \in DOMAIN outcomes'[k] : outcomes'[k][i] = r \/
               (i \in DOMAIN outcomes[k] /\ outcomes'[k][i] = outcomes[k][i])
        BY <4>1
      <4> QED
        BY <1>s, <2>1, <2>2, <4>1, <4>2 DEF EpochsBegun
    <3> QED
      BY <3>1, <3>2 DEF EpochsBegun
  <2>8. ToldIsPaid'
    <3>x. PICK x : x = <<k, session[k].pc>>
      OBVIOUS
    <3>1. /\ r.kind # "sealed" => SameTold
          /\ r.kind = "sealed" => SealsTold' = SealsTold \cup {x} /\ Outcome(x)' = r
          /\ \A p \in SealsTold : Outcome(p)' = Outcome(p)
      BY <2>1, <2>2, <3>x, ToldReturn
    <3>2. CASE r.kind = "sealed"
      <4>1. \A d \in Telling' : d # c /\ d \in Telling /\ IdTold(d)' = IdTold(d)
        BY <2>4, <2>5 DEF TellsNoMore, Telling
      <4>2. RecordedIds' = RecordedIds /\ restarts' = restarts
        BY <2>1 DEF RecordedIds
      <4> QED
        BY <1>s, <2>6, <3>1, <3>2, <4>1, <4>2, PaidByDelivery
    <3>3. CASE r.kind # "sealed"
      BY <1>m, <2>1, <2>5, <3>1, <3>3
    <3> QED
      BY <3>2, <3>3
  <2> QED
    BY <2>5, <2>7, <2>8 DEF SealInv
<1>e. ASSUME NEW k \in Clients, Return(k, Failure), restarts' = restarts,
             \A d \in Conns : wire'[d].answer.epoch <= restarts
      PROVE  EpochsBegun' /\ SameTold
  <2>1. /\ \A j \in Clients : j # k => outcomes'[j] = outcomes[j]
        /\ outcomes'[k] = Append(outcomes[k], Failure) /\ outcomes[k] \in Seq(Answers)
    BY <1>e, <1>f, ReturnEffect DEF ConnInv, ClientType
  <2>2. \A i \in DOMAIN outcomes'[k] : outcomes'[k][i] = Failure \/
           (i \in DOMAIN outcomes[k] /\ outcomes'[k][i] = outcomes[k][i])
    BY <2>1
  <2>3. EpochsBegun'
    <3>1. \A j \in Clients : \A i \in DOMAIN outcomes'[j] : outcomes'[j][i].epoch <= restarts
      BY <1>0, <1>f, <1>s, <2>1, <2>2 DEF EpochsBegun
    <3> QED
      BY <1>e, <3>1 DEF EpochsBegun
  <2> QED
    BY <1>e, <1>f, <2>3, ToldReturn
<1>3. ASSUME NEW k \in Clients, ConnectFails(k)
      PROVE  SealInv'
  <2>1. Return(k, Failure) /\ UNCHANGED <<jobs, reply, restarts, proofs, wire>>
    BY <1>3 DEF ConnectFails, vars, bounds
  <2>2. EpochsBegun' /\ SameTold
    BY <1>e, <1>s, <2>1 DEF EpochsBegun
  <2>3. SealsAreHandled' /\ TellsNoMore
    BY <1>s, <2>1 DEF SealsAreHandled, WorksForCaller, TellsNoMore, Telling, Tells, IdTold,
       MethodOf
  <2> QED
    BY <1>m, <2>1, <2>2, <2>3 DEF SealInv
<1>4. ASSUME NEW k \in Clients, ReadFails(k)
      PROVE  SealInv'
  <2>c. PICK c \in Conns : c = session[k].conn
    BY <1>0, <1>4 DEF ReadFails
  <2>1. /\ Return(k, Failure) /\ UNCHANGED <<jobs, reply, restarts, proofs>>
        /\ wire' = [wire EXCEPT ![c] =
                      IF wire[c].st \in {"sent", "handling"} THEN [wire[c] EXCEPT !.open = FALSE]
                      ELSE FreeWire]
    BY <1>0, <1>4, <2>c DEF ReadFails, vars, bounds
  <2>2. /\ \A d \in Conns : d # c => wire'[d] = wire[d]
        /\ \/ wire'[c] = FreeWire /\ wire[c].st \notin {"sent", "handling"}
           \/ /\ wire'[c].st = wire[c].st /\ wire'[c].from = wire[c].from
              /\ wire'[c].answer = wire[c].answer
    BY <1>0, <2>1 DEF Wires
  <2>3. WorksForCaller(c)' /\ (Tells(c)' => Tells(c) /\ IdTold(c)' = IdTold(c))
    <3>1. CASE wire'[c] = FreeWire /\ wire[c].st \notin {"sent", "handling"}
      BY <1>f, <1>s, <2>1, <3>1 DEF SealsAreHandled, WorksForCaller, Tells
    <3>2. CASE /\ wire'[c].st = wire[c].st /\ wire'[c].from = wire[c].from
               /\ wire'[c].answer = wire[c].answer
      BY <1>s, <2>1, <3>2 DEF SealsAreHandled, WorksForCaller, Tells, IdTold, MethodOf
    <3> QED
      BY <2>2, <3>1, <3>2
  <2>4. SealsAreHandled' /\ TellsNoMore
    BY <1>p, <2>1, <2>2, <2>3
  <2>5. EpochsBegun' /\ SameTold
    <3>1. \A d \in Conns : wire[d].answer.epoch <= restarts
      BY <1>s DEF EpochsBegun
    <3>2. \A d \in Conns : wire'[d].answer.epoch <= restarts
      BY <1>0, <1>f, <2>2, <3>1
    <3> QED
      BY <1>e, <2>1, <3>2
  <2> QED
    BY <1>m, <2>1, <2>4, <2>5 DEF SealInv
<1>5. ASSUME NEW c \in Conns, HandleSubmit(c)
      PROVE  SealInv'
  <2>1. /\ wire[c].st = "sent" /\ MethodOf(c) = "submitTransaction"
        /\ UNCHANGED <<jobs, reply, restarts, proofs, outcomes>>
    BY <1>5 DEF HandleSubmit, submit_transaction, bounds
  <2>2. /\ wire'[c].from = wire[c].from /\ wire'[c].answer.kind = "tx"
        /\ wire'[c].st = "handling" /\ wire'[c].answer.epoch = restarts
        /\ \A d \in Conns : d # c => wire'[d] = wire[d]
    <3> DEFINE answer == [kind |-> "tx", tx_id |-> tx_counter + 1, batch_id |-> 0,
                          epoch |-> restarts]
    <3>1. answer.kind = "tx" /\ answer.epoch = restarts
      OBVIOUS
    <3>2. wire' = [wire EXCEPT ![c].st = "handling", ![c].answer = answer]
      BY <1>5 DEF HandleSubmit
    <3> HIDE DEF answer
    <3> QED
      BY <1>0, <3>1, <3>2 DEF Wires
  <2>3. MethodOf(c)' = "submitTransaction"
    BY <2>1, <2>2 DEF MethodOf
  <2>4. WorksForCaller(c)' /\ ~ Tells(c)'
    BY <1>s, <2>1, <2>2, <2>3 DEF SealsAreHandled, WorksForCaller, Tells
  <2>5. SealsAreHandled' /\ TellsNoMore
    BY <1>p, <2>1, <2>2, <2>4
  <2>6. EpochsBegun'
    BY <1>0, <1>s, <2>1, <2>2, EpochsKept
  <2>7. SameTold
    BY <1>k, <2>1
  <2> QED
    BY <1>m, <2>1, <2>5, <2>6, <2>7 DEF SealInv
<1>6. ASSUME NEW c \in Conns, HandleSeal(c)
      PROVE  SealInv'
  <2>1. /\ wire[c].st = "sent" /\ MethodOf(c) = "forceSeal"
        /\ UNCHANGED <<restarts, proofs, outcomes>> /\ check_and_seal_batch(c)
    BY <1>6 DEF HandleSeal, forceSeal, check_and_seal_batch, bounds
  <2>2. /\ wire'[c].from = wire[c].from /\ wire'[c].answer = wire[c].answer
        /\ wire'[c].st = "handling"
        /\ \A d \in Conns : d # c => wire'[d] = wire[d]
    BY <1>0, <1>6 DEF HandleSeal, Wires
  <2>3. MethodOf(c)' = "forceSeal"
    BY <2>1, <2>2 DEF MethodOf
  <2>4. \A d \in Conns : d # c => jobs'[d] = jobs[d] /\ reply'[d] = reply[d]
    BY <1>0, <2>1 DEF check_and_seal_batch, Answer
  <2>5. \/ jobs'[c].step = "idle" /\ reply'[c].kind = "no_transactions"
        \/ jobs'[c].step = "prove"
    <3>1. CASE UNCHANGED jobs /\ Answer(c, NoTransactions)
      BY <2>1, <3>1 DEF check_and_seal_batch, Answer, NoTransactions
    <3>2. CASE jobs' = [jobs EXCEPT ![c] =
                      [step |-> "prove", batch_id |-> NextBatchId,
                       txs |-> [i \in 1..Drained |->
                                  [tx_id |-> pending_txs[i].tx_id,
                                   payload |-> pending_txs[i].payload]]]]
      BY <1>0, <3>2
    <3> QED
      BY <2>1, <3>1, <3>2 DEF check_and_seal_batch
  <2>6. WorksForCaller(c)' /\ ~ Tells(c)'
    BY <2>2, <2>3, <2>5 DEF WorksForCaller, Tells
  <2>7. \A d \in Conns : d # c => /\ (Tells(d)' <=> Tells(d)) /\ IdTold(d)' = IdTold(d)
                                 /\ (WorksForCaller(d)' <=> WorksForCaller(d))
    BY <2>1, <2>2, <2>4, ConnFrame
  <2>8. SealsAreHandled' /\ TellsNoMore
    BY <1>s, <2>6, <2>7 DEF TellsNoMore, Telling, SealsAreHandled
  <2>9. EpochsBegun'
    <3>1. wire'[c].answer.epoch <= restarts
      BY <1>s, <2>2 DEF EpochsBegun
    <3> QED
      BY <1>s, <2>1, <2>2, <3>1, EpochsKept
  <2>10. SameTold
    BY <1>k, <2>1
  <2> QED
    BY <1>m, <2>1, <2>8, <2>9, <2>10 DEF SealInv
<1>7. ASSUME NEW c \in Conns, HandleStatus(c)
      PROVE  SealInv'
  <2>1. /\ wire[c].st = "sent" /\ MethodOf(c) = "getStatus"
        /\ UNCHANGED <<jobs, reply, restarts, proofs, outcomes>>
    BY <1>7 DEF HandleStatus, vars, bounds
  <2>2. /\ wire'[c].from = wire[c].from /\ wire'[c].answer.kind = "status"
        /\ wire'[c].st = "handling" /\ wire'[c].answer.epoch = restarts
        /\ \A d \in Conns : d # c => wire'[d] = wire[d]
    BY <1>0, <1>7, AnswerTypes DEF HandleStatus, Wires
  <2>3. MethodOf(c)' = "getStatus"
    BY <2>1, <2>2 DEF MethodOf
  <2>4. WorksForCaller(c)' /\ ~ Tells(c)'
    BY <1>s, <2>1, <2>2, <2>3 DEF SealsAreHandled, WorksForCaller, Tells
  <2>5. SealsAreHandled' /\ TellsNoMore
    BY <1>p, <2>1, <2>2, <2>4
  <2>6. EpochsBegun'
    BY <1>0, <1>s, <2>1, <2>2, EpochsKept
  <2>7. SameTold
    BY <1>k, <2>1
  <2> QED
    BY <1>m, <2>1, <2>5, <2>6, <2>7 DEF SealInv
<1>8. ASSUME NEW c \in Conns, Respond(c)
      PROVE  SealInv'
  <2>0. /\ wire[c].st = "handling" /\ jobs[c].step = "idle"
        /\ UNCHANGED <<jobs, reply, restarts, proofs, outcomes>>
        /\ \A d \in Conns : d # c => wire'[d] = wire[d]
    BY <1>0, <1>8 DEF Respond, vars, bounds
  <2>1. /\ WorksForCaller(c)' /\ (Tells(c)' => Tells(c) /\ IdTold(c)' = IdTold(c))
        /\ wire'[c].answer.epoch <= restarts
    <3>1. CASE wire[c].open
      <4>1. wire'[c].st = "answered" /\ wire'[c].answer = Response(c)
        BY <1>0, <1>8, <3>1 DEF Respond, Wires
      <4>2. CASE MethodOf(c) = "forceSeal"
        <5>1. /\ Response(c).kind = reply[c].kind /\ Response(c).epoch = restarts
              /\ Response(c).batch_id = reply[c].batch_id
          BY <4>2 DEF Response
        <5> QED
          BY <1>0, <2>0, <4>1, <4>2, <5>1 DEF WorksForCaller, Tells, IdTold
      <4>3. CASE MethodOf(c) # "forceSeal"
        <5>1. Response(c) = wire[c].answer /\ wire[c].answer.kind \in {"tx", "status"}
          BY <1>s, <2>0, <4>3 DEF Response, SealsAreHandled, WorksForCaller
        <5> QED
          BY <1>s, <2>0, <4>1, <5>1 DEF WorksForCaller, Tells, EpochsBegun
      <4> QED
        BY <4>2, <4>3
    <3>2. CASE ~ wire[c].open
      <4>1. wire'[c] = FreeWire
        BY <1>0, <1>8, <3>2 DEF Respond
      <4> QED
        BY <1>0, <1>f, <2>0, <4>1 DEF WorksForCaller, Tells
    <3> QED
      BY <3>1, <3>2
  <2>2. SealsAreHandled' /\ TellsNoMore
    BY <1>p, <2>0, <2>1
  <2>3. EpochsBegun'
    BY <1>0, <1>s, <2>0, <2>1, EpochsKept
  <2>4. SameTold
    BY <1>k, <2>0
  <2> QED
    BY <1>m, <2>0, <2>2, <2>3, <2>4 DEF SealInv
<1>9. ASSUME NEW c \in Conns, RequestLost(c)
      PROVE  SealInv'
  <2>1. /\ wire[c].st = "sent" /\ wire'[c] = FreeWire
        /\ UNCHANGED <<jobs, reply, restarts, proofs, outcomes>>
        /\ \A d \in Conns : d # c => wire'[d] = wire[d]
    BY <1>0, <1>9 DEF RequestLost, vars, bounds
  <2>2. WorksForCaller(c)' /\ ~ Tells(c)'
    BY <1>f, <1>s, <2>1 DEF SealsAreHandled, WorksForCaller, Tells
  <2>3. SealsAreHandled' /\ TellsNoMore
    BY <1>p, <2>1, <2>2
  <2>4. EpochsBegun'
    BY <1>0, <1>f, <1>s, <2>1, EpochsKept
  <2>5. SameTold
    BY <1>k, <2>1
  <2> QED
    BY <1>m, <2>1, <2>3, <2>4, <2>5 DEF SealInv
<1>10. CASE RestartResets
  <2>1. /\ restarts' = restarts + 1 /\ proofs' = <<>> /\ outcomes' = outcomes
        /\ jobs' = [t \in Tasks |-> Idle]
        /\ wire' = [c \in Conns |-> IF wire[c].open THEN [wire[c] EXCEPT !.st = "reset"]
                                    ELSE FreeWire]
    BY <1>10 DEF RestartResets, Restart
  <2>2. \A c \in Conns : /\ wire'[c].st \in {"free", "reset"}
                         /\ wire'[c].answer.epoch <= restarts
                         /\ jobs'[c].step = "idle"
    <3>1. \A c \in Conns : wire[c].answer.epoch <= restarts
      BY <1>s DEF EpochsBegun
    <3> QED
      BY <1>0, <1>f, <2>1, <3>1 DEF Wires, Idle
  <2>3. SealsAreHandled' /\ Telling' = {}
    BY <2>2 DEF SealsAreHandled, WorksForCaller, Telling, Tells
  <2>4. EpochsBegun'
    <3>1. \A c \in Conns : wire[c].answer.epoch \in Nat
      BY <1>0 DEF Wires, Answers
    <3>2. \A c \in Conns : wire'[c].answer.epoch \in Nat
      <4>1. FreeWire.answer.epoch = 0
        BY AnswerTypes
      <4> QED
        BY <1>0, <2>1, <3>1, <4>1 DEF Wires
    <3>3. \A k \in Clients : \A i \in DOMAIN outcomes[k] : outcomes[k][i].epoch \in Nat
      <4>1. \A k \in Clients : outcomes[k] \in Seq(Answers)
        BY DEF ConnInv, ClientType
      <4>2. \A k \in Clients : \A i \in DOMAIN outcomes[k] : outcomes[k][i] \in Answers
        BY <4>1
      <4> QED
        BY <4>2 DEF Answers
    <3>4. \A c \in Conns : wire'[c].answer.epoch <= restarts'
      BY <1>0, <2>1, <2>2, <3>2
    <3>5. \A k \in Clients : \A i \in DOMAIN outcomes'[k] : outcomes'[k][i].epoch <= restarts'
      BY <1>0, <1>s, <2>1, <3>3 DEF EpochsBegun
    <3> QED
      BY <3>4, <3>5 DEF EpochsBegun
  <2>5. Told' = {}
    <3> SUFFICES ASSUME NEW p \in Told'
                 PROVE  FALSE
      OBVIOUS
    <3>1. PICK k \in Clients : p \in {k} \X DOMAIN outcomes[k]
      BY <2>1 DEF Told, SealsTold
    <3>2. outcomes[p[1]][p[2]].epoch = restarts + 1 /\ p[1] = k /\ p[2] \in DOMAIN outcomes[k]
      BY <2>1, <3>1 DEF Told, Outcome
    <3> QED
      BY <1>0, <1>s, <3>2 DEF EpochsBegun
  <2>6. SealsTold' = SealsTold /\ \A p \in SealsTold : Outcome(p)' = Outcome(p)
    BY <2>1 DEF SealsTold, Outcome
  <2>7. ToldIsPaid'
    BY <1>s, <2>3, <2>5, <2>6 DEF ToldIsPaid
  <2> QED
    BY <2>3, <2>4, <2>7 DEF SealInv
<1>t. ASSUME UNCHANGED clientVars, NEW t \in Tasks,
             JobStep(t) \/ (t = Ticker /\ check_and_seal_batch(t))
      PROVE  SealInv'
  <2>1. /\ restarts' = restarts
        /\ SealsAreHandled'
        /\ RecordedIds \subseteq RecordedIds'
        /\ \/ TellsNoMore
           \/ \E b : /\ b \notin RecordedIds /\ b \in RecordedIds'
                     /\ \A c \in Telling' : \/ c \in Telling /\ IdTold(c)' = IdTold(c)
                                            \/ c = t /\ IdTold(c)' = b
    BY <1>s, <1>t, TaskEffect
  <2>2. outcomes' = outcomes /\ wire' = wire
    BY <1>t DEF clientVars
  <2>3. EpochsBegun' /\ SameTold
    BY <1>k, <1>s, <2>1, <2>2 DEF EpochsBegun
  <2>4. ToldIsPaid'
    <3>1. CASE TellsNoMore
      BY <1>s, <2>1, <2>3, <3>1, PaidKept
    <3>2. CASE ~ TellsNoMore
      <4>1. PICK b : /\ b \notin RecordedIds /\ b \in RecordedIds'
                     /\ \A c \in Telling' : \/ c \in Telling /\ IdTold(c)' = IdTold(c)
                                            \/ c = t /\ IdTold(c)' = b
        BY <2>1, <3>2
      <4> QED
        BY <1>s, <2>1, <2>3, <4>1, PaidByRecord
    <3> QED
      BY <3>1, <3>2
  <2> QED
    BY <2>1, <2>3, <2>4 DEF SealInv
<1>11. CASE UNCHANGED <<jobs, reply, restarts, proofs>> /\ UNCHANGED clientVars
  <2>1. outcomes' = outcomes /\ wire' = wire
    BY <1>11 DEF clientVars
  <2>2. SealsAreHandled' /\ TellsNoMore /\ EpochsBegun'
    BY <1>11, <1>s, <2>1 DEF SealsAreHandled, WorksForCaller, MethodOf, TellsNoMore, Telling,
       Tells, IdTold, EpochsBegun
  <2> QED
    BY <1>11, <1>k, <1>m, <2>1, <2>2 DEF SealInv
<1>12. ASSUME NEW k \in Clients, ClientStep(k)
       PROVE  SealInv'
  BY <1>1, <1>2, <1>3, <1>4, <1>12 DEF ClientStep
<1>13. ASSUME NEW c \in Conns, Server(c)
       PROVE  SealInv'
  BY <1>5, <1>6, <1>7, <1>8, <1>9, <1>13 DEF Server, Handle
<1>14. CASE Background
  <2>1. CASE Tick \/ ClockStepsBack
    BY <1>11, <1>14, <2>1 DEF Background, Tick, ClockStepsBack, bounds
  <2>2. CASE TickerCheck
    BY <1>14, <1>t, <2>2 DEF Background, TickerCheck, Tasks
  <2>3. CASE \E t \in Tasks : JobStep(t)
    BY <1>14, <1>t, <2>3 DEF Background
  <2> QED
    BY <1>14, <2>1, <2>2, <2>3 DEF Background
<1>15. CASE UNCHANGED allVars
  BY <1>11, <1>15 DEF allVars, vars, bounds
<1> QED
  BY <1>10, <1>12, <1>13, <1>14, <1>15 DEF ClientNext

\* Nothing has been sealed at the start.
LEMMA InitSeal == ClientInit => SealInv
<1> SUFFICES ASSUME ClientInit
             PROVE  SealInv
  OBVIOUS
<1>1. FreeWire.st = "free" /\ FreeWire.answer.epoch = 0
  BY AnswerTypes
<1>2. \A c \in Conns : wire[c] = FreeWire /\ jobs[c].step = "idle"
  BY DEF ClientInit, Init, Idle, Tasks
<1>3. SealsAreHandled /\ Telling = {}
  BY <1>1, <1>2 DEF SealsAreHandled, WorksForCaller, Telling, Tells
<1>4. \A k \in Clients : DOMAIN outcomes[k] = {}
  BY DEF ClientInit
<1>5. SealsTold = {} /\ Told = {}
  BY <1>4 DEF SealsTold, Told
<1>6. EpochsBegun
  BY <1>1, <1>2, <1>4 DEF EpochsBegun, ClientInit, Init
<1>7. ToldIsPaid
  BY <1>3, <1>5 DEF ToldIsPaid
<1> QED
  BY <1>3, <1>6, <1>7 DEF SealInv

\* A batch id that a client is told is that of a recorded proof while the
\* validator that told it runs, and no two requests to one life of the
\* validator are told the same one.
THEOREM ToldIsRecorded == ClientSpec => []SealedIsRecorded
<1>1. ClientInit => SealInv
  BY InitSeal
<1>2. TypeInv /\ DiskInv /\ ConnInv /\ SealInv /\ [ClientNext]_allVars => SealInv'
  BY SealInductive
<1>3. SealInv => SealedIsRecorded
  <2> SUFFICES ASSUME SealInv
               PROVE  SealedIsRecorded
    OBVIOUS
  <2>1. \A p \in Told : \E i \in DOMAIN proofs : proofs[i].batch_id = Outcome(p).batch_id
    BY DEF SealInv, ToldIsPaid, RecordedIds
  <2>2. \A p \in SealsTold : Outcome(p).epoch = restarts => p \in Told
    BY DEF Told
  <2> QED
    BY <2>1, <2>2 DEF SealInv, ToldIsPaid, SealedIsRecorded
<1>4. ClientSpec => []DiskInv
  BY ClientsKeepTheValidator, DiskInvariance
<1> QED
  BY <1>1, <1>2, <1>3, <1>4, ClientInvariance, PTL DEF ClientSpec
=============================================================================
