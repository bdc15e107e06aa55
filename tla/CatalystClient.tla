--------------------------- MODULE CatalystClient ---------------------------
(***************************************************************************)
(* Clients (examples/client) of one validator.  A command is a sequence of *)
(* requests; send_rpc opens a connection of its own for each, sends one    *)
(* line, waits for one line and gives up on any error, without a timeout   *)
(* and without a retry.  The validator's handle_connection runs a task per *)
(* connection: it reads the request, runs handle_rpc to the end, also when *)
(* the client is gone, and writes the answer.                              *)
(*                                                                         *)
(* A connection may break at any moment: the client sees an error and      *)
(* cannot tell whether its request was read.  A restart of the validator   *)
(* resets all connections.                                                 *)
(***************************************************************************)
EXTENDS Validator, SequencesExt

CONSTANTS Clients,
          Command   \* the sequence of requests each client makes

Methods == {"submitTransaction", "forceSeal", "getStatus"}

ASSUME ClientAssumptions ==
  /\ Command \in [Clients -> Seq(Methods)]
  /\ "none" \notin Conns

VARIABLES session,   \* per client: its next request and its connection
          wire,      \* per connection: request, answer and who still listens
          outcomes,  \* per client: what its requests returned
          accepted   \* auxiliary: the submissions the validator has accepted

clientVars == <<session, wire, outcomes, accepted>>
allVars == <<vars, clientVars>>

-----------------------------------------------------------------------------
(* Commands.                                                               *)

\* submit --count n
SubmitCommand(n) == [i \in 1..n |-> "submitTransaction"]

\* seal
SealCommand == <<"forceSeal">>

\* benchmark: a forceSeal after every batch_size submissions and one for the
\* rest, then the status.  batch_size is at least 1: the code's % panics on 0.
BenchmarkCommand(tx_count, batch_size) ==
  FlattenSeq([i \in 1..tx_count |->
                <<"submitTransaction">> \o
                (IF i % batch_size = 0 THEN <<"forceSeal">> ELSE <<>>)])
    \o (IF tx_count % batch_size # 0 THEN <<"forceSeal">> ELSE <<>>)
    \o <<"getStatus">>

-----------------------------------------------------------------------------

NoAnswer == [kind |-> "none", tx_id |-> 0, batch_id |-> 0, epoch |-> 0]
Failure  == [NoAnswer EXCEPT !.kind = "failed"]
FreeWire == [st |-> "free", from |-> <<>>, open |-> FALSE, answer |-> NoAnswer]

ClientInit ==
  /\ Init
  /\ session = [k \in Clients |-> [pc |-> 1, conn |-> "none"]]
  /\ wire = [c \in Conns |-> FreeWire]
  /\ outcomes = [k \in Clients |-> <<>>]
  /\ accepted = {}

HasRequest(k) == session[k].conn = "none" /\ session[k].pc <= Len(Command[k])

MethodOf(c) == Command[wire[c].from[1]][wire[c].from[2]]

\* Mutant: a request that failed is sent again.
RetryFailures(k, result) ==
  /\ session' = [session EXCEPT
       ![k] = [pc |-> IF result.kind = "failed" THEN @.pc ELSE @.pc + 1,
               conn |-> "none"]]
  /\ outcomes' = [outcomes EXCEPT ![k] =
                    IF result.kind = "failed" THEN @ ELSE Append(@, result)]

\* send_rpc returns; a failure is printed and the command goes on.
Return(k, result) ==
  /\ session' = [session EXCEPT ![k] = [pc |-> @.pc + 1, conn |-> "none"]]
  /\ outcomes' = [outcomes EXCEPT ![k] = Append(@, result)]

Connect(k, c) ==
  /\ HasRequest(k)
  /\ wire[c].st = "free"
  /\ wire' = [wire EXCEPT ![c] = [FreeWire EXCEPT !.st = "sent", !.open = TRUE,
                                                  !.from = <<k, session[k].pc>>]]
  /\ session' = [session EXCEPT ![k].conn = c]
  /\ UNCHANGED <<vars, outcomes, accepted>>

ConnectFails(k) ==
  /\ Faults
  /\ HasRequest(k)
  /\ Return(k, Failure)
  /\ UNCHANGED <<vars, wire, accepted>>

-----------------------------------------------------------------------------
(* handle_connection and handle_rpc.                                       *)

HandleSubmit(c) ==
  /\ wire[c].st = "sent" /\ MethodOf(c) = "submitTransaction"
  /\ \E p \in Payloads : submit_transaction(p)
  /\ LET answer == [kind |-> "tx", tx_id |-> tx_counter + 1, batch_id |-> 0,
                    epoch |-> restarts]
     IN  /\ wire' = [wire EXCEPT ![c].st = "handling", ![c].answer = answer]
         /\ accepted' = accepted \cup {[from |-> wire[c].from, tx_id |-> answer.tx_id,
                                        epoch |-> restarts]}
  /\ UNCHANGED <<session, outcomes>>

HandleSeal(c) ==
  /\ wire[c].st = "sent" /\ MethodOf(c) = "forceSeal"
  /\ forceSeal(c)
  /\ wire' = [wire EXCEPT ![c].st = "handling"]
  /\ UNCHANGED <<session, outcomes, accepted>>

\* getStatus only reads.
HandleStatus(c) ==
  /\ wire[c].st = "sent" /\ MethodOf(c) = "getStatus"
  /\ wire' = [wire EXCEPT ![c].st = "handling",
                          ![c].answer = [NoAnswer EXCEPT !.kind = "status",
                                                         !.epoch = restarts]]
  /\ UNCHANGED <<vars, session, outcomes, accepted>>

Handle(c) == HandleSubmit(c) \/ HandleSeal(c) \/ HandleStatus(c)

\* Mutant: the id is read off the counter when the answer is written.
IdFromCounter(c) ==
  IF MethodOf(c) = "forceSeal"
  THEN [kind |-> reply[c].kind, tx_id |-> 0, batch_id |-> reply[c].batch_id,
        epoch |-> restarts]
  ELSE [wire[c].answer EXCEPT !.tx_id = tx_counter]

Response(c) ==
  IF MethodOf(c) = "forceSeal"
  THEN [kind |-> reply[c].kind, tx_id |-> 0, batch_id |-> reply[c].batch_id,
        epoch |-> restarts]
  ELSE wire[c].answer

\* Mutant: no answer is written for a seal that failed.
SilentOnError(c) ==
  /\ wire[c].st = "handling" /\ jobs[c].step = "idle"
  /\ MethodOf(c) = "forceSeal" => reply[c].kind = "sealed"
  /\ wire' = [wire EXCEPT ![c] =
                IF @.open THEN [@ EXCEPT !.st = "answered", !.answer = Response(c)]
                ELSE FreeWire]
  /\ UNCHANGED <<vars, session, outcomes, accepted>>

\* handle_rpc has returned; the write fails if the client is gone.
Respond(c) ==
  /\ wire[c].st = "handling" /\ jobs[c].step = "idle"
  /\ wire' = [wire EXCEPT ![c] =
                IF @.open THEN [@ EXCEPT !.st = "answered", !.answer = Response(c)]
                ELSE FreeWire]
  /\ UNCHANGED <<vars, session, outcomes, accepted>>

-----------------------------------------------------------------------------

\* The line is read, and the connection closed with it.
Receive(k) ==
  LET c == session[k].conn
  IN  /\ c # "none"
      /\ wire[c].st = "answered"
      /\ Return(k, wire[c].answer)
      /\ wire' = [wire EXCEPT ![c] = FreeWire]
      /\ UNCHANGED <<vars, accepted>>

\* Write or read fail, or the line is cut short.  A request that was sent
\* may still be read, and what the validator does for it goes on.
ReadFails(k) ==
  LET c == session[k].conn
  IN  /\ c # "none"
      /\ Faults \/ wire[c].st = "reset"
      /\ Return(k, Failure)
      /\ wire' = [wire EXCEPT ![c] =
                    IF @.st \in {"sent", "handling"} THEN [@ EXCEPT !.open = FALSE]
                    ELSE FreeWire]
      /\ UNCHANGED <<vars, accepted>>

\* The request of a broken connection never arrives.
RequestLost(c) ==
  /\ wire[c].st = "sent" /\ ~wire[c].open
  /\ wire' = [wire EXCEPT ![c] = FreeWire]
  /\ UNCHANGED <<vars, session, outcomes, accepted>>

RestartResets ==
  /\ Restart
  /\ wire' = [c \in Conns |-> IF wire[c].open THEN [wire[c] EXCEPT !.st = "reset"]
                              ELSE FreeWire]
  /\ UNCHANGED <<session, outcomes, accepted>>

ClientStep(k) == (\E c \in Conns : Connect(k, c)) \/ Receive(k)
                   \/ ConnectFails(k) \/ ReadFails(k)

Server(c) == Handle(c) \/ Respond(c) \/ RequestLost(c)

\* What the validator does on its own.
Background ==
  /\ Tick \/ ClockStepsBack \/ TickerCheck \/ \E t \in Tasks : JobStep(t)
  /\ UNCHANGED clientVars

ClientNext ==
  \/ \E k \in Clients : ClientStep(k)
  \/ \E c \in Conns : Server(c)
  \/ Background
  \/ RestartResets

ClientSpec == ClientInit /\ [][ClientNext]_allVars

\* Connections are not limited (Conns bounds them: strong fairness for a free
\* one), tasks run, and an answer or a reset reaches a waiting client.
ClientFairSpec ==
  /\ ClientSpec
  /\ \A k \in Clients : /\ SF_allVars(\E c \in Conns : Connect(k, c))
                        /\ WF_allVars(Receive(k))
                        /\ WF_allVars(ReadFails(k) /\ wire[session[k].conn].st = "reset")
  /\ \A c \in Conns : WF_allVars(Handle(c)) /\ WF_allVars(Respond(c))
  /\ \A t \in Tasks : WF_allVars(JobStep(t) /\ UNCHANGED clientVars)
  /\ WF_allVars(Tick /\ UNCHANGED clientVars)
  /\ WF_allVars(TickerCheck /\ UNCHANGED clientVars)

-----------------------------------------------------------------------------
(* Properties.                                                             *)

Done(k) == session[k].pc > Len(Command[k])

\* A request is accepted at most once, over broken connections, lost answers
\* and restarts: no transaction is in the ledger twice because of a client.
AtMostOnce ==
  \A a, b \in accepted : a.from = b.from => a = b

\* The tx_id a client is told is the id of its own submission, although other
\* clients submit between the assignment of the id and the answer.
AnsweredWithOwnId ==
  \A k \in Clients : \A i \in DOMAIN outcomes[k] :
     outcomes[k][i].kind = "tx" =>
       [from |-> <<k, i>>, tx_id |-> outcomes[k][i].tx_id,
        epoch |-> outcomes[k][i].epoch] \in accepted

Outcome(p) == outcomes[p[1]][p[2]]

\* The requests that were answered with the id of a sealed batch.
SealsTold == {p \in UNION {{k} \X DOMAIN outcomes[k] : k \in Clients} :
                Outcome(p).kind = "sealed"}

\* A batch_id that forceSeal returns is that of a recorded proof, for as long
\* as the validator that returned it runs, although the batch is proved after
\* the lock was given up and may fail; and no two requests to one life of the
\* validator are told of the same batch, whoever else was sealing.
SealedIsRecorded ==
  /\ \A p \in SealsTold : Outcome(p).epoch = restarts =>
        \E i \in DOMAIN proofs : proofs[i].batch_id = Outcome(p).batch_id
  /\ \A p, q \in SealsTold :
        /\ Outcome(p).epoch = Outcome(q).epoch
        /\ Outcome(p).batch_id = Outcome(q).batch_id
        => p = q

\* What examples/README.md says of forceSeal, "Force seal current batch":
\* when it is handled and transactions are queued, they are sealed.
ForceSealSeals ==
  [][ \A c \in Conns :
        ( /\ wire[c].st = "sent" /\ wire'[c].st = "handling"
          /\ MethodOf(c) = "forceSeal" /\ pending_txs # <<>> )
        => jobs'[c].step = "prove" ]_allVars

\* A client without a timeout still gets to its end: every request that is
\* read is answered, a failed seal too, and a restart resets the rest.
ClientsFinish == \A k \in Clients : <>Done(k)
=============================================================================
