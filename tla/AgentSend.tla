----------------------------- MODULE AgentSend -----------------------------
(* How an agent sends: many goroutines (one per group of collectors, one per      *)
(* plugin, one per push to its http port) send batches to one of the transfers,   *)
(* over clients they share, one call at a time per client.                        *)
EXTENDS Naturals, FiniteSets

CONSTANTS Senders,          \* goroutines
          TransferAddrs,    \* Config().Transfer.Addrs
          Samples,          \* metrics
          IgnoreMetrics,    \* Config().IgnoreMetrics
          MaxClients,       \* clients ever made: one per goroutine and address suffices
          MaxBatches        \* batches of one behaviour

VARIABLES clients,      \* TransferClients: 0 if there is none for the address
          made,         \* clients made so far
          sender,       \* per goroutine: where it is in SendMetrics
          holds,        \* per client: the goroutine that has its lock
          connected,    \* clients with a connection
          batches

agentSendVars == <<clients, made, sender, holds, connected, batches>>

Nobody == "nobody"
NoCall == [at |-> "idle"]

AgentSendTypeOK ==
    /\ clients \in [TransferAddrs -> 0..MaxClients]
    /\ holds \in [1..MaxClients -> Senders \cup {Nobody}]
    /\ connected \subseteq 1..made

AgentSendInit ==
    /\ clients = [a \in TransferAddrs |-> 0] /\ made = 0
    /\ sender = [s \in Senders |-> NoCall]
    /\ holds = [c \in 1..MaxClients |-> Nobody]
    /\ connected = {} /\ batches = 0

----------------------------------------------------------------------------
(* SendMetrics tries the transfers in a random order; an empty batch is not sent. *)
SendToTransfer(s, batch) ==
    sender' = IF batch = {} THEN sender
              ELSE [sender EXCEPT ![s] =
                      [at |-> "next", left |-> TransferAddrs, addr |-> "", client |-> 0]]

(* A round of the collectors of a group: what they found, without what is ignored.*)
collect(s, found) ==
    /\ sender[s] = NoCall /\ batches < MaxBatches /\ batches' = batches + 1
    /\ SendToTransfer(s, found \ IgnoreMetrics)
    /\ UNCHANGED <<clients, made, holds, connected>>

(* A push, or the output of a plugin, is sent as it is. *)
configPushRoutes(s, body) ==
    /\ sender[s] = NoCall /\ batches < MaxBatches /\ batches' = batches + 1
    /\ SendToTransfer(s, body)
    /\ UNCHANGED <<clients, made, holds, connected>>

Returns(s) == sender' = [sender EXCEPT ![s] = NoCall]

(* The client of the next address is looked up; the lock is released before one   *)
(* is made, so that two goroutines may each make one.                             *)
getTransferClient(s) ==
    /\ sender[s].at = "next"
    /\ \/ \E a \in sender[s].left :
            sender' = [sender EXCEPT ![s] =
              [@ EXCEPT !.at = IF clients[a] = 0 THEN "init" ELSE "call",
                        !.addr = a, !.client = clients[a], !.left = @ \ {a}]]
       \/ sender[s].left = {} /\ Returns(s)
    /\ UNCHANGED <<clients, made, holds, connected, batches>>

initTransferClient(s) ==
    /\ sender[s].at = "init" /\ made < MaxClients
    /\ made' = made + 1
    /\ clients' = [clients EXCEPT ![sender[s].addr] = made']
    /\ sender' = [sender EXCEPT ![s].at = "call", ![s].client = made']
    /\ UNCHANGED <<holds, connected, batches>>

(* Call holds the lock of the client while it dials, up to four times, and waits. *)
Lock(s) ==
    /\ sender[s].at = "call" /\ holds[sender[s].client] = Nobody
    /\ holds' = [holds EXCEPT ![sender[s].client] = s]
    /\ sender' = [sender EXCEPT ![s].at = "dial"]
    /\ UNCHANGED <<clients, made, connected, batches>>

Unlock(s) == holds' = [holds EXCEPT ![sender[s].client] = Nobody]

serverConn(s) ==
    /\ sender[s].at = "dial"
    /\ \/ /\ connected' = connected \cup {sender[s].client}
          /\ sender' = [sender EXCEPT ![s].at = "wait"] /\ UNCHANGED holds
       \/ /\ sender[s].client \notin connected
          /\ Unlock(s) /\ sender' = [sender EXCEPT ![s].at = "next"]
          /\ UNCHANGED connected
    /\ UNCHANGED <<clients, made, batches>>

CallReturns(s) ==
    /\ sender[s].at = "wait"
    /\ Unlock(s) /\ Returns(s)
    /\ UNCHANGED <<clients, made, connected, batches>>

(* The connection broke: it is closed and the next transfer is tried. *)
CallFails(s) ==
    /\ sender[s].at = "wait"
    /\ Unlock(s)
    /\ connected' = connected \ {sender[s].client}
    /\ sender' = [sender EXCEPT ![s].at = "next"]
    /\ UNCHANGED <<clients, made, batches>>

(* Slip: the timeout returns without giving the lock back. *)
CallTimesOutLocked(s) ==
    /\ sender[s].at = "wait"
    /\ Returns(s)
    /\ connected' = connected \ {sender[s].client}
    /\ UNCHANGED <<clients, made, holds, batches>>

(* No answer within ten seconds: the connection is closed and nil is returned, as *)
(* if the batch had arrived.                                                      *)
CallTimesOut(s) ==
    /\ sender[s].at = "wait"
    /\ Unlock(s) /\ Returns(s)
    /\ connected' = connected \ {sender[s].client}
    /\ UNCHANGED <<clients, made, batches>>

----------------------------------------------------------------------------
AgentSendStep ==
    \E s \in Senders :
       \/ \E b \in SUBSET Samples : collect(s, b) \/ configPushRoutes(s, b)
       \/ getTransferClient(s) \/ initTransferClient(s) \/ Lock(s) \/ serverConn(s)
       \/ CallReturns(s) \/ CallFails(s) \/ CallTimesOut(s)

(* Time and the scheduler go on: a goroutine that can take a step does, the mutex *)
(* of a client is handed to one that waits for it, dialling gives up after four   *)
(* attempts and a call ends at the latest with its timeout. No transfer is        *)
(* assumed to answer.                                                             *)
AgentSendFairness ==
    \A s \in Senders :
      /\ WF_agentSendVars(getTransferClient(s) \/ initTransferClient(s) \/ serverConn(s)
                          \/ CallTimesOut(s))
      /\ SF_agentSendVars(Lock(s))

(* However the transfers hang or fail, and whoever holds the shared clients, every*)
(* SendMetrics returns: no collector stops for good.                              *)
SendReturns == \A s \in Senders : sender[s].at # "idle" ~> sender[s].at = "idle"

============================================================================
