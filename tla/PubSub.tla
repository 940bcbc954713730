------------------------------- MODULE PubSub -------------------------------
(***************************************************************************)
(* The Redis pub/sub channel job:<id>:done of each job                     *)
(* (internal/storage/redis.go:230-267): one subscriber at most, the        *)
(* synchronous handler that waits for the job.  A signal that finds no     *)
(* connected subscriber is lost.                                           *)
(***************************************************************************)
EXTENDS Platform

VARIABLE
  channel      (* the subscription to each job's channel                    *)

ChannelState ==
  { "closed",     (* nobody subscribes                                      *)
    "down",       (* the subscriber's connection is being re-established    *)
    "open",       (* connected                                              *)
    "signal" }    (* a signal is waiting in the subscriber's Go channel     *)

ChannelTypeOK == channel \in [Jobs -> ChannelState]

ChannelInit == channel = [j \in Jobs |-> "closed"]

(* Variant: the subscription is made from a goroutine.                      *)
SubscribeJobDoneLater(j) ==
  channel' = [channel EXCEPT ![j] = "down"] /\ NoFault

(* go-redis sends SUBSCRIBE before it returns, and goes on reconnecting if  *)
(* it cannot.                                                               *)
SubscribeJobDone(j) ==
  \/ channel' = [channel EXCEPT ![j] = "open"] /\ NoFault
  \/ channel' = [channel EXCEPT ![j] = "down"] /\ Fault("redis")

Close(j) == channel' = [channel EXCEPT ![j] = "closed"]

(* The process that subscribes has died.                                    *)
CloseAll == channel' = [j \in Jobs |-> "closed"]

(* A message reaches whoever is connected.                                  *)
Signal(j) ==
  channel' = [channel EXCEPT ![j] = IF @ \in {"open", "signal"} THEN "signal" ELSE @]

(* An error is logged.                                                      *)
NotifyJobDone(j) ==
  \/ Signal(j) /\ NoFault
  \/ Signal(j) /\ Fault("redis")
  \/ UNCHANGED channel /\ Fault("redis")

(* The subscriber's connection breaks, and comes back.                      *)
Disconnect(j) ==
  /\ channel[j] = "open"
  /\ channel' = [channel EXCEPT ![j] = "down"]
  /\ Fault("redis")

Reconnect(j) ==
  /\ channel[j] = "down"
  /\ channel' = [channel EXCEPT ![j] = "open"]
  /\ NoFault
=============================================================================
