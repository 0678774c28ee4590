----------------------------- MODULE Broadcaster -----------------------------
(***************************************************************************)
(* internal/broadcast/broadcast.go: the fan-out behind the router log, the *)
(* build logs and download progress.  A bounded history is kept for replay *)
(* and every subscriber is a bounded channel; a send to a full channel is  *)
(* dropped.  Each method is one critical section of the mutex, so each is  *)
(* one action; the reader of a channel (StreamLines, watchRouterMemory,    *)
(* handleHFDownloadProgress) takes values in between.                      *)
(*                                                                         *)
(* Values are numbered 1, 2, ... in the order Broadcast was called.        *)
(***************************************************************************)
EXTENDS Naturals, Sequences

CONSTANTS
    Subscribers,
    HistSize,    \* New's histSize: 500 router log, 2000 build log, 1 download
    ChanCap,     \* New's chanCap:  256 router log, 2000 build log, 16 download
    MaxValues    \* bound: values ever broadcast

\* No caller makes a channel without a buffer.
ASSUME SizesAssumption == HistSize \in Nat /\ ChanCap \in Nat \ {0} /\ MaxValues \in Nat

VARIABLES
    sent,      \* number of values broadcast
    history,   \* b.history
    sub,       \* "none", "live" (in b.subs) or "closed"
    chan,      \* what each channel holds
    got,       \* the last value its reader took, or the one before its first
    until,     \* for a closed channel: the last value sent before the close
    overrun    \* has a send to it, or its replay, ever found it full?

vars == <<sent, history, sub, chan, got, until, overrun>>

TypeOK ==
    /\ sent \in Nat
    /\ history \in Seq(Nat)
    /\ sub \in [Subscribers -> {"none", "live", "closed"}]
    /\ chan \in [Subscribers -> Seq(Nat)]
    /\ \A s \in Subscribers : Len(chan[s]) <= ChanCap
    /\ got \in [Subscribers -> Nat]
    /\ until \in [Subscribers -> Nat]
    /\ overrun \in [Subscribers -> BOOLEAN]

Init ==
    /\ sent = 0
    /\ history = <<>>
    /\ sub = [s \in Subscribers |-> "none"]
    /\ chan = [s \in Subscribers |-> <<>>]
    /\ got = [s \in Subscribers |-> 0]
    /\ until = [s \in Subscribers |-> 0]
    /\ overrun = [s \in Subscribers |-> FALSE]

Full(s) == Len(chan[s]) >= ChanCap

(* mutant: off by one at the end of the history                            *)
ReplayButLast == SubSeq(history, 1, IF Len(history) <= ChanCap
                                    THEN Len(history) - 1 ELSE ChanCap)

(* What fits of the history, oldest first.                                 *)
Replay == SubSeq(history, 1, IF Len(history) <= ChanCap THEN Len(history) ELSE ChanCap)

Subscribe(s) ==
    /\ sub[s] = "none"
    /\ sub' = [sub EXCEPT ![s] = "live"]
    /\ chan' = [chan EXCEPT ![s] = Replay]
    /\ got' = [got EXCEPT ![s] = sent - Len(history)]
    /\ overrun' = [overrun EXCEPT ![s] = Len(history) > ChanCap]
    /\ UNCHANGED <<sent, history, until>>

(* Unsubscribe: the reader is gone, and its channel with it.               *)
Unsubscribe(s) ==
    /\ sub[s] # "none"
    /\ sub' = [sub EXCEPT ![s] = "none"]
    /\ chan' = [chan EXCEPT ![s] = <<>>]
    /\ UNCHANGED <<sent, history, got, until, overrun>>

(* mutant: a full history is overwritten in place, never rotated           *)
RetainInPlace(v) ==
    IF Len(history) >= HistSize /\ history # <<>> THEN [history EXCEPT ![1] = v]
    ELSE Append(history, v)

(* The value enters the history, the oldest leaves a full one.             *)
Retain(v) ==
    IF HistSize = 0 THEN history
    ELSE Append(IF Len(history) >= HistSize THEN Tail(history) ELSE history, v)

(* mutant: only an empty channel is sent to                                *)
SendLate(s, v) == IF Len(chan[s]) > 0 THEN chan[s] ELSE Append(chan[s], v)

Send(s, v) == IF Full(s) THEN chan[s] ELSE Append(chan[s], v)

Broadcast ==
    /\ sent < MaxValues
    /\ sent' = sent + 1
    /\ history' = Retain(sent + 1)
    /\ chan' = [s \in Subscribers |->
                  IF sub[s] = "live" THEN Send(s, sent + 1) ELSE chan[s]]
    /\ overrun' = [s \in Subscribers |-> overrun[s] \/ (sub[s] = "live" /\ Full(s))]
    /\ UNCHANGED <<sub, got, until>>

ClearHistory ==
    /\ history' = <<>>
    /\ UNCHANGED <<sent, sub, chan, got, until, overrun>>

(* Closes and drops every subscriber; what a channel holds can still be    *)
(* read.                                                                   *)
CloseSubscribers ==
    /\ sub' = [s \in Subscribers |-> IF sub[s] = "live" THEN "closed" ELSE sub[s]]
    /\ until' = [s \in Subscribers |-> IF sub[s] = "live" THEN sent ELSE until[s]]
    /\ UNCHANGED <<sent, history, chan, got, overrun>>

Receive(s) ==
    /\ chan[s] # <<>>
    /\ got' = [got EXCEPT ![s] = Head(chan[s])]
    /\ chan' = [chan EXCEPT ![s] = Tail(chan[s])]
    /\ UNCHANGED <<sent, history, sub, until, overrun>>

Next ==
    \/ \E s \in Subscribers : Subscribe(s) \/ Unsubscribe(s) \/ Receive(s)
    \/ Broadcast \/ ClearHistory \/ CloseSubscribers

Spec == Init /\ [][Next]_vars

----------------------------------------------------------------------------
(* The values a + 1, ..., b in order.                                      *)
Run(a, b) == [i \in 1 .. b - a |-> a + i]

(* The history is the most recent values, in order, and never more than    *)
(* histSize of them; so Last() is the value broadcast last (PendingBytes   *)
(* and Downloader.Start decide on it).                                     *)
HistoryIsRecent ==
    /\ Len(history) <= HistSize
    /\ Len(history) <= sent
    /\ history = Run(sent - Len(history), sent)

(* A subscriber never sees a value twice or out of order, whatever was     *)
(* dropped in between and however often it came and went.                  *)
InOrder ==
    \A s \in Subscribers :
        /\ \A i \in 1 .. Len(chan[s]) : chan[s][i] > got[s] /\ chan[s][i] <= sent
        /\ \A i, k \in 1 .. Len(chan[s]) : i < k => chan[s][i] < chan[s][k]

(* A subscriber that never fell behind misses nothing, from the start of   *)
(* its replay to the moment, or to the close: no value slips between the   *)
(* replay and the first live one ("a subscriber that falls behind misses   *)
(* values rather than stalling the producer": only that one).              *)
CompleteUnlessOverrun ==
    \A s \in Subscribers :
        ~overrun[s] =>
            /\ sub[s] = "live" => chan[s] = Run(got[s], sent)
            /\ sub[s] = "closed" => chan[s] = Run(got[s], until[s])

(* broadcast.go:3-4 "recent values are retained and replayed to new        *)
(* subscribers": the replay ends with the latest retained value.           *)
ReplayHasLatest ==
    [][\A s \in Subscribers :
          sub[s] = "none" /\ sub'[s] = "live" /\ history # <<>> =>
              /\ chan'[s] # <<>>
              /\ chan'[s][Len(chan'[s])] = history[Len(history)]]_vars

----------------------------------------------------------------------------
(* What a channel holds, seen as what its reader is owed.                  *)
Pending(s) == {chan[s][i] : i \in 1 .. Len(chan[s])}

Promise == INSTANCE Feed WITH Readers <- Subscribers, last <- sent, state <- sub,
                              owed <- [s \in Subscribers |-> Pending(s)], taken <- got

(* History, channels and drops keep the promise of Feed: a value is        *)
(* withheld only from a subscriber with something left to read, a replay   *)
(* has no hole, and nothing is read twice or out of order.                 *)
KeepsItsPromise == Promise!Spec
=============================================================================
