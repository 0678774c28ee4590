----------------------------- MODULE BuildProofs -----------------------------
(* The broadcasters that carry the logs of builds, for every history size, *)
(* channel capacity and number of subscribers; and the builds, for every   *)
(* number of requests at once, refs, machines and scenarios.               *)
(*                                                                         *)
(* The first part is about Broadcaster, the second about Builder: the      *)
(* shape of its state, the slots a step moves (Moves, Goes, Gone), whose   *)
(* turn it is (Turn), what is compiled when builds run one at a time       *)
(* (Kept) and beside each other (There), the registered builds (Imports),  *)
(* and the log streams and the pages that follow them (Streams, Followed). *)
EXTENDS Broadcaster, Builder, SequenceTheorems, TLAPS

(* Runs of consecutive numbers under the sequence operators.               *)
LEMMA RunType ==
    ASSUME NEW a \in Nat, NEW b \in Nat, a <= b
    PROVE  /\ Run(a, b) \in Seq(Nat)
           /\ Len(Run(a, b)) = b - a
           /\ DOMAIN Run(a, b) = 1 .. b - a
           /\ \A i \in 1 .. b - a : Run(a, b)[i] = a + i
<1>1. b - a \in Nat OBVIOUS
<1>2. \A i \in 1 .. b - a : a + i \in Nat OBVIOUS
<1>3. Run(a, b) \in Seq(Nat) BY <1>1, <1>2, IsASeq DEF Run
<1> QED BY <1>1, <1>3, LenProperties DEF Run

LEMMA RunAppend ==
    ASSUME NEW a \in Nat, NEW b \in Nat, a <= b
    PROVE  Append(Run(a, b), b + 1) = Run(a, b + 1)
<1>0. /\ Run(a, b) \in Seq(Nat) /\ Len(Run(a, b)) = b - a
      /\ \A i \in 1 .. b - a : Run(a, b)[i] = a + i
      /\ b + 1 \in Nat
      BY RunType
<1>1. /\ Append(Run(a, b), b + 1) \in Seq(Nat)
      /\ Len(Append(Run(a, b), b + 1)) = Len(Run(a, b)) + 1
      /\ \A i \in 1 .. Len(Run(a, b)) : Append(Run(a, b), b + 1)[i] = Run(a, b)[i]
      /\ Append(Run(a, b), b + 1)[Len(Run(a, b)) + 1] = b + 1
      BY <1>0, AppendProperties
<1>2. Len(Append(Run(a, b), b + 1)) = b + 1 - a BY <1>0, <1>1
<1>3. \A i \in 1 .. b + 1 - a : Append(Run(a, b), b + 1)[i] = a + i
      BY <1>0, <1>1
<1>4. /\ Run(a, b + 1) \in Seq(Nat) /\ Len(Run(a, b + 1)) = b + 1 - a
      /\ \A i \in 1 .. b + 1 - a : Run(a, b + 1)[i] = a + i
      BY RunType
<1>5. /\ Len(Append(Run(a, b), b + 1)) = Len(Run(a, b + 1))
      /\ \A i \in 1 .. Len(Append(Run(a, b), b + 1)) :
            Append(Run(a, b), b + 1)[i] = Run(a, b + 1)[i]
      BY <1>2, <1>3, <1>4
<1> QED BY <1>1, <1>4, <1>5, SeqEqual, Zenon

LEMMA RunTail ==
    ASSUME NEW a \in Nat, NEW b \in Nat, a < b
    PROVE  /\ Run(a, b) # << >>
           /\ Head(Run(a, b)) = a + 1
           /\ Tail(Run(a, b)) = Run(a + 1, b)
<1>1. /\ Run(a, b) \in Seq(Nat) /\ Len(Run(a, b)) = b - a
      /\ \A i \in 1 .. b - a : Run(a, b)[i] = a + i
      BY RunType
<1>2. Run(a, b) # << >> BY <1>1, EmptySeq
<1>3. /\ Tail(Run(a, b)) \in Seq(Nat) /\ Len(Tail(Run(a, b))) = b - (a + 1)
      /\ \A i \in 1 .. b - (a + 1) : Tail(Run(a, b))[i] = a + 1 + i
      BY <1>1, <1>2, HeadTailProperties
<1>4. /\ Run(a + 1, b) \in Seq(Nat) /\ Len(Run(a + 1, b)) = b - (a + 1)
      /\ \A i \in 1 .. b - (a + 1) : Run(a + 1, b)[i] = a + 1 + i
      BY RunType
<1>5. /\ Len(Tail(Run(a, b))) = Len(Run(a + 1, b))
      /\ \A i \in 1 .. Len(Tail(Run(a, b))) : Tail(Run(a, b))[i] = Run(a + 1, b)[i]
      BY <1>3, <1>4
<1>6. Tail(Run(a, b)) = Run(a + 1, b) BY <1>3, <1>4, <1>5, SeqEqual, Zenon
<1> QED BY <1>1, <1>2, <1>6

LEMMA RunSub ==
    ASSUME NEW a \in Nat, NEW b \in Nat, a <= b, NEW k \in 0 .. b - a
    PROVE  SubSeq(Run(a, b), 1, k) = Run(a, a + k)
<1>1. /\ Run(a, b) \in Seq(Nat) /\ Len(Run(a, b)) = b - a
      /\ \A i \in 1 .. b - a : Run(a, b)[i] = a + i
      BY RunType
<1>2. /\ SubSeq(Run(a, b), 1, k) \in Seq(Nat) /\ Len(SubSeq(Run(a, b), 1, k)) = k
      /\ \A i \in 1 .. k : SubSeq(Run(a, b), 1, k)[i] = a + i
      BY <1>1, SubSeqProperties
<1>3. a + k \in Nat /\ a <= a + k /\ (a + k) - a = k OBVIOUS
<1>4. /\ Run(a, a + k) \in Seq(Nat) /\ Len(Run(a, a + k)) = (a + k) - a
      /\ \A i \in 1 .. (a + k) - a : Run(a, a + k)[i] = a + i
      BY <1>3, RunType
<1>5. /\ Len(SubSeq(Run(a, b), 1, k)) = Len(Run(a, a + k))
      /\ \A i \in 1 .. Len(SubSeq(Run(a, b), 1, k)) :
            SubSeq(Run(a, b), 1, k)[i] = Run(a, a + k)[i]
      BY <1>2, <1>3, <1>4
<1> QED BY <1>2, <1>4, <1>5, SeqEqual, Zenon

----------------------------------------------------------------------------
(* The inductive invariant: the properties, and what a channel needs       *)
(* besides: an unused one is empty, readers are never ahead of the         *)
(* senders, and a closed channel's end lies between.                       *)
Ordered(s) ==
    /\ \A i \in 1 .. Len(chan[s]) : chan[s][i] > got[s] /\ chan[s][i] <= sent
    /\ \A i, k \in 1 .. Len(chan[s]) : i < k => chan[s][i] < chan[s][k]

Channel(s) ==
    /\ got[s] <= sent
    /\ sub[s] = "none" => chan[s] = << >>
    /\ sub[s] = "live" /\ ~overrun[s] => chan[s] = Run(got[s], sent)
    /\ sub[s] = "closed" => until[s] <= sent
    /\ sub[s] = "closed" /\ ~overrun[s] =>
          got[s] <= until[s] /\ chan[s] = Run(got[s], until[s])

IInv ==
    /\ TypeOK
    /\ HistoryIsRecent
    /\ \A s \in Subscribers : Ordered(s) /\ Channel(s)

(* Initially nothing has been sent and no channel is in use.               *)
LEMMA InitIInv == Init => IInv
<1> SUFFICES ASSUME Init PROVE IInv OBVIOUS
<1>1. << >> \in Seq(Nat) /\ Len(<< >>) = 0 BY EmptySeq
<1>2. TypeOK BY <1>1, SizesAssumption DEF Init, TypeOK
<1>3. << >> = Run(0, 0) BY <1>1 DEF Run
<1>4. HistoryIsRecent BY <1>1, <1>3, SizesAssumption DEF Init, HistoryIsRecent
<1>5. ASSUME NEW s \in Subscribers PROVE Ordered(s) /\ Channel(s)
  <2>1. chan[s] = << >> /\ sub[s] = "none" /\ got[s] = 0 /\ sent = 0 BY DEF Init
  <2>2. \A i \in 1 .. Len(chan[s]) : FALSE BY <1>1, <2>1
  <2>3. Ordered(s) BY <2>2 DEF Ordered
  <2>4. Channel(s) BY <2>1 DEF Channel
  <2> QED BY <2>3, <2>4
<1> QED BY <1>2, <1>4, <1>5 DEF IInv

(* The replay is a run that starts where the subscriber starts; it is the  *)
(* whole history when that fits.                                           *)
LEMMA ReplayRun ==
    ASSUME TypeOK, HistoryIsRecent
    PROVE  LET a == sent - Len(history)
               k == IF Len(history) <= ChanCap THEN Len(history) ELSE ChanCap
           IN  /\ a \in Nat /\ k \in 0 .. sent - a
               /\ Replay = Run(a, a + k)
<1> DEFINE a == sent - Len(history)
           k == IF Len(history) <= ChanCap THEN Len(history) ELSE ChanCap
<1>1. Len(history) \in Nat BY LenProperties DEF TypeOK
<1>2. /\ a \in Nat /\ a <= sent /\ k \in 0 .. sent - a /\ sent \in Nat
      /\ history = Run(a, sent)
      BY <1>1, SizesAssumption DEF TypeOK, HistoryIsRecent
<1>3. SubSeq(Run(a, sent), 1, k) = Run(a, a + k) BY <1>2, RunSub
<1> QED BY <1>2, <1>3 DEF Replay

(* A run of consecutive numbers is ordered.                                *)
LEMMA RunOrdered ==
    ASSUME NEW a \in Nat, NEW b \in Nat, a <= b
    PROVE  /\ \A i \in 1 .. Len(Run(a, b)) : Run(a, b)[i] > a /\ Run(a, b)[i] <= b
           /\ \A i, k \in 1 .. Len(Run(a, b)) : i < k => Run(a, b)[i] < Run(a, b)[k]
<1>1. Len(Run(a, b)) = b - a /\ \A i \in 1 .. b - a : Run(a, b)[i] = a + i
      BY RunType
<1> QED BY <1>1

LEMMA SubscribeStep ==
    ASSUME IInv, NEW s \in Subscribers, Subscribe(s)
    PROVE  IInv'
<1> DEFINE a == sent - Len(history)
           k == IF Len(history) <= ChanCap THEN Len(history) ELSE ChanCap
<1> USE DEF IInv
<1>1. /\ a \in Nat /\ k \in 0 .. sent - a
      /\ Replay = Run(a, a + k)
      BY ReplayRun
<1>2. /\ a + k \in Nat /\ a <= a + k /\ a + k <= sent /\ sent \in Nat
      /\ (a + k) - a = k /\ k <= ChanCap
      BY <1>1, SizesAssumption, LenProperties DEF TypeOK
<1>3. Replay \in Seq(Nat) /\ Len(Replay) <= ChanCap
      BY <1>1, <1>2, RunType
<1>4. TypeOK' BY <1>1, <1>3 DEF Subscribe, TypeOK
<1>5. HistoryIsRecent' BY DEF Subscribe, HistoryIsRecent
<1>6. ASSUME NEW t \in Subscribers PROVE Ordered(t)' /\ Channel(t)'
  <2>1. CASE t = s
    <3>1. chan'[s] = Run(a, a + k) /\ got'[s] = a /\ sent' = sent /\ sub'[s] = "live"
          BY <1>1 DEF Subscribe, TypeOK
    <3>2. /\ \A i \in 1 .. Len(Run(a, a + k)) :
                Run(a, a + k)[i] > a /\ Run(a, a + k)[i] <= a + k
          /\ \A i, j \in 1 .. Len(Run(a, a + k)) :
                i < j => Run(a, a + k)[i] < Run(a, a + k)[j]
      <4> HIDE DEF a, k
      <4> QED BY <1>1, <1>2, RunOrdered, Zenon
    <3>3. Ordered(s)'
      <4>1. \A i \in 1 .. Len(Run(a, a + k)) : Run(a, a + k)[i] \in Nat
        <5> HIDE DEF a, k
        <5> QED BY <1>1, <1>2, RunType, ElementOfSeq, Zenon
      <4> HIDE DEF a, k
      <4> QED BY <3>1, <3>2, <4>1, <1>1, <1>2 DEF Ordered
    <3>4. ~overrun'[s] => Len(history) <= ChanCap
      <4>1. ~overrun'[s] => ~(Len(history) > ChanCap) BY Zenon DEF Subscribe, TypeOK
      <4>2. Len(history) \in Nat BY LenProperties DEF TypeOK
      <4> QED BY <4>1, <4>2, SizesAssumption
    <3>5. ~overrun'[s] => a + k = sent
          BY <3>4, <1>2, LenProperties DEF TypeOK
    <3>6. Channel(s)'
      <4> HIDE DEF a, k
      <4> QED BY <3>1, <3>5, <1>1, <1>2 DEF Channel
    <3> QED BY <2>1, <3>3, <3>6
  <2>2. CASE t # s
        BY <2>2 DEF Subscribe, TypeOK, Ordered, Channel
  <2> QED BY <2>1, <2>2
<1> QED BY <1>4, <1>5, <1>6

LEMMA UnsubscribeStep ==
    ASSUME IInv, NEW s \in Subscribers, Unsubscribe(s)
    PROVE  IInv'
<1> USE DEF IInv
<1>1. << >> \in Seq(Nat) /\ Len(<< >>) = 0 BY EmptySeq
<1>2. TypeOK' BY <1>1, SizesAssumption DEF Unsubscribe, TypeOK
<1>3. HistoryIsRecent' BY DEF Unsubscribe, HistoryIsRecent
<1>4. ASSUME NEW t \in Subscribers PROVE Ordered(t)' /\ Channel(t)'
      BY <1>1 DEF Unsubscribe, TypeOK, Ordered, Channel
<1> QED BY <1>2, <1>3, <1>4

(* What enters a history that is a run leaves one that ends one later.     *)
LEMMA RetainRun ==
    ASSUME TypeOK, HistoryIsRecent, NEW b, b = sent + 1
    PROVE  /\ Retain(b) \in Seq(Nat)
           /\ Len(Retain(b)) <= HistSize
           /\ Len(Retain(b)) <= b
           /\ Retain(b) = Run(b - Len(Retain(b)), b)
<1> DEFINE a == sent - Len(history)
<1>1. Len(history) \in Nat /\ sent \in Nat /\ b \in Nat /\ b = sent + 1
      /\ HistSize \in Nat
      BY LenProperties, SizesAssumption DEF TypeOK
<1>2. a \in Nat /\ a <= sent /\ history = Run(a, sent) /\ Len(history) = sent - a
      BY <1>1 DEF HistoryIsRecent
<1> HIDE DEF a
<1>3. CASE HistSize = 0
  <2>1. Len(history) = 0 /\ history = << >>
        BY <1>1, <1>3, EmptySeq DEF HistoryIsRecent, TypeOK
  <2>2. Run(b, b) = << >> BY <1>1 DEF Run
  <2> QED BY <1>1, <1>3, <2>1, <2>2 DEF Retain, TypeOK
<1>4. CASE HistSize # 0 /\ Len(history) < HistSize
  <2>0. a <= b BY <1>1, <1>2
  <2>1. Append(Run(a, sent), b) = Run(a, b) BY <1>1, <1>2, RunAppend
  <2>2. /\ Retain(b) = Run(a, b)
        /\ Run(a, b) \in Seq(Nat) /\ Len(Run(a, b)) = b - a
    <3>1. ~(Len(history) >= HistSize) BY <1>1, <1>4
    <3>2. Retain(b) = Append(history, b) BY <1>4, <3>1 DEF Retain
    <3>3. /\ Run(a, b) \in Seq(Nat) /\ Len(Run(a, b)) = b - a
          BY <1>1, <1>2, <2>0, RunType, Zenon
    <3> QED BY <1>2, <2>1, <3>2, <3>3
  <2>3. b - a = Len(history) + 1 /\ b - (b - a) = a
        BY <1>1, <1>2
  <2> QED BY <1>1, <1>2, <1>4, <2>1, <2>2, <2>3
<1>5. CASE HistSize # 0 /\ Len(history) >= HistSize
  <2>1. a < sent /\ a + 1 \in Nat /\ a + 1 <= sent /\ a + 1 <= b
        BY <1>1, <1>2, <1>5
  <2>2. Tail(history) = Run(a + 1, sent) BY <1>1, <1>2, <2>1, RunTail
  <2>3. Retain(b) = Run(a + 1, b)
        BY <1>1, <1>5, <2>1, <2>2, RunAppend DEF Retain
  <2>4. /\ Run(a + 1, b) \in Seq(Nat)
        /\ Len(Run(a + 1, b)) = b - (a + 1)
        BY <1>1, <2>1, RunType, Zenon
  <2>5. /\ b - (a + 1) = Len(history)
        /\ b - (b - (a + 1)) = a + 1
        BY <1>1, <1>2
  <2>6. Len(history) <= HistSize BY DEF HistoryIsRecent
  <2> QED BY <1>1, <1>2, <2>3, <2>4, <2>5, <2>6
<1> QED BY <1>1, <1>3, <1>4, <1>5

LEMMA BroadcastStep ==
    ASSUME IInv, Broadcast
    PROVE  IInv'
<1> USE DEF IInv
<1>1. PICK b \in Nat : b = sent + 1 /\ sent \in Nat BY DEF TypeOK
<1>2. /\ sent' = b /\ history' = Retain(b)
      /\ chan' = [s \in Subscribers |->
                    IF sub[s] = "live" THEN Send(s, b) ELSE chan[s]]
      /\ \A s \in Subscribers : ~overrun'[s] =>
            ~overrun[s] /\ ~(sub[s] = "live" /\ Full(s))
      /\ overrun' \in [Subscribers -> BOOLEAN]
      /\ sub' = sub /\ got' = got /\ until' = until
      BY <1>1, Zenon DEF Broadcast, TypeOK
<1>3. HistoryIsRecent'
      BY <1>1, <1>2, RetainRun DEF HistoryIsRecent
<1>4. history' \in Seq(Nat) BY <1>1, <1>2, RetainRun
<1>5. ASSUME NEW s \in Subscribers
      PROVE  /\ chan'[s] \in Seq(Nat) /\ Len(chan'[s]) <= ChanCap
             /\ Ordered(s)' /\ Channel(s)'
  <2>1. /\ chan[s] \in Seq(Nat) /\ Len(chan[s]) \in Nat /\ Len(chan[s]) <= ChanCap
        /\ got[s] \in Nat /\ until[s] \in Nat
        BY LenProperties DEF TypeOK
  <2>2. CASE sub[s] # "live" \/ Full(s)
    <3>1. chan'[s] = chan[s] BY <1>2, <2>2 DEF Send
    <3>2. sub[s] = "live" => overrun'[s] BY <1>2, <2>2
    <3>3. Ordered(s)' BY <1>1, <1>2, <2>1, <3>1, ElementOfSeq DEF Ordered
    <3>4. Channel(s)' BY <1>1, <1>2, <2>1, <3>1, <3>2 DEF Channel, TypeOK
    <3> QED BY <2>1, <3>1, <3>3, <3>4
  <2>3. CASE sub[s] = "live" /\ ~Full(s)
    <3>1. chan'[s] = Append(chan[s], b) BY <1>2, <2>3 DEF Send
    <3>2. /\ chan'[s] \in Seq(Nat) /\ Len(chan'[s]) = Len(chan[s]) + 1
          /\ \A i \in 1 .. Len(chan[s]) : chan'[s][i] = chan[s][i]
          /\ chan'[s][Len(chan[s]) + 1] = b
          BY <1>1, <2>1, <3>1, AppendProperties
    <3>3. Len(chan'[s]) <= ChanCap
          BY <2>1, <2>3, <3>2, SizesAssumption DEF Full
    <3>4. Ordered(s)'
      <4>1. \A i \in 1 .. Len(chan[s]) : chan[s][i] \in Nat BY <2>1, ElementOfSeq
      <4>2. Ordered(s) /\ got[s] <= sent BY DEF Channel
      <4>3. \A i \in 1 .. Len(chan[s]) + 1 : i \in 1 .. Len(chan[s]) \/ i = Len(chan[s]) + 1
            BY <2>1
      <4>4. \A i \in 1 .. Len(chan[s]) :
                /\ chan[s][i] > got[s] /\ chan[s][i] <= sent
                /\ chan[s][i] < b
            BY <1>1, <2>1, <4>1, <4>2 DEF Ordered
      <4>5. \A i \in 1 .. Len(chan[s]) + 1 : chan'[s][i] > got[s] /\ chan'[s][i] <= b
            BY <1>1, <2>1, <3>2, <4>1, <4>2, <4>3, <4>4, SMTT(30)
      <4>6. ASSUME NEW i \in 1 .. Len(chan[s]) + 1, NEW k \in 1 .. Len(chan[s]) + 1, i < k
            PROVE  chan'[s][i] < chan'[s][k]
        <5>1. i \in 1 .. Len(chan[s]) BY <2>1, <4>6
        <5>2. CASE k = Len(chan[s]) + 1 BY <3>2, <4>4, <5>1, <5>2
        <5>3. CASE k \in 1 .. Len(chan[s]) BY <3>2, <4>2, <4>6, <5>1, <5>3 DEF Ordered
        <5> QED BY <4>3, <5>2, <5>3
      <4> QED BY <1>2, <3>2, <4>5, <4>6 DEF Ordered
    <3>5. Channel(s)'
      <4>1. ~overrun'[s] => chan[s] = Run(got[s], sent) /\ got[s] <= sent
            BY <1>2, <2>3 DEF Channel
      <4>2. got[s] <= sent BY DEF Channel
      <4>3. ~overrun'[s] => chan'[s] = Run(got[s], b)
            BY <1>1, <2>1, <3>1, <4>1, RunAppend
      <4> QED BY <1>1, <1>2, <2>1, <2>3, <4>2, <4>3 DEF Channel
    <3> QED BY <3>2, <3>3, <3>4, <3>5
  <2> QED BY <2>2, <2>3
<1>6. chan' \in [Subscribers -> Seq(Nat)]
      BY <1>2, <1>5
<1>7. TypeOK' BY <1>1, <1>2, <1>4, <1>5, <1>6 DEF TypeOK
<1> QED BY <1>3, <1>5, <1>7

LEMMA ReceiveStep ==
    ASSUME IInv, NEW s \in Subscribers, Receive(s)
    PROVE  IInv'
<1> USE DEF IInv
<1>1. /\ chan[s] \in Seq(Nat) /\ chan[s] # << >> /\ Len(chan[s]) \in Nat \ {0}
      /\ Len(chan[s]) <= ChanCap /\ got[s] \in Nat /\ sent \in Nat /\ until[s] \in Nat
      BY EmptySeq DEF TypeOK, Receive
<1>2. /\ Head(chan[s]) = chan[s][1] /\ Head(chan[s]) \in Nat
      /\ Tail(chan[s]) \in Seq(Nat) /\ Len(Tail(chan[s])) = Len(chan[s]) - 1
      /\ \A i \in 1 .. Len(chan[s]) - 1 : Tail(chan[s])[i] = chan[s][i + 1]
      BY <1>1, HeadTailProperties
<1>3. /\ chan'[s] = Tail(chan[s]) /\ got'[s] = Head(chan[s])
      /\ sent' = sent /\ sub' = sub /\ until' = until /\ overrun' = overrun
      BY DEF Receive, TypeOK
<1>4. TypeOK' BY <1>1, <1>2, SizesAssumption DEF Receive, TypeOK
<1>5. HistoryIsRecent' BY DEF Receive, HistoryIsRecent
<1>6. \A i \in 1 .. Len(chan[s]) : chan[s][i] \in Nat BY <1>1, ElementOfSeq
<1>7. Ordered(s)'
  <2>1. Ordered(s) OBVIOUS
  <2>2. \A i \in 1 .. Len(chan[s]) - 1 :
            /\ chan'[s][i] = chan[s][i + 1] /\ i + 1 \in 1 .. Len(chan[s])
            /\ 1 \in 1 .. Len(chan[s]) /\ 1 < i + 1
        BY <1>1, <1>2, <1>3
  <2>3. \A i \in 1 .. Len(chan[s]) - 1 : chan'[s][i] > got'[s] /\ chan'[s][i] <= sent
        BY <1>2, <1>3, <1>6, <2>1, <2>2 DEF Ordered
  <2>4. ASSUME NEW i \in 1 .. Len(chan[s]) - 1, NEW k \in 1 .. Len(chan[s]) - 1, i < k
        PROVE  chan'[s][i] < chan'[s][k]
    <3>1. i + 1 < k + 1 BY <1>1, <2>4
    <3> QED BY <2>1, <2>2, <3>1 DEF Ordered
  <2> QED BY <1>2, <1>3, <2>3, <2>4 DEF Ordered
<1>8. Channel(s)'
  <2>1. Channel(s) /\ Ordered(s) OBVIOUS
  <2>2. got'[s] <= sent BY <1>1, <1>2, <1>3, <2>1 DEF Ordered
  <2>3. sub[s] # "none" BY <1>1, <2>1 DEF Channel
  <2>4. ASSUME NEW b \in Nat, got[s] <= b, chan[s] = Run(got[s], b)
        PROVE  got'[s] <= b /\ chan'[s] = Run(got'[s], b)
    <3>1. Len(chan[s]) = b - got[s] BY <1>1, <2>4, RunType
    <3>2. got[s] < b BY <1>1, <2>4, <3>1
    <3>3. Head(Run(got[s], b)) = got[s] + 1 /\ Tail(Run(got[s], b)) = Run(got[s] + 1, b)
          BY <1>1, <2>4, <3>2, RunTail, Zenon
    <3>4. got'[s] = got[s] + 1 /\ chan'[s] = Run(got[s] + 1, b)
          BY <1>3, <2>4, <3>3, Zenon
    <3>5. got[s] + 1 <= b BY <1>1, <2>4, <3>2
    <3> QED BY <3>4, <3>5, Zenon
  <2>5. sub[s] = "live" /\ ~overrun[s] => chan'[s] = Run(got'[s], sent)
        BY <1>1, <2>1, <2>4 DEF Channel
  <2>6. sub[s] = "closed" /\ ~overrun[s] =>
            got'[s] <= until[s] /\ chan'[s] = Run(got'[s], until[s])
        BY <1>1, <2>1, <2>4 DEF Channel
  <2> QED BY <1>3, <2>1, <2>2, <2>3, <2>5, <2>6 DEF Channel
<1>9. \A t \in Subscribers \ {s} : Ordered(t)' /\ Channel(t)'
      BY DEF Receive, TypeOK, Ordered, Channel
<1> QED BY <1>4, <1>5, <1>7, <1>8, <1>9

LEMMA CloseStep ==
    ASSUME IInv, CloseSubscribers
    PROVE  IInv'
<1> USE DEF IInv
<1>1. TypeOK' BY DEF CloseSubscribers, TypeOK
<1>2. HistoryIsRecent' BY DEF CloseSubscribers, HistoryIsRecent
<1>3. \A s \in Subscribers : Ordered(s)' BY DEF CloseSubscribers, Ordered
<1>4. ASSUME NEW s \in Subscribers PROVE Channel(s)'
      BY DEF CloseSubscribers, TypeOK, Channel
<1> QED BY <1>1, <1>2, <1>3, <1>4

LEMMA ClearStep ==
    ASSUME IInv, ClearHistory
    PROVE  IInv'
<1> USE DEF IInv
<1>1. << >> \in Seq(Nat) /\ Len(<< >>) = 0 BY EmptySeq
<1>2. TypeOK' BY <1>1 DEF ClearHistory, TypeOK
<1>3. << >> = Run(sent, sent) BY DEF Run, TypeOK
<1>4. HistoryIsRecent'
      BY <1>1, <1>3, SizesAssumption DEF ClearHistory, HistoryIsRecent, TypeOK
<1>5. \A s \in Subscribers : Ordered(s)' /\ Channel(s)'
      BY DEF ClearHistory, Ordered, Channel
<1> QED BY <1>2, <1>4, <1>5

(* The invariant holds in every state, for every capacity and history size.*)
THEOREM Invariance == Spec => []IInv
<1>1. ASSUME IInv, [Next]_vars PROVE IInv'
  <2>1. CASE \E s \in Subscribers : Subscribe(s) BY <1>1, <2>1, SubscribeStep
  <2>2. CASE \E s \in Subscribers : Unsubscribe(s) BY <1>1, <2>2, UnsubscribeStep
  <2>3. CASE \E s \in Subscribers : Receive(s) BY <1>1, <2>3, ReceiveStep
  <2>4. CASE Broadcast BY <1>1, <2>4, BroadcastStep
  <2>5. CASE ClearHistory BY <1>1, <2>5, ClearStep
  <2>6. CASE CloseSubscribers BY <1>1, <2>6, CloseStep
  <2>7. CASE UNCHANGED vars
        BY <1>1, <2>7 DEF vars, IInv, TypeOK, HistoryIsRecent, Ordered, Channel
  <2> QED BY <1>1, <2>1, <2>2, <2>3, <2>4, <2>5, <2>6, <2>7 DEF Next
<1> QED BY <1>1, InitIInv, PTL DEF Spec

(* No channel ever holds more than its capacity.                           *)
THEOREM TypeCorrect == Spec => []TypeOK
<1>1. IInv => TypeOK BY DEF IInv
<1> QED BY <1>1, Invariance, PTL

(* Last() and the replay show the most recent values, at most histSize.    *)
THEOREM HistoryIsTheEnd == Spec => []HistoryIsRecent
<1>1. IInv => HistoryIsRecent BY DEF IInv
<1> QED BY <1>1, Invariance, PTL

(* No subscriber of any stream sees a value twice or out of order.         *)
THEOREM DeliveredInOrder == Spec => []InOrder
<1>1. IInv => InOrder BY DEF IInv, InOrder, Ordered
<1> QED BY <1>1, Invariance, PTL

(* A subscriber that never fell behind has missed nothing.                 *)
THEOREM NothingLost == Spec => []CompleteUnlessOverrun
<1>1. IInv => CompleteUnlessOverrun BY DEF IInv, CompleteUnlessOverrun, Channel
<1> QED BY <1>1, Invariance, PTL

(* When a channel holds as much as the history, as those of the build logs *)
(* and of downloads do, what a new subscriber is replayed ends with the    *)
(* latest value.  The router log's do not: 256 against 500.                *)
THEOREM ReplayIsLatest ==
    ASSUME HistSize <= ChanCap
    PROVE  Spec => ReplayHasLatest
<1>1. ASSUME IInv, [Next]_vars, NEW s \in Subscribers,
             sub[s] = "none", sub'[s] = "live", history # << >>
      PROVE  chan'[s] # << >> /\ chan'[s][Len(chan'[s])] = history[Len(history)]
  <2>1. Subscribe(s)
        BY <1>1 DEF IInv, TypeOK, Next, vars, Subscribe, Unsubscribe, Receive,
                    Broadcast, ClearHistory, CloseSubscribers
  <2>2. /\ history \in Seq(Nat) /\ Len(history) \in Nat
        /\ Len(history) <= ChanCap
        BY <1>1, LenProperties, SizesAssumption DEF IInv, TypeOK, HistoryIsRecent
  <2>3. Replay = SubSeq(history, 1, Len(history)) BY <2>2 DEF Replay
  <2>4. SubSeq(history, 1, Len(history)) = history BY <2>2, SubSeqFull
  <2>5. chan'[s] = history BY <1>1, <2>1, <2>3, <2>4 DEF Subscribe, IInv, TypeOK
  <2> QED BY <1>1, <2>5
<1>2. IInv /\ [Next]_vars =>
        [\A s \in Subscribers :
            sub[s] = "none" /\ sub'[s] = "live" /\ history # << >> =>
                /\ chan'[s] # << >>
                /\ chan'[s][Len(chan'[s])] = history[Len(history)]]_vars
      BY <1>1
<1> QED BY <1>2, Invariance, PTL DEF Spec, ReplayHasLatest

----------------------------------------------------------------------------
(* The refinement of Feed.  What a sequence holds, under the operations.   *)
Elems(q) == {q[i] : i \in 1 .. Len(q)}

LEMMA ElemsAppend ==
    ASSUME NEW q \in Seq(Nat), NEW v \in Nat
    PROVE  Elems(Append(q, v)) = Elems(q) \union {v}
<1>1. /\ Len(q) \in Nat
      /\ Len(Append(q, v)) = Len(q) + 1
      /\ \A i \in 1 .. Len(q) : Append(q, v)[i] = q[i]
      /\ Append(q, v)[Len(q) + 1] = v
      BY AppendProperties, LenProperties
<1>2. 1 .. Len(q) + 1 = (1 .. Len(q)) \union {Len(q) + 1} BY <1>1
<1> QED BY <1>1, <1>2 DEF Elems

LEMMA ElemsTail ==
    ASSUME NEW q \in Seq(Nat), q # << >>,
           \A i, k \in 1 .. Len(q) : i < k => q[i] < q[k]
    PROVE  /\ Head(q) \in Elems(q)
           /\ \A w \in Elems(q) : Head(q) <= w
           /\ Elems(Tail(q)) = Elems(q) \ {Head(q)}
<1>1. /\ Len(q) \in Nat /\ Len(q) >= 1
      /\ Head(q) = q[1]
      /\ Len(Tail(q)) = Len(q) - 1
      /\ \A i \in 1 .. Len(q) - 1 : Tail(q)[i] = q[i + 1]
      /\ \A i \in 1 .. Len(q) : q[i] \in Nat
      BY HeadTailProperties, LenProperties, EmptySeq, ElementOfSeq
<1>2. 1 \in 1 .. Len(q) BY <1>1
<1>3. \A i \in 1 .. Len(q) : i # 1 => q[1] < q[i] BY <1>1, <1>2
<1>4. \A i \in 1 .. Len(q) : q[1] <= q[i] BY <1>1, <1>3
<1>5. ASSUME NEW w \in Elems(Tail(q)) PROVE w \in Elems(q) \ {q[1]}
  <2>1. PICK i \in 1 .. Len(q) - 1 : w = q[i + 1] BY <1>1 DEF Elems
  <2>2. i + 1 \in 1 .. Len(q) /\ i + 1 # 1 BY <1>1
  <2>3. q[1] < q[i + 1] BY <1>3, <2>2
  <2> QED BY <1>1, <1>2, <2>1, <2>2, <2>3 DEF Elems
<1>6. ASSUME NEW w \in Elems(q) \ {q[1]} PROVE w \in Elems(Tail(q))
  <2>1. PICK i \in 1 .. Len(q) : w = q[i] BY DEF Elems
  <2>2. i # 1 BY <2>1
  <2>3. i - 1 \in 1 .. Len(q) - 1 /\ (i - 1) + 1 = i BY <1>1, <2>2
  <2>4. Tail(q)[i - 1] = w BY <1>1, <2>1, <2>3
  <2> QED BY <1>1, <2>3, <2>4 DEF Elems
<1> QED BY <1>1, <1>2, <1>4, <1>5, <1>6 DEF Elems

LEMMA ElemsRun ==
    ASSUME NEW a \in Nat, NEW b \in Nat, a <= b
    PROVE  Elems(Run(a, b)) = a + 1 .. b
<1>1. Len(Run(a, b)) = b - a /\ \A i \in 1 .. b - a : Run(a, b)[i] = a + i BY RunType
<1>2. ASSUME NEW v \in a + 1 .. b PROVE v \in Elems(Run(a, b))
  <2>1. v - a \in 1 .. b - a /\ a + (v - a) = v OBVIOUS
  <2> QED BY <1>1, <2>1 DEF Elems
<1>3. ASSUME NEW v \in Elems(Run(a, b)) PROVE v \in a + 1 .. b
  <2>1. PICK i \in 1 .. b - a : v = a + i BY <1>1 DEF Elems
  <2> QED BY <2>1
<1> QED BY <1>2, <1>3

(* Nothing is owed in the beginning.                                       *)
LEMMA InitFeed == Init => Promise!Init
<1> SUFFICES ASSUME Init PROVE Promise!Init OBVIOUS
<1>1. Len(<< >>) = 0 BY EmptySeq
<1>2. ASSUME NEW s \in Subscribers PROVE Pending(s) = {}
  <2>1. chan[s] = << >> BY DEF Init
  <2>2. 1 .. Len(chan[s]) = {} BY <1>1, <2>1
  <2> QED BY <2>2 DEF Pending
<1> QED BY <1>2 DEF Init, Promise!Init

LEMMA JoinFeed ==
    ASSUME IInv, NEW s \in Subscribers, Subscribe(s)
    PROVE  Promise!Join(s)
<1> DEFINE a == sent - Len(history)
           k == IF Len(history) <= ChanCap THEN Len(history) ELSE ChanCap
<1>1. /\ a \in Nat /\ k \in 0 .. sent - a /\ Replay = Run(a, a + k)
      BY ReplayRun DEF IInv
<1>2. sent \in Nat /\ Len(history) \in Nat /\ a \in 0 .. sent
      BY <1>1, LenProperties DEF IInv, TypeOK
<1>3. a + k \in Nat /\ a <= a + k /\ a + k \in a .. sent BY <1>1, <1>2
<1> HIDE DEF a, k
<1>4. Elems(Replay) = a + 1 .. a + k BY <1>1, <1>2, <1>3, ElemsRun
<1>5. chan' = [chan EXCEPT ![s] = Replay] BY DEF Subscribe
<1>6. Pending(s)' = a + 1 .. a + k
      BY <1>4, <1>5 DEF IInv, TypeOK, Pending, Elems
<1>7. \A t \in Subscribers : t # s => Pending(t)' = Pending(t)
      BY <1>5 DEF IInv, TypeOK, Pending
<1>8. [t \in Subscribers |-> Pending(t)]' =
        [[t \in Subscribers |-> Pending(t)] EXCEPT ![s] = a + 1 .. a + k]
      BY <1>6, <1>7
<1>9. got' = [got EXCEPT ![s] = a] BY DEF Subscribe, a
<1> QED BY <1>2, <1>3, <1>8, <1>9 DEF Subscribe, Promise!Join

LEMMA LeaveFeed ==
    ASSUME IInv, NEW s \in Subscribers, Unsubscribe(s)
    PROVE  Promise!Leave(s)
<1>1. chan' = [chan EXCEPT ![s] = << >>] BY DEF Unsubscribe
<1>2. chan'[s] = << >> /\ Len(<< >>) = 0 BY <1>1, EmptySeq DEF IInv, TypeOK
<1>3. Pending(s)' = {} BY <1>2 DEF Pending
<1>4. \A t \in Subscribers : t # s => Pending(t)' = Pending(t)
      BY <1>1 DEF IInv, TypeOK, Pending
<1>5. [t \in Subscribers |-> Pending(t)]' =
        [[t \in Subscribers |-> Pending(t)] EXCEPT ![s] = {}]
      BY <1>3, <1>4
<1> QED BY <1>5 DEF Unsubscribe, Promise!Leave

LEMMA TakeFeed ==
    ASSUME IInv, NEW s \in Subscribers, Receive(s)
    PROVE  Promise!Take(s)
<1>1. chan[s] \in Seq(Nat) /\ chan[s] # << >> BY DEF IInv, TypeOK, Receive
<1>2. \A i, k \in 1 .. Len(chan[s]) : i < k => chan[s][i] < chan[s][k]
      BY DEF IInv, Ordered
<1>3. /\ Head(chan[s]) \in Elems(chan[s])
      /\ \A w \in Elems(chan[s]) : Head(chan[s]) <= w
      /\ Elems(Tail(chan[s])) = Elems(chan[s]) \ {Head(chan[s])}
      BY <1>1, <1>2, ElemsTail
<1>4. Pending(s) = Elems(chan[s]) BY DEF Pending, Elems
<1>5. chan' = [chan EXCEPT ![s] = Tail(chan[s])] BY DEF Receive
<1>6. Pending(s)' = Pending(s) \ {Head(chan[s])}
      BY <1>3, <1>4, <1>5 DEF IInv, TypeOK, Pending, Elems
<1>7. \A t \in Subscribers : t # s => Pending(t)' = Pending(t)
      BY <1>5 DEF IInv, TypeOK, Pending
<1>8. [t \in Subscribers |-> Pending(t)]' =
        [[t \in Subscribers |-> Pending(t)] EXCEPT ![s] = @ \ {Head(chan[s])}]
      BY <1>6, <1>7
<1> QED BY <1>3, <1>4, <1>8 DEF Receive, Promise!Take

(* Who misses the value: those whose channel is full, and so not empty.    *)
LEMMA PublishFeed ==
    ASSUME IInv, Broadcast
    PROVE  Promise!Publish
<1> DEFINE missed == {s \in Subscribers : sub[s] = "live" /\ Full(s)}
<1>1. sent \in Nat /\ sent + 1 \in Nat BY DEF IInv, TypeOK
<1>2. \A s \in Subscribers : chan[s] \in Seq(Nat) BY DEF IInv, TypeOK
<1>3. ASSUME NEW s \in missed PROVE Pending(s) # {}
  <2>1. Len(chan[s]) \in Nat /\ Len(chan[s]) >= 1
        BY <1>2, LenProperties, SizesAssumption DEF Full
  <2>2. 1 \in 1 .. Len(chan[s]) BY <2>1
  <2> QED BY <2>2 DEF Pending
<1>4. ASSUME NEW s \in Subscribers
      PROVE  Pending(s)' = IF sub[s] = "live" /\ s \notin missed
                           THEN Pending(s) \union {sent + 1} ELSE Pending(s)
  <2>1. chan'[s] = IF sub[s] = "live" /\ ~Full(s) THEN Append(chan[s], sent + 1) ELSE chan[s]
        BY DEF Broadcast, Send
  <2>2. Elems(Append(chan[s], sent + 1)) = Elems(chan[s]) \union {sent + 1}
        BY <1>1, <1>2, ElemsAppend
  <2>3. Pending(s) = Elems(chan[s]) /\ Pending(s)' = Elems(chan'[s]) BY DEF Pending, Elems
  <2> QED BY <2>1, <2>2, <2>3
<1>5. missed \in SUBSET {s \in Subscribers : sub[s] = "live" /\ Pending(s) # {}} BY <1>3
<1>6. missed \in SUBSET {s \in Subscribers :
                sub[s] = "live" /\ [t \in Subscribers |-> Pending(t)][s] # {}} BY <1>5
<1> HIDE DEF missed
<1>7. [s \in Subscribers |-> Pending(s)]' =
        [s \in Subscribers |-> IF sub[s] = "live" /\ s \notin missed
            THEN [t \in Subscribers |-> Pending(t)][s] \union {sent + 1}
            ELSE [t \in Subscribers |-> Pending(t)][s]]
      BY <1>4
<1> QED BY <1>6, <1>7 DEF Broadcast, Promise!Publish

(* "A subscriber that falls behind misses values rather than stalling the  *)
(* producer", and nothing else is missed: the broadcaster with its history *)
(* and channels implements the feed, for every size of either.             *)
THEOREM ImplementsFeed == Spec => KeepsItsPromise
<1>1. ASSUME IInv, [Next]_vars PROVE [Promise!Next]_(Promise!vars)
  <2>1. CASE \E s \in Subscribers : Subscribe(s)
        BY <1>1, <2>1, JoinFeed DEF Promise!Next
  <2>2. CASE \E s \in Subscribers : Unsubscribe(s)
        BY <1>1, <2>2, LeaveFeed DEF Promise!Next
  <2>3. CASE \E s \in Subscribers : Receive(s)
        BY <1>1, <2>3, TakeFeed DEF Promise!Next
  <2>4. CASE Broadcast BY <1>1, <2>4, PublishFeed DEF Promise!Next
  <2>5. CASE ClearHistory BY <2>5 DEF ClearHistory, Promise!vars, Pending
  <2>6. CASE CloseSubscribers
    <3>1. chan' = chan BY <2>6 DEF CloseSubscribers
    <3>2. [s \in Subscribers |-> Pending(s)]' = [s \in Subscribers |-> Pending(s)]
          BY <3>1 DEF Pending
    <3>3. Promise!Close BY <2>6, <3>2 DEF CloseSubscribers, Promise!Close
    <3> QED BY <3>3 DEF Promise!Next
  <2>7. CASE UNCHANGED vars BY <2>7 DEF vars, Promise!vars, Pending
  <2> QED BY <1>1, <2>1, <2>2, <2>3, <2>4, <2>5, <2>6, <2>7 DEF Next
<1> QED BY <1>1, InitFeed, Invariance, PTL DEF Spec, KeepsItsPromise, Promise!Spec

----------------------------------------------------------------------------
(* Builder.                                                                *)

(* What Toolchain's operators keep of a flag set.                          *)
Includes(f, g) == \A k \in DOMAIN g : k \in DOMAIN f /\ f[k] = g[k]

LEMMA OverlayIncludes ==
    ASSUME NEW f, NEW g
    PROVE  Includes(Overlay(f, g), g)
  BY DEF Includes, Overlay

LEMMA PinIncludes ==
    ASSUME NEW f, NEW g, NEW name, NEW found, Includes(f, g)
    PROVE  Includes(Pin(f, name, found), g)
  BY DEF Includes, Pin, Default, Overlay

(* The flags of a request hold its extra ones, and what cmake is given     *)
(* holds the flags, whatever is found on the machine.                      *)
LEMMA EffectiveIncludes ==
    ASSUME NEW prof, NEW toggles, NEW extra
    PROVE  Includes(Effective(m, prof, toggles, extra), extra)
  BY OverlayIncludes DEF Effective

LEMMA ConfigureIncludes ==
    ASSUME NEW prof, NEW flags
    PROVE  Includes(Configure(m, prof, flags).args, flags)
  <1> DEFINE args == Overlay(BaseArgs, flags)
  <1>1. Includes(args, flags)
    BY OverlayIncludes
  <1> HIDE DEF args
  <1>2. Includes(ConfigureRocm(m, args).args, flags)
    BY <1>1, PinIncludes DEF ConfigureRocm
  <1>3. Includes(ConfigureCuda(m, args).args, flags)
    BY <1>1, PinIncludes DEF ConfigureCuda
  <1>4. Configure(m, prof, flags).args \in {args, ConfigureRocm(m, args).args, ConfigureCuda(m, args).args}
    BY DEF Configure, args
  <1>5. QED
    BY <1>1, <1>2, <1>3, <1>4

LEMMA IncludesAll ==
    ASSUME NEW f, NEW g, NEW h, Includes(f, g), Includes(g, h)
    PROVE  Includes(f, h)
  BY DEF Includes

(* A saved set fills the form with what it was saved from.                 *)
LEMMA AppliedIsSaved ==
    ASSUME NEW set, NEW r,
           set.options = [o \in DOMAIN Options(m, r.prof) |-> Has(r.toggles, o) /\ r.toggles[o]],
           set.prof = r.prof
    PROVE  Applied(set) = set.options
  <1>1. \A o \in DOMAIN Options(m, r.prof) : (Has(set.options, o) /\ set.options[o]) = set.options[o]
    BY DEF Has
  <1>2. QED
    BY <1>1 DEF Applied

----------------------------------------------------------------------------
(* What a slot holds.                                                      *)
SlotPCs == Built \union {"fetch", "checkout", "sha", "name", "register"}

(* A request in its slot, with what the steps of a build set.              *)
Slot(q, pc, ref, id, src, args, sha) ==
    [ pc |-> pc, n |-> q.n, req |-> q.req, ref |-> ref, force |-> q.force, want |-> q.want,
      flags |-> q.flags, id |-> id, src |-> src, args |-> args, sha |-> sha ]
IsSlot(q) == q = Slot(q, q.pc, q.ref, q.id, q.src, q.args, q.sha)

IsRequest(r) ==
    /\ r = [prof |-> r.prof, ref |-> r.ref, tag |-> r.tag, toggles |-> r.toggles, extra |-> r.extra]
    /\ r.ref \in Refs \union {"latest"}

SlotIs(q, machine, count) ==
    /\ IsSlot(q) /\ q.pc \in SlotPCs
    /\ IsRequest(q.req) /\ q.req.prof \in Profiles
    /\ q.n \in Nat /\ q.n < count
    /\ q.flags = Effective(machine, q.req.prof, q.req.toggles, q.req.extra)
    /\ q.ref \in Refs \union {"latest"}
    /\ q.pc \notin {"fetch", "checkout"} => q.ref \in Refs
    /\ q.pc \notin {"fetch", "checkout", "sha"} => q.sha \in Refs
    /\ q.pc \in Built \union {"register"} => q.id.ref \in Refs
    /\ q.src \subseteq Refs
    /\ q.pc \in {"compile", "install", "finish"} => q.args = Configure(machine, q.req.prof, q.flags).args
SlotFine(q) == SlotIs(q, m, ops)

SlotsFine ==
    /\ slot = [s \in Slots |-> slot[s]]
    /\ \A s \in Slots : slot[s] = Idle \/ SlotFine(slot[s])
    /\ \A s, t \in InPipeline : slot[s].n = slot[t].n => s = t

IsBin(b) == b = [src |-> b.src, flags |-> b.flags] /\ b.src \subseteq Refs

Statuses == {"building", "success", "failed"}
IsEntry(b) ==
    /\ b = [status |-> b.status, own |-> b.own, sha |-> b.sha, ref |-> b.ref, flags |-> b.flags, n |-> b.n]
    /\ b.status \in Statuses

SetsFine == \A n \in DOMAIN sets :
    /\ Applied(sets[n]) = sets[n].options
    /\ sets[n].was = Effective(m, sets[n].prof, sets[n].options, sets[n].extra)

Shape ==
    /\ ops \in 0 .. MaxOps
    /\ tree \in Refs
    /\ SlotsFine
    /\ objs = [p \in Profiles |-> objs[p]] /\ \A p \in Profiles : IsBin(objs[p])
    /\ \A i \in DOMAIN out : IsBin(out[i])
    /\ \A i \in DOMAIN builds : IsEntry(builds[i])
    /\ \A i \in DOMAIN file : IsEntry(file[i])
    /\ \A q \in asked : IsRequest(q.r)
    /\ SetsFine

(* The updates of a slot that the code's steps make, one field at a time.  *)
LEMMA SlotUpdates ==
    ASSUME NEW q, IsSlot(q), NEW v
    PROVE  /\ [q EXCEPT !.pc = v] = Slot(q, v, q.ref, q.id, q.src, q.args, q.sha)
           /\ [q EXCEPT !.sha = v] = Slot(q, q.pc, q.ref, q.id, q.src, q.args, v)
           /\ [q EXCEPT !.ref = v] = Slot(q, q.pc, v, q.id, q.src, q.args, q.sha)
           /\ [q EXCEPT !.id = v] = Slot(q, q.pc, q.ref, v, q.src, q.args, q.sha)
           /\ [q EXCEPT !.src = v] = Slot(q, q.pc, q.ref, q.id, v, q.args, q.sha)
           /\ [q EXCEPT !.args = v] = Slot(q, q.pc, q.ref, q.id, q.src, v, q.sha)
  <1> DEFINE Old == [pc : {q.pc, v}, n : {q.n}, req : {q.req}, ref : {q.ref, v}, force : {q.force},
                     want : {q.want}, flags : {q.flags}, id : {q.id, v}, src : {q.src, v},
                     args : {q.args, v}, sha : {q.sha, v}]
  <1>1. q \in Old
    BY DEF IsSlot, Slot
  <1>2. [q EXCEPT !.pc = v] = Slot(q, v, q.ref, q.id, q.src, q.args, q.sha)
    BY <1>1 DEF Slot
  <1>3. [q EXCEPT !.sha = v] = Slot(q, q.pc, q.ref, q.id, q.src, q.args, v)
    BY <1>1 DEF Slot
  <1>4. [q EXCEPT !.ref = v] = Slot(q, q.pc, v, q.id, q.src, q.args, q.sha)
    BY <1>1 DEF Slot
  <1>5. [q EXCEPT !.id = v] = Slot(q, q.pc, q.ref, v, q.src, q.args, q.sha)
    BY <1>1 DEF Slot
  <1>6. [q EXCEPT !.src = v] = Slot(q, q.pc, q.ref, q.id, v, q.args, q.sha)
    BY <1>1 DEF Slot
  <1>7. [q EXCEPT !.args = v] = Slot(q, q.pc, q.ref, q.id, q.src, v, q.sha)
    BY <1>1 DEF Slot
  <1>8. QED
    BY <1>2, <1>3, <1>4, <1>5, <1>6, <1>7

LEMMA SlotFields ==
    ASSUME NEW q, NEW pc, NEW ref, NEW id, NEW src, NEW args, NEW sha,
           NEW e, e = Slot(q, pc, ref, id, src, args, sha)
    PROVE  /\ IsSlot(e) /\ e.pc = pc /\ e.n = q.n /\ e.req = q.req /\ e.ref = ref /\ e.force = q.force
           /\ e.flags = q.flags /\ e.id = id /\ e.src = src /\ e.args = args /\ e.sha = sha
  BY DEF IsSlot, Slot

(* A step of slot s that leaves it as e, or idle, and the others alone.    *)
Moves(s, e) ==
    /\ slot' = [t \in Slots |-> slot'[t]]
    /\ slot'[s] = e
    /\ \A t \in Slots \ {s} : slot'[t] = slot[t]

LEMMA SlotPut ==
    ASSUME SlotsFine, NEW s \in Slots, NEW e
    PROVE  /\ slot' = [slot EXCEPT ![s] = e] => Moves(s, e)
           /\ \A pc : To(s, pc) => slot' = [slot EXCEPT ![s] = [slot[s] EXCEPT !.pc = pc]]
           /\ Leave(s) => Moves(s, Idle)
  <1>1. slot' = [slot EXCEPT ![s] = e] => Moves(s, e)
    BY DEF SlotsFine, Moves
  <1>2. Leave(s) => Moves(s, Idle)
    BY DEF SlotsFine, Moves, Leave
  <1>3. \A pc : To(s, pc) => slot' = [slot EXCEPT ![s] = [slot[s] EXCEPT !.pc = pc]]
    BY DEF SlotsFine, To
  <1>4. QED
    BY <1>1, <1>2, <1>3

LEMMA ToMoves ==
    ASSUME SlotsFine, NEW s \in Slots, SlotFine(slot[s]), NEW pc, To(s, pc), NEW q, q = slot[s]
    PROVE  Moves(s, Slot(q, pc, q.ref, q.id, q.src, q.args, q.sha))
  <1>1. slot' = [slot EXCEPT ![s] = [q EXCEPT !.pc = pc]]
    BY SlotPut
  <1>2. IsSlot(q)
    BY DEF SlotFine, SlotIs
  <1>3. [q EXCEPT !.pc = pc] = Slot(q, pc, q.ref, q.id, q.src, q.args, q.sha)
    BY <1>2, SlotUpdates, ZenonT(60)
  <1>4. QED
    BY <1>1, <1>3, SlotPut

(* A slot that a step takes on with other fields.                          *)
WithSha(q, v, pc) == [[q EXCEPT !.sha = v] EXCEPT !.pc = pc]
WithRef(q, v, pc) == [[q EXCEPT !.ref = v] EXCEPT !.pc = pc]
WithId(q, v, pc) == [[q EXCEPT !.id = v] EXCEPT !.pc = pc]
WithArgs(q, src, v, pc) == [[[q EXCEPT !.src = src] EXCEPT !.args = v] EXCEPT !.pc = pc]

LEMMA TwoUpdates ==
    ASSUME NEW q, IsSlot(q), NEW v, NEW pc, NEW src
    PROVE  /\ WithSha(q, v, pc) = Slot(q, pc, q.ref, q.id, q.src, q.args, v)
           /\ WithRef(q, v, pc) = Slot(q, pc, v, q.id, q.src, q.args, q.sha)
           /\ WithId(q, v, pc) = Slot(q, pc, q.ref, v, q.src, q.args, q.sha)
           /\ WithArgs(q, src, v, pc) = Slot(q, pc, q.ref, q.id, src, v, q.sha)
  <1>1. \A e : IsSlot(e) => [e EXCEPT !.pc = pc] = Slot(e, pc, e.ref, e.id, e.src, e.args, e.sha)
    BY SlotUpdates
  <1>2. WithSha(q, v, pc) = Slot(q, pc, q.ref, q.id, q.src, q.args, v)
    <2> DEFINE e == [q EXCEPT !.sha = v]
    <2>1. e = Slot(q, q.pc, q.ref, q.id, q.src, q.args, v)
      BY SlotUpdates, ZenonT(60)
    <2> HIDE DEF e
    <2>2. [e EXCEPT !.pc = pc] = Slot(e, pc, e.ref, e.id, e.src, e.args, e.sha)
      BY <1>1, <2>1, SlotFields
    <2>3. QED
      BY <2>1, <2>2 DEF Slot, e, WithSha
  <1>3. WithRef(q, v, pc) = Slot(q, pc, v, q.id, q.src, q.args, q.sha)
    <2> DEFINE e == [q EXCEPT !.ref = v]
    <2>1. e = Slot(q, q.pc, v, q.id, q.src, q.args, q.sha)
      BY SlotUpdates
    <2> HIDE DEF e
    <2>2. [e EXCEPT !.pc = pc] = Slot(e, pc, e.ref, e.id, e.src, e.args, e.sha)
      BY <1>1, <2>1, SlotFields
    <2>3. QED
      BY <2>1, <2>2 DEF Slot, e, WithRef
  <1>4. WithId(q, v, pc) = Slot(q, pc, q.ref, v, q.src, q.args, q.sha)
    <2> DEFINE e == [q EXCEPT !.id = v]
    <2>1. e = Slot(q, q.pc, q.ref, v, q.src, q.args, q.sha)
      BY SlotUpdates
    <2> HIDE DEF e
    <2>2. [e EXCEPT !.pc = pc] = Slot(e, pc, e.ref, e.id, e.src, e.args, e.sha)
      BY <1>1, <2>1, SlotFields
    <2>3. QED
      BY <2>1, <2>2 DEF Slot, e, WithId
  <1>5. WithArgs(q, src, v, pc) = Slot(q, pc, q.ref, q.id, src, v, q.sha)
    <2> DEFINE d == [q EXCEPT !.src = src]
               e == [d EXCEPT !.args = v]
    <2>1. d = Slot(q, q.pc, q.ref, q.id, src, q.args, q.sha)
      BY SlotUpdates
    <2> HIDE DEF d
    <2>2. e = Slot(d, d.pc, d.ref, d.id, d.src, v, d.sha)
      <3>1. IsSlot(d)
        BY <2>1, SlotFields
      <3>2. QED
        BY <3>1, SlotUpdates
    <2>3. IsSlot(e)
      BY <2>2, SlotFields
    <2> HIDE DEF e
    <2>4. [e EXCEPT !.pc = pc] = Slot(e, pc, e.ref, e.id, e.src, e.args, e.sha)
      BY <1>1, <2>3
    <2>5. [e EXCEPT !.pc = pc] = Slot(q, pc, q.ref, q.id, src, v, q.sha)
      BY <2>1, <2>2, <2>4 DEF Slot
    <2>6. QED
      BY <2>5 DEF d, e, WithArgs
  <1>6. QED
    BY <1>2, <1>3, <1>4, <1>5

----------------------------------------------------------------------------
(* What each step of a build does to its slot.                             *)
LEMMA StepSlot ==
    ASSUME SlotsFine, NEW s \in Slots, NEW pc, At(s, pc), pc \in SlotPCs
    PROVE  SlotFine(slot[s]) /\ slot[s].pc = pc /\ ops' = ops /\ m' = m /\ sc' = sc
  BY DEF SlotsFine, At, Idle, SlotPCs, Built

LEMMA EnsureRepoMoves ==
    ASSUME SlotsFine, NEW s \in Slots, EnsureRepo(s), NEW q, q = slot[s]
    PROVE  /\ SlotFine(q) /\ q.pc = "fetch"
           /\ Moves(s, Slot(q, "checkout", q.ref, q.id, q.src, q.args, q.sha)) \/ Moves(s, Idle)
  <1>1. SlotFine(q) /\ q.pc = "fetch"
    BY StepSlot DEF EnsureRepo, SlotPCs
  <1>2. CASE To(s, "checkout")
    BY <1>1, <1>2, ToMoves
  <1>3. CASE Leave(s)
    BY <1>1, <1>3, SlotPut
  <1>4. QED
    BY <1>1, <1>2, <1>3 DEF EnsureRepo

LEMMA RevParseMoves ==
    ASSUME SlotsFine, NEW s \in Slots, RevParse(s), NEW q, q = slot[s]
    PROVE  /\ SlotFine(q) /\ q.pc = "sha"
           /\ Moves(s, Slot(q, "name", q.ref, q.id, q.src, q.args, tree))
  <1>1. SlotFine(q) /\ q.pc = "sha"
    BY StepSlot DEF RevParse, SlotPCs
  <1>i. IsSlot(q)
    BY <1>1 DEF SlotFine, SlotIs
  <1>2. slot' = [slot EXCEPT ![s] = WithSha(q, tree, "name")]
    BY DEF RevParse, SlotsFine, WithSha
  <1>3. WithSha(q, tree, "name") = Slot(q, "name", q.ref, q.id, q.src, q.args, tree)
    BY <1>i, TwoUpdates
  <1>4. QED
    BY <1>1, <1>2, <1>3, SlotPut

LEMMA NameMoves ==
    ASSUME SlotsFine, NEW s \in Slots, Name(s), NEW q, q = slot[s]
    PROVE  /\ SlotFine(q) /\ q.pc = "name"
           /\ \E id : id.ref = q.ref /\ Moves(s, Slot(q, "register", q.ref, id, q.src, q.args, q.sha))
  <1>1. SlotFine(q) /\ q.pc = "name"
    BY StepSlot DEF Name, SlotPCs
  <1>i. IsSlot(q)
    BY <1>1 DEF SlotFine, SlotIs
  <1> DEFINE plain == Id(q.ref, q.req.prof, q.req.tag, NoFlags)
             taken == q.req.tag = "" /\ plain \in DOMAIN builds /\ builds[plain].flags # q.flags
             id == IF taken THEN [plain EXCEPT !.hash = q.flags] ELSE plain
  <1>2. slot' = [slot EXCEPT ![s] = WithId(q, id, "register")]
    BY DEF Name, SlotsFine, WithId
  <1>3. id.ref = q.ref
    BY DEF Id
  <1> HIDE DEF id
  <1>4. WithId(q, id, "register") = Slot(q, "register", q.ref, id, q.src, q.args, q.sha)
    BY <1>i, TwoUpdates
  <1>5. QED
    BY <1>1, <1>2, <1>3, <1>4, SlotPut

LEMMA RegisterMoves ==
    ASSUME SlotsFine, NEW s \in Slots, Register(s), NEW q, q = slot[s]
    PROVE  /\ SlotFine(q) /\ q.pc = "register"
           /\ Moves(s, Slot(q, "stream", q.ref, q.id, q.src, q.args, q.sha)) \/ Moves(s, Idle)
  <1>1. SlotFine(q) /\ q.pc = "register"
    BY StepSlot DEF Register, SlotPCs
  <1>2. To(s, "stream") \/ Leave(s)
    BY DEF Register
  <1>3. QED
    BY <1>1, <1>2, ToMoves, SlotPut

LEMMA OpenStreamMoves ==
    ASSUME SlotsFine, NEW s \in Slots, OpenStream(s), NEW q, q = slot[s]
    PROVE  /\ SlotFine(q) /\ q.pc = "stream"
           /\ Moves(s, Slot(q, "configure", q.ref, q.id, q.src, q.args, q.sha))
  <1>1. SlotFine(q) /\ q.pc = "stream"
    BY StepSlot DEF OpenStream, SlotPCs, Built
  <1>2. QED
    BY <1>1, ToMoves DEF OpenStream

LEMMA RunCMakeMoves ==
    ASSUME SlotsFine, NEW s \in Slots, RunCMake(s), NEW q, q = slot[s]
    PROVE  /\ SlotFine(q) /\ q.pc = "configure"
           /\ \/ Moves(s, Slot(q, "compile", q.ref, q.id, {tree}, Configure(m, q.req.prof, q.flags).args, q.sha))
              \/ Moves(s, Slot(q, "close", q.ref, q.id, q.src, q.args, q.sha)) /\ Fail(s)
  <1>1. SlotFine(q) /\ q.pc = "configure"
    BY StepSlot DEF RunCMake, SlotPCs, Built
  <1>i. IsSlot(q)
    BY <1>1 DEF SlotFine, SlotIs
  <1> DEFINE args == Configure(m, q.req.prof, q.flags).args
  <1>2. CASE slot' = [slot EXCEPT ![s].src = {tree}, ![s].args = args, ![s].pc = "compile"]
    <2> HIDE DEF args
    <2>1. slot' = [slot EXCEPT ![s] = WithArgs(q, {tree}, args, "compile")]
      BY <1>2 DEF SlotsFine, WithArgs
    <2>2. WithArgs(q, {tree}, args, "compile")
            = Slot(q, "compile", q.ref, q.id, {tree}, args, q.sha)
      BY <1>i, TwoUpdates
    <2>3. QED
      BY <1>1, <2>1, <2>2, SlotPut DEF args
  <1>3. CASE Fail(s)
    BY <1>1, <1>3, ToMoves DEF Fail
  <1>4. QED
    BY <1>1, <1>2, <1>3 DEF RunCMake

LEMMA LaterMoves ==
    ASSUME SlotsFine, NEW s \in Slots, NEW q, q = slot[s]
    PROVE  /\ RunNinja(s) =>
                /\ SlotFine(q) /\ q.pc = "compile"
                /\ \/ Moves(s, Slot(q, "install", q.ref, q.id, q.src, q.args, q.sha))
                   \/ Moves(s, Slot(q, "close", q.ref, q.id, q.src, q.args, q.sha)) /\ Fail(s)
           /\ Install(s) =>
                /\ SlotFine(q) /\ q.pc = "install"
                /\ \/ Moves(s, Slot(q, "finish", q.ref, q.id, q.src, q.args, q.sha))
                   \/ Moves(s, Slot(q, "close", q.ref, q.id, q.src, q.args, q.sha)) /\ Fail(s)
           /\ Succeed(s) => /\ SlotFine(q) /\ q.pc = "finish"
                            /\ Moves(s, Slot(q, "close", q.ref, q.id, q.src, q.args, q.sha))
           /\ Close(s) => SlotFine(q) /\ q.pc = "close" /\ Moves(s, Idle)
  <1>1. ASSUME RunNinja(s)
        PROVE  /\ SlotFine(q) /\ q.pc = "compile"
               /\ \/ Moves(s, Slot(q, "install", q.ref, q.id, q.src, q.args, q.sha))
                  \/ Moves(s, Slot(q, "close", q.ref, q.id, q.src, q.args, q.sha)) /\ Fail(s)
    <2>1. SlotFine(q) /\ q.pc = "compile"
      BY <1>1, StepSlot DEF RunNinja, SlotPCs, Built
    <2>2. To(s, "install") \/ Fail(s)
      BY <1>1 DEF RunNinja
    <2>3. QED
      BY <2>1, <2>2, ToMoves DEF Fail
  <1>2. ASSUME Install(s)
        PROVE  /\ SlotFine(q) /\ q.pc = "install"
               /\ \/ Moves(s, Slot(q, "finish", q.ref, q.id, q.src, q.args, q.sha))
                  \/ Moves(s, Slot(q, "close", q.ref, q.id, q.src, q.args, q.sha)) /\ Fail(s)
    <2>1. SlotFine(q) /\ q.pc = "install"
      BY <1>2, StepSlot DEF Install, SlotPCs, Built
    <2>2. To(s, "finish") \/ Fail(s)
      BY <1>2 DEF Install
    <2>3. QED
      BY <2>1, <2>2, ToMoves DEF Fail
  <1>3. ASSUME Succeed(s)
        PROVE  /\ SlotFine(q) /\ q.pc = "finish"
               /\ Moves(s, Slot(q, "close", q.ref, q.id, q.src, q.args, q.sha))
    <2>1. SlotFine(q) /\ q.pc = "finish"
      BY <1>3, StepSlot DEF Succeed, SlotPCs, Built
    <2>2. QED
      BY <1>3, <2>1, ToMoves DEF Succeed
  <1>4. ASSUME Close(s)
        PROVE  SlotFine(q) /\ q.pc = "close" /\ Moves(s, Idle)
    <2>1. SlotFine(q) /\ q.pc = "close"
      BY <1>4, StepSlot DEF Close, SlotPCs, Built
    <2>2. QED
      BY <1>4, <2>1, SlotPut DEF Close
  <1>5. QED
    BY <1>1, <1>2, <1>3, <1>4

----------------------------------------------------------------------------
(* The slots stay what they are declared to be.                            *)
LEMMA KeptFine ==
    ASSUME ops \in Nat, ops' \in Nat, ops <= ops', m' = m, NEW q, SlotFine(q)
    PROVE  SlotIs(q, m', ops')
  BY DEF SlotFine, SlotIs

LEMMA IdleFine ==
    ASSUME SlotsFine, ops \in Nat, ops' \in Nat, ops <= ops', m' = m, NEW s \in Slots, Moves(s, Idle)
    PROVE  SlotsFine'
  <1>1. \A t \in Slots : slot'[t] = Idle \/ SlotIs(slot'[t], m', ops')
    BY KeptFine DEF Moves, SlotsFine, Idle
  <1>2. \A t \in InPipeline' : t \in InPipeline /\ slot'[t] = slot[t]
    BY DEF Moves, InPipeline, Idle
  <1>3. QED
    BY <1>1, <1>2 DEF SlotsFine, SlotFine, Moves, Idle

(* A slot that goes on is the same request's.                              *)
LEMMA GoesOnFine ==
    ASSUME SlotsFine, ops \in Nat, ops' = ops, m' = m, NEW s \in Slots, NEW e, Moves(s, e),
           SlotFine(slot[s]), SlotFine(e), e.n = slot[s].n
    PROVE  SlotsFine'
  <1>1. \A t \in Slots : slot'[t] = Idle \/ SlotIs(slot'[t], m', ops')
    BY KeptFine DEF Moves, SlotsFine, Idle
  <1>2. s \in InPipeline
    BY DEF SlotFine, SlotIs, SlotPCs, Built, InPipeline
  <1>3. \A t \in InPipeline' : t \in InPipeline /\ slot'[t].n = slot[t].n
    BY <1>2 DEF Moves, InPipeline
  <1>4. QED
    BY <1>1, <1>3 DEF SlotsFine, SlotFine, Moves, Idle

LEMMA MoveFine ==
    ASSUME SlotsFine, ops \in Nat, ops' = ops, m' = m, NEW s \in Slots, NEW q, q = slot[s], SlotFine(q),
           NEW pc \in SlotPCs, NEW ref, NEW id, NEW src, NEW args, NEW sha,
           Moves(s, Slot(q, pc, ref, id, src, args, sha)),
           ref \in Refs \union {"latest"}, src \subseteq Refs,
           pc \notin {"fetch", "checkout"} => ref \in Refs,
           pc \notin {"fetch", "checkout", "sha"} => sha \in Refs,
           pc \in Built \union {"register"} => id.ref \in Refs,
           pc \in {"compile", "install", "finish"} => args = Configure(m, q.req.prof, q.flags).args
    PROVE  SlotsFine'
  <1> DEFINE e == Slot(q, pc, ref, id, src, args, sha)
  <1>1. /\ IsSlot(e) /\ e.pc = pc /\ e.n = q.n /\ e.req = q.req /\ e.ref = ref /\ e.force = q.force
        /\ e.flags = q.flags /\ e.id = id /\ e.src = src /\ e.args = args /\ e.sha = sha
    BY SlotFields
  <1> HIDE DEF e
  <1>2. SlotFine(e)
    BY <1>1 DEF SlotFine, SlotIs
  <1>3. Moves(s, e)
    BY DEF e
  <1>4. QED
    BY <1>1, <1>2, <1>3, GoesOnFine

LEMMA EnterFine ==
    ASSUME SlotsFine, ops \in Nat, ops' = ops + 1, m' = m, NEW s \in Slots,
           NEW r, NEW force, NEW want, IsRequest(r), Enter(s, r, force, want)
    PROVE  /\ SlotsFine'
           /\ slot[s] = Idle /\ ("overlap" \notin sc => InPipeline = {})
           /\ \A t \in Slots \ {s} : slot'[t] = slot[t]
           /\ slot'[s].pc = "fetch" /\ slot'[s].n = ops /\ slot'[s].force = force
           /\ slot'[s].req = r /\ s \in InPipeline'
  <1> DEFINE e == [ pc |-> "fetch", n |-> ops, req |-> r, ref |-> r.ref, force |-> force, want |-> want,
                    flags |-> Effective(m, r.prof, r.toggles, r.extra),
                    id |-> NoId, src |-> {}, args |-> NoFlags, sha |-> "" ]
  <1>1. Valid(r) /\ slot[s] = Idle /\ ("overlap" \notin sc => InPipeline = {})
    BY DEF Enter
  <1>2. slot' = [slot EXCEPT ![s] = e]
    BY DEF Enter
  <1>3. /\ IsSlot(e) /\ e.pc = "fetch" /\ e.n = ops /\ e.req = r /\ e.ref = r.ref /\ e.src = {}
        /\ e.flags = Effective(m, r.prof, r.toggles, r.extra) /\ e.force = force
    BY DEF IsSlot, Slot
  <1> HIDE DEF e
  <1>4. Moves(s, e)
    BY <1>2, SlotPut
  <1>5. SlotIs(e, m', ops')
    BY <1>1, <1>3 DEF SlotFine, SlotIs, IsRequest, Valid, SlotPCs, Built
  <1>6. \A t \in Slots : slot'[t] = Idle \/ SlotIs(slot'[t], m', ops')
    BY <1>4, <1>5, KeptFine DEF Moves, SlotsFine
  <1>7. \A t \in InPipeline' :
           \/ t = s /\ slot'[t].n = ops
           \/ t \in InPipeline /\ slot'[t].n = slot[t].n /\ slot[t].n < ops /\ t # s
    <2>0. slot'[s].n = ops
      BY <1>3, <1>4 DEF Moves
    <2>1. SUFFICES ASSUME NEW t \in InPipeline', t # s
                   PROVE  t \in InPipeline /\ slot'[t].n = slot[t].n /\ slot[t].n < ops
      BY <2>0
    <2>2. t \in Slots /\ slot'[t] = slot[t] /\ slot[t].pc # "idle"
      BY <1>4, <2>1 DEF Moves, InPipeline
    <2>3. SlotFine(slot[t])
      BY <2>2 DEF SlotsFine, Idle
    <2>4. QED
      BY <2>2, <2>3 DEF InPipeline, SlotFine, SlotIs
  <1>8. SlotsFine'
    <2>1. \A t, u \in InPipeline' : slot'[t].n = slot'[u].n => t = u
      <3>1. SUFFICES ASSUME NEW t \in InPipeline', NEW u \in InPipeline', slot'[t].n = slot'[u].n
                     PROVE  t = u
        OBVIOUS
      <3>2. CASE t # s /\ u # s
        BY <1>7, <3>1, <3>2 DEF SlotsFine
      <3>3. CASE t = s \/ u = s
        BY <1>7, <3>1, <3>3
      <3>4. QED
        BY <3>2, <3>3
    <2>2. QED
      BY <1>4, <1>6, <2>1 DEF SlotsFine, SlotFine, Moves, Idle
  <1>9. QED
    BY <1>1, <1>3, <1>4, <1>8 DEF Moves, InPipeline

(* A checkout, which whatever compiles in the clone sees.                  *)
Peeks(t, ref) ==
    IF slot[t].pc = "compile" THEN slot'[t] = Slot(slot[t], slot[t].pc, slot[t].ref, slot[t].id,
                                                   slot[t].src \union {ref}, slot[t].args, slot[t].sha)
    ELSE slot'[t] = slot[t]

LEMMA CheckoutMoves ==
    ASSUME SlotsFine, NEW s \in Slots, CheckoutRef(s), NEW q, q = slot[s]
    PROVE  /\ SlotFine(q) /\ q.pc = "checkout"
           /\ slot' = [t \in Slots |-> slot'[t]]
           /\ \E ref \in Refs : /\ tree' = ref
                               /\ slot'[s] = Slot(q, "sha", ref, q.id, q.src, q.args, q.sha)
                               /\ \A t \in Slots \ {s} : Peeks(t, ref)
  <1>1. SlotFine(q) /\ q.pc = "checkout"
    BY StepSlot DEF CheckoutRef, SlotPCs
  <1>i. IsSlot(q)
    BY <1>1 DEF SlotFine, SlotIs
  <1> DEFINE ref == IF q.ref = "latest" THEN Latest ELSE q.ref
  <1>2. ref \in Refs
    BY <1>1, RefsAssumption DEF SlotFine, SlotIs
  <1>3. tree' = ref /\ slot' = [Seen(ref) EXCEPT ![s].ref = ref, ![s].pc = "sha"]
    BY DEF CheckoutRef
  <1> HIDE DEF ref
  <1>4. /\ Seen(ref) = [t \in Slots |-> Seen(ref)[t]] /\ Seen(ref)[s] = q
        /\ \A t \in Slots : Seen(ref)[t] = IF slot[t].pc = "compile"
                                          THEN [slot[t] EXCEPT !.src = slot[t].src \union {ref}] ELSE slot[t]
    BY <1>1 DEF Seen, Compiling
  <1>5. slot' = [Seen(ref) EXCEPT ![s] = WithRef(q, ref, "sha")]
    BY <1>3, <1>4 DEF WithRef
  <1>6. WithRef(q, ref, "sha") = Slot(q, "sha", ref, q.id, q.src, q.args, q.sha)
    BY <1>i, TwoUpdates
  <1>7. /\ slot' = [t \in Slots |-> slot'[t]]
        /\ slot'[s] = Slot(q, "sha", ref, q.id, q.src, q.args, q.sha)
        /\ \A t \in Slots \ {s} : slot'[t] = Seen(ref)[t]
    BY <1>4, <1>5, <1>6
  <1>8. ASSUME NEW t \in Slots \ {s} PROVE Peeks(t, ref)
    <2>1. CASE slot[t].pc = "compile"
      <3>1. IsSlot(slot[t])
        BY <2>1 DEF SlotsFine, SlotFine, SlotIs, Idle
      <3>2. [slot[t] EXCEPT !.src = slot[t].src \union {ref}]
              = Slot(slot[t], slot[t].pc, slot[t].ref, slot[t].id, slot[t].src \union {ref},
                     slot[t].args, slot[t].sha)
        BY <3>1, SlotUpdates
      <3>3. QED
        BY <1>4, <1>7, <2>1, <3>2 DEF Peeks
    <2>2. CASE slot[t].pc # "compile"
      BY <1>4, <1>7, <2>2 DEF Peeks
    <2>3. QED
      BY <2>1, <2>2
  <1>9. QED
    BY <1>1, <1>2, <1>3, <1>7, <1>8

LEMMA CheckoutFine ==
    ASSUME SlotsFine, ops \in Nat, ops' = ops, m' = m, NEW s \in Slots, CheckoutRef(s)
    PROVE  SlotsFine' /\ tree' \in Refs
  <1> DEFINE q == slot[s]
  <1>1. PICK ref \in Refs :
             /\ SlotFine(q) /\ q.pc = "checkout" /\ tree' = ref
             /\ slot' = [t \in Slots |-> slot'[t]]
             /\ slot'[s] = Slot(q, "sha", ref, q.id, q.src, q.args, q.sha)
             /\ \A t \in Slots \ {s} : Peeks(t, ref)
    BY CheckoutMoves
  <1>2. ASSUME NEW t \in Slots, SlotFine(slot[t]), NEW e, e = slot'[t]
        PROVE  SlotFine(e) /\ e.n = slot[t].n
    <2>1. CASE t = s
      <3>1. /\ IsSlot(e) /\ e.pc = "sha" /\ e.n = q.n /\ e.req = q.req /\ e.ref = ref /\ e.force = q.force
            /\ e.flags = q.flags /\ e.id = q.id /\ e.src = q.src /\ e.args = q.args /\ e.sha = q.sha
        BY <1>1, <1>2, <2>1, SlotFields
      <3>2. QED
        BY <1>1, <2>1, <3>1 DEF SlotFine, SlotIs, SlotPCs, Built
    <2>2. CASE t # s /\ slot[t].pc = "compile"
      <3> DEFINE p == slot[t]
      <3>1. e = Slot(p, p.pc, p.ref, p.id, p.src \union {ref}, p.args, p.sha)
        BY <1>1, <1>2, <2>2 DEF Peeks
      <3>2. SlotFine(p)
        BY <1>2
      <3> HIDE DEF p
      <3>3. /\ IsSlot(e) /\ e.pc = p.pc /\ e.n = p.n /\ e.req = p.req /\ e.ref = p.ref /\ e.force = p.force
            /\ e.flags = p.flags /\ e.id = p.id /\ e.src = p.src \union {ref} /\ e.args = p.args
            /\ e.sha = p.sha
        BY <3>1, SlotFields
      <3>4. QED
        BY <3>2, <3>3 DEF SlotFine, SlotIs, p
    <2>3. CASE t # s /\ slot[t].pc # "compile"
      BY <1>1, <1>2, <2>3 DEF Peeks
    <2>4. QED
      BY <2>1, <2>2, <2>3
  <1>3. \A t \in Slots : slot[t] = Idle => slot'[t] = Idle
    <2>1. \A t \in Slots : slot[t] = Idle => slot[t].pc = "idle"
      BY DEF Idle
    <2>2. QED
      BY <1>1, <2>1 DEF Peeks
  <1>4. \A t \in Slots : slot'[t] = Idle \/ SlotIs(slot'[t], m', ops')
    BY <1>2, <1>3, KeptFine DEF SlotsFine
  <1>5. \A t \in InPipeline' : t \in InPipeline /\ slot'[t].n = slot[t].n
    <2>1. SUFFICES ASSUME NEW t \in InPipeline' PROVE t \in InPipeline /\ slot'[t].n = slot[t].n
      OBVIOUS
    <2>2. t \in Slots /\ slot'[t].pc # "idle"
      BY <2>1 DEF InPipeline
    <2>3. SlotFine(slot[t])
      BY <1>3, <2>2 DEF SlotsFine, Idle
    <2>4. slot[t].pc # "idle"
      BY <2>3 DEF SlotFine, SlotIs, SlotPCs, Built
    <2>5. QED
      BY <1>2, <2>2, <2>3, <2>4 DEF InPipeline
  <1>6. QED
    BY <1>1, <1>4, <1>5 DEF SlotsFine, SlotFine, Idle

----------------------------------------------------------------------------
(* What the steps do to entries, files and binaries.                       *)
EntriesFine(bs) == \A i \in DOMAIN bs : IsEntry(bs[i])
BinsFine(bins) == \A i \in DOMAIN bins : IsBin(bins[i])

(* The result of a build for its id, and nothing else of the list.         *)
Finished(s, status) ==
    /\ DOMAIN builds' = DOMAIN builds /\ file' = builds'
    /\ \A i \in DOMAIN builds : builds'[i] = IF i = slot[s].id THEN Entry(s, status) ELSE builds[i]
    /\ cut' = cut \ {slot[s].id}

LEMMA EntryFine ==
    ASSUME NEW s \in Slots, NEW status \in Statuses
    PROVE  /\ IsEntry(Entry(s, status)) /\ Entry(s, status).status = status
           /\ Entry(s, status).own = TRUE
           /\ Entry(s, status).sha = slot[s].sha /\ Entry(s, status).flags = slot[s].flags
  BY DEF Entry, IsEntry

LEMMA FinishIs ==
    ASSUME NEW s \in Slots, NEW status \in Statuses, FinishBuild(s, status), EntriesFine(builds)
    PROVE  Finished(s, status) /\ EntriesFine(builds') /\ EntriesFine(file')
  <1>1. Finished(s, status)
    BY DEF FinishBuild, Save, Finished
  <1>2. QED
    BY <1>1, EntryFine, ZenonT(60) DEF Finished, EntriesFine

LEMMA LoadedFine ==
    ASSUME NEW bs
    PROVE  /\ DOMAIN Loaded(bs) = {i \in DOMAIN bs : bs[i].status # "building"}
           /\ \A i \in DOMAIN Loaded(bs) : Loaded(bs)[i] = bs[i]
  BY DEF Loaded

LEMMA ImportedFine ==
    ASSUME NEW bs, NEW e \in Externals
    PROVE  /\ DOMAIN Imported(bs, e) = DOMAIN bs \union {ExtId(e)}
           /\ Imported(bs, e)[ExtId(e)] = ExternalEntry
           /\ \A i \in DOMAIN bs \ {ExtId(e)} : Imported(bs, e)[i] = bs[i]
           /\ IsEntry(ExternalEntry) /\ ExternalEntry.status = "success" /\ ExternalEntry.own = FALSE
  BY DEF Imported, ExternalEntry, IsEntry, Statuses

LEMMA WithoutFine ==
    ASSUME NEW f, NEW k
    PROVE  DOMAIN Without(f, k) = DOMAIN f \ {k} /\ \A i \in DOMAIN f \ {k} : Without(f, k)[i] = f[i]
  BY DEF Without

(* A restart: what the file keeps, with an import at most.                 *)
LEMMA RestartIs ==
    ASSUME Restart
    PROVE  /\ file' = builds' /\ \A s \in Slots : slot'[s] = Idle
           /\ slot' = [s \in Slots |-> slot'[s]]
           /\ cut' = cut \union {slot[s].id : s \in InPipeline}
           /\ \A i \in DOMAIN file : file[i].status # "building" => i \in DOMAIN builds' /\ builds'[i] = file[i]
           /\ \A i \in DOMAIN builds' :
                 \/ i \in DOMAIN file /\ builds'[i] = file[i] /\ file[i].status # "building"
                 \/ i \notin DOMAIN file /\ builds'[i] = ExternalEntry /\ \E e \in Externals : i = ExtId(e)
  <1>1. /\ file' = builds' /\ (\A s \in Slots : slot'[s] = Idle) /\ slot' = [s \in Slots |-> slot'[s]]
        /\ cut' = cut \union {slot[s].id : s \in InPipeline}
    BY DEF Restart, Save
  <1>2. CASE builds' = Loaded(file)
    BY <1>1, <1>2, LoadedFine
  <1>3. ASSUME NEW e \in Externals, ExtId(e) \notin DOMAIN file, builds' = Imported(Loaded(file), e)
        PROVE  /\ \A i \in DOMAIN file : file[i].status # "building" => i \in DOMAIN builds' /\ builds'[i] = file[i]
               /\ \A i \in DOMAIN builds' :
                    \/ i \in DOMAIN file /\ builds'[i] = file[i] /\ file[i].status # "building"
                    \/ i \notin DOMAIN file /\ builds'[i] = ExternalEntry /\ \E x \in Externals : i = ExtId(x)
    <2>1. /\ DOMAIN Loaded(file) = {i \in DOMAIN file : file[i].status # "building"}
          /\ \A i \in DOMAIN Loaded(file) : Loaded(file)[i] = file[i]
      BY LoadedFine
    <2>2. /\ DOMAIN builds' = DOMAIN Loaded(file) \union {ExtId(e)}
          /\ builds'[ExtId(e)] = ExternalEntry
          /\ \A i \in DOMAIN Loaded(file) \ {ExtId(e)} : builds'[i] = Loaded(file)[i]
      BY <1>3, ImportedFine
    <2>3. QED
      BY <1>3, <2>1, <2>2
  <1>4. builds' = Loaded(file)
        \/ \E e \in Externals : ExtId(e) \notin DOMAIN file /\ builds' = Imported(Loaded(file), e)
    BY DEF Restart, Save
  <1>5. QED
    BY <1>1, <1>2, <1>3, <1>4

----------------------------------------------------------------------------
(* Everything stays what it is declared to be.                             *)
LEMMA InitShape == BuilderInit => Shape
  <1> SUFFICES ASSUME BuilderInit PROVE Shape
    OBVIOUS
  <1>1. SlotsFine
    BY DEF BuilderInit, SlotsFine, InPipeline, Idle
  <1>2. objs = [p \in Profiles |-> objs[p]] /\ \A p \in Profiles : IsBin(objs[p])
    BY DEF BuilderInit, IsBin, NoBin
  <1>3. ops \in 0 .. MaxOps /\ tree \in Refs
    BY OpsAssumption DEF BuilderInit
  <1>4. SetsFine
    BY DEF BuilderInit, SetsFine
  <1>5. QED
    BY <1>1, <1>2, <1>3, <1>4 DEF Shape, BuilderInit

BinsOf(o) == o = [p \in Profiles |-> o[p]] /\ \A p \in Profiles : IsBin(o[p])

LEMMA BinPut ==
    ASSUME BinsOf(objs), NEW p \in Profiles, NEW b, IsBin(b)
    PROVE  BinsOf([objs EXCEPT ![p] = b])
  BY DEF BinsOf

LEMMA NoBinFine == IsBin(NoBin)
  BY DEF IsBin, NoBin

LEMMA SetsKept == SetsFine /\ UNCHANGED <<sets, m>> => SetsFine'
  BY DEF SetsFine, Applied

(* The steps up to the registration change neither entries nor binaries.   *)
LEMMA HandlerShape ==
    ASSUME Shape, NEW s \in Slots,
           EnsureRepo(s) \/ CheckoutRef(s) \/ RevParse(s) \/ Name(s)
    PROVE  Shape'
  <1>a. \E pc : At(s, pc)
    BY DEF EnsureRepo, CheckoutRef, RevParse, Name
  <1>1. SlotsFine /\ ops \in Nat /\ ops' = ops /\ m' = m
    BY <1>a, OpsAssumption DEF Shape, At
  <1>2. SlotsFine' /\ tree' \in Refs
    <2>1. CASE EnsureRepo(s)
      <3>1. PICK q : q = slot[s]
        OBVIOUS
      <3>2. /\ SlotFine(q) /\ q.pc = "fetch"
            /\ Moves(s, Slot(q, "checkout", q.ref, q.id, q.src, q.args, q.sha)) \/ Moves(s, Idle)
        BY <1>1, <2>1, <3>1, EnsureRepoMoves
      <3>3. q.ref \in Refs \union {"latest"} /\ q.src \subseteq Refs
        BY <3>2 DEF SlotFine, SlotIs
      <3>4. ASSUME Moves(s, Slot(q, "checkout", q.ref, q.id, q.src, q.args, q.sha)) PROVE SlotsFine'
        <4>1. "checkout" \in SlotPCs /\ "checkout" \notin Built \union {"register"}
          BY DEF SlotPCs, Built
        <4>2. QED
          BY <1>1, <3>1, <3>2, <3>3, <3>4, <4>1, MoveFine
      <3>5. ASSUME Moves(s, Idle) PROVE SlotsFine'
        <4>1. ops' \in Nat /\ ops <= ops'
          BY <1>1
        <4>2. QED
          BY <1>1, <3>5, <4>1, IdleFine
      <3>6. tree' \in Refs
        BY <2>1 DEF EnsureRepo, bVars, diskVars, Shape
      <3>7. QED
        BY <3>2, <3>4, <3>5, <3>6
    <2>2. CASE CheckoutRef(s)
      BY <1>1, <2>2, CheckoutFine
    <2>3. CASE RevParse(s)
      <3>1. PICK q : q = slot[s]
        OBVIOUS
      <3>2. /\ SlotFine(q) /\ q.pc = "sha"
            /\ Moves(s, Slot(q, "name", q.ref, q.id, q.src, q.args, tree))
        BY <1>1, <2>3, <3>1, RevParseMoves
      <3>3. q.ref \in Refs /\ q.src \subseteq Refs /\ tree \in Refs
        BY <3>2 DEF SlotFine, SlotIs, Shape
      <3>4. SlotsFine'
        BY <1>1, <3>1, <3>2, <3>3, MoveFine DEF SlotPCs, Built
      <3>5. QED
        BY <2>3, <3>3, <3>4 DEF RevParse, bVars, diskVars
    <2>4. CASE Name(s)
      <3>1. PICK q : q = slot[s]
        OBVIOUS
      <3>2. SlotFine(q) /\ q.pc = "name"
        BY <1>1, <2>4, <3>1, NameMoves
      <3>3. PICK id : id.ref = q.ref /\ Moves(s, Slot(q, "register", q.ref, id, q.src, q.args, q.sha))
        BY <1>1, <2>4, <3>1, NameMoves
      <3>4. q.ref \in Refs /\ q.src \subseteq Refs /\ q.sha \in Refs
        BY <3>2 DEF SlotFine, SlotIs
      <3>5. SlotsFine'
        BY <1>1, <3>1, <3>2, <3>3, <3>4, MoveFine DEF SlotPCs, Built
      <3>6. QED
        BY <2>4, <3>5 DEF Name, bVars, diskVars, Shape
    <2>5. QED
      BY <2>1, <2>2, <2>3, <2>4
  <1>3. UNCHANGED <<builds, file, objs, out, asked, sets>>
    BY DEF EnsureRepo, CheckoutRef, RevParse, Name, bVars, diskVars, uiVars
  <1>4. SetsFine'
    BY <1>1, <1>3, SetsKept DEF Shape
  <1>5. QED
    BY <1>1, <1>2, <1>3, <1>4 DEF Shape

LEMMA RegisterShape ==
    ASSUME Shape, NEW s \in Slots, Register(s) \/ OpenStream(s)
    PROVE  Shape'
  <1>1. SlotsFine /\ ops \in Nat /\ ops' = ops /\ m' = m
    BY OpsAssumption DEF Shape, Register, OpenStream, At
  <1>2. PICK q : q = slot[s]
    OBVIOUS
  <1>3. /\ SlotFine(q) /\ q.pc \in {"register", "stream"}
        /\ \/ Moves(s, Slot(q, "stream", q.ref, q.id, q.src, q.args, q.sha))
           \/ Moves(s, Slot(q, "configure", q.ref, q.id, q.src, q.args, q.sha)) /\ q.pc = "stream"
           \/ Moves(s, Idle)
    BY <1>1, <1>2, RegisterMoves, OpenStreamMoves
  <1>4. q.ref \in Refs /\ q.src \subseteq Refs /\ q.sha \in Refs /\ q.id.ref \in Refs /\ IsRequest(q.req)
    <2>1. q.pc = "register" => q.id.ref \in Refs
      BY <1>3 DEF SlotFine, SlotIs
    <2>2. QED
      BY <1>3, <2>1 DEF SlotFine, SlotIs, Built
  <1>5. SlotsFine'
    <2>1. CASE Moves(s, Slot(q, "stream", q.ref, q.id, q.src, q.args, q.sha))
      BY <1>1, <1>2, <1>3, <1>4, <2>1, MoveFine DEF SlotPCs, Built
    <2>2. CASE Moves(s, Slot(q, "configure", q.ref, q.id, q.src, q.args, q.sha))
      BY <1>1, <1>2, <1>3, <1>4, <2>2, MoveFine DEF SlotPCs, Built
    <2>3. CASE Moves(s, Idle)
      BY <1>1, <2>3, IdleFine
    <2>4. QED
      BY <1>3, <2>1, <2>2, <2>3
  <1>6. UNCHANGED <<file, tree, objs, sets>>
    BY DEF Register, OpenStream, bVars, diskVars, uiVars
  <1>7. EntriesFine(builds')
    <2>1. CASE builds' = builds
      BY <2>1 DEF Shape, EntriesFine
    <2>2. CASE builds' = [i \in DOMAIN builds \union {slot[s].id} |->
                            IF i = slot[s].id THEN Entry(s, "building") ELSE builds[i]]
      BY <2>2, EntryFine DEF Shape, EntriesFine, Statuses
    <2>3. QED
      BY <2>1, <2>2 DEF Register, OpenStream, bVars
  <1>8. BinsFine(out')
    <2>1. out' = out \/ out' = Without(out, slot[s].id)
      BY DEF Register, OpenStream, bVars, diskVars, Replace
    <2>2. BinsFine(out)
      BY DEF Shape, BinsFine
    <2>3. /\ DOMAIN Without(out, slot[s].id) = DOMAIN out \ {slot[s].id}
          /\ \A i \in DOMAIN out \ {slot[s].id} : Without(out, slot[s].id)[i] = out[i]
      BY WithoutFine
    <2>4. QED
      BY <2>1, <2>2, <2>3 DEF BinsFine
  <1>9. \A a \in asked' : IsRequest(a.r)
    BY <1>2, <1>4 DEF Register, OpenStream, uiVars, Shape
  <1>10. SetsFine'
    BY <1>1, <1>6, SetsKept DEF Shape
  <1>11. (\A i \in DOMAIN builds : IsEntry(builds[i]))' /\ (\A i \in DOMAIN out : IsBin(out[i]))'
    BY <1>7, <1>8 DEF EntriesFine, BinsFine
  <1>12. QED
    BY <1>1, <1>5, <1>6, <1>9, <1>10, <1>11 DEF Shape

(* The goroutine.                                                          *)
LEMMA GoroutineSlots ==
    ASSUME Shape, NEW s \in Slots,
           RunCMake(s) \/ RunNinja(s) \/ Install(s) \/ Succeed(s) \/ Close(s)
    PROVE  SlotsFine'
  <1>a. \E pc : At(s, pc)
    BY Zenon DEF RunCMake, RunNinja, Install, Succeed, Close
  <1>1. SlotsFine /\ ops \in Nat /\ ops' = ops /\ m' = m /\ tree \in Refs
    BY <1>a, OpsAssumption DEF Shape, At
  <1>2. PICK q : q = slot[s]
    OBVIOUS
  <1> DEFINE On(pc) == Moves(s, Slot(q, pc, q.ref, q.id, q.src, q.args, q.sha))
             args == Configure(m, q.req.prof, q.flags).args
  <1>3. /\ SlotFine(q) /\ q.pc \in {"configure", "compile", "install", "finish", "close"}
        /\ \/ Moves(s, Slot(q, "compile", q.ref, q.id, {tree}, args, q.sha))
           \/ On("install") /\ q.pc = "compile"
           \/ On("finish") /\ q.pc = "install"
           \/ On("close")
           \/ Moves(s, Idle)
    <2> HIDE DEF args
    <2>1. CASE RunCMake(s)
      BY <1>1, <1>2, <2>1, RunCMakeMoves DEF args
    <2>2. CASE RunNinja(s) \/ Install(s) \/ Succeed(s) \/ Close(s)
      BY <1>1, <1>2, <2>2, LaterMoves
    <2>3. QED
      BY <2>1, <2>2
  <1>4. /\ q.ref \in Refs /\ q.src \subseteq Refs /\ q.sha \in Refs /\ q.id.ref \in Refs
        /\ q.pc \in {"compile", "install", "finish"} => q.args = args
    BY <1>3 DEF SlotFine, SlotIs, Built
  <1>5. /\ {"compile", "install", "finish", "close"} \subseteq SlotPCs
        /\ "close" \notin {"compile", "install", "finish"}
    BY DEF SlotPCs, Built
  <1>6. CASE Moves(s, Slot(q, "compile", q.ref, q.id, {tree}, args, q.sha))
    <2>1. PICK src, a : src = {tree} /\ a = args
      OBVIOUS
    <2>2. Moves(s, Slot(q, "compile", q.ref, q.id, src, a, q.sha))
      BY <1>6, <2>1
    <2>3. /\ src \subseteq Refs /\ q.ref \in Refs \union {"latest"} /\ SlotFine(q)
          /\ "compile" \in SlotPCs /\ a = Configure(m, q.req.prof, q.flags).args
      BY <1>1, <1>3, <1>4, <1>5, <2>1
    <2>4. /\ q.ref \in Refs /\ q.sha \in Refs /\ q.id.ref \in Refs
          /\ SlotsFine /\ ops \in Nat /\ ops' = ops /\ m' = m /\ q = slot[s]
      BY <1>1, <1>2, <1>4
    <2> HIDE DEF args
    <2>5. QED
      BY <2>2, <2>3, <2>4, MoveFine, ZenonT(60)
  <1>e. ASSUME NEW pc \in {"install", "finish", "close"}, On(pc),
               pc # "close" => q.args = Configure(m, q.req.prof, q.flags).args
        PROVE  SlotsFine'
    <2>1. Moves(s, Slot(q, pc, q.ref, q.id, q.src, q.args, q.sha))
      BY <1>e
    <2>2. pc \in SlotPCs /\ (pc \in {"compile", "install", "finish"} => q.args = Configure(m, q.req.prof, q.flags).args)
      BY <1>5, <1>e
    <2>3. /\ q.src \subseteq Refs /\ q.ref \in Refs \union {"latest"} /\ SlotFine(q)
          /\ q.ref \in Refs /\ q.sha \in Refs /\ q.id.ref \in Refs
      BY <1>3, <1>4
    <2>4. SlotsFine /\ ops \in Nat /\ ops' = ops /\ m' = m /\ q = slot[s]
      BY <1>1, <1>2
    <2> HIDE DEF On, args
    <2>5. QED
      BY <2>1, <2>2, <2>3, <2>4, MoveFine, ZenonT(60)
  <1>7. CASE On("install") /\ q.pc = "compile"
    <2>1. q.args = Configure(m, q.req.prof, q.flags).args /\ "install" \in {"install", "finish", "close"}
      BY <1>4, <1>7
    <2> HIDE DEF On
    <2>2. QED
      BY <1>7, <1>e, <2>1
  <1>8. CASE On("finish") /\ q.pc = "install"
    <2>1. q.args = Configure(m, q.req.prof, q.flags).args /\ "finish" \in {"install", "finish", "close"}
      BY <1>4, <1>8
    <2> HIDE DEF On
    <2>2. QED
      BY <1>8, <1>e, <2>1
  <1>9. CASE On("close")
    <2>1. "close" \in {"install", "finish", "close"}
      OBVIOUS
    <2> HIDE DEF On
    <2>2. QED
      BY <1>9, <1>e, <2>1
  <1>10. CASE Moves(s, Idle)
    <2>1. ops' \in Nat /\ ops <= ops'
      BY <1>1
    <2>2. QED
      BY <1>1, <1>10, <2>1, IdleFine
  <1>11. QED
    BY <1>3, <1>6, <1>7, <1>8, <1>9, <1>10

LEMMA GoroutineShape ==
    ASSUME Shape, NEW s \in Slots,
           RunCMake(s) \/ RunNinja(s) \/ Install(s) \/ Succeed(s) \/ Close(s)
    PROVE  Shape'
  <1>a. \E pc : At(s, pc)
    BY DEF RunCMake, RunNinja, Install, Succeed, Close
  <1>1. ops' = ops /\ m' = m
    BY <1>a DEF At
  <1>2. SlotFine(slot[s])
    <2>1. \E pc \in SlotPCs : At(s, pc)
      BY Zenon DEF RunCMake, RunNinja, Install, Succeed, Close, SlotPCs, Built
    <2>2. QED
      BY <2>1, StepSlot DEF Shape
  <1> DEFINE prof == slot[s].req.prof
  <1>3. prof \in Profiles /\ slot[s].src \subseteq Refs
    BY <1>2 DEF SlotFine, SlotIs
  <1>4. UNCHANGED <<tree, asked, sets>>
    BY Zenon DEF RunCMake, RunNinja, Install, Succeed, Close, uiVars, bVars, diskVars
  <1>5. EntriesFine(builds') /\ EntriesFine(file')
    <2>1. UNCHANGED <<builds, file>> \/ \E status \in Statuses : FinishBuild(s, status)
      BY Zenon DEF RunCMake, RunNinja, Install, Succeed, Close, Fail, Statuses, bVars, diskVars
    <2>2. EntriesFine(builds) /\ EntriesFine(file)
      BY DEF Shape, EntriesFine
    <2>3. QED
      BY <2>1, <2>2, FinishIs
  <1>6. BinsOf(objs')
    <2>1. BinsOf(objs) /\ IsBin(objs[prof])
      BY <1>3 DEF Shape, BinsOf
    <2>2. CASE RunCMake(s)
      <3>1. \E b : objs' = [objs EXCEPT ![prof] = b] /\ IsBin(b)
        BY <2>2, NoBinFine DEF RunCMake, IsBin
      <3>2. QED
        BY <1>3, <2>1, <3>1, BinPut
    <2>3. CASE RunNinja(s)
      <3>1. CASE objs' = objs
        BY <2>1, <3>1
      <3>2. CASE objs' = [objs EXCEPT ![prof].src = slot[s].src]
        <4> DEFINE b == [objs[prof] EXCEPT !.src = slot[s].src]
        <4>1. b = [src |-> slot[s].src, flags |-> objs[prof].flags]
          BY <2>1 DEF IsBin
        <4>2. IsBin(b)
          BY <1>3, <4>1 DEF IsBin
        <4>3. objs' = [objs EXCEPT ![prof] = b]
          BY <3>2
        <4> HIDE DEF b
        <4>4. QED
          BY <1>3, <2>1, <4>2, <4>3, BinPut
      <3>3. QED
        BY <2>3, <3>1, <3>2 DEF RunNinja
    <2>4. CASE Install(s)
      <3>1. objs' = objs \/ objs' = [objs EXCEPT ![prof] = NoBin]
        BY <2>4, Zenon DEF Install
      <3>2. QED
        BY <1>3, <2>1, <3>1, BinPut, NoBinFine
    <2>5. CASE Succeed(s) \/ Close(s)
      BY <2>1, <2>5 DEF Succeed, Close, bVars, diskVars
    <2>6. QED
      BY <2>2, <2>3, <2>4, <2>5
  <1>7. BinsFine(out')
    <2>1. BinsFine(out) /\ IsBin(objs[prof])
      BY <1>3 DEF Shape, BinsFine
    <2>2. \/ out' = out
          \/ out' = [i \in DOMAIN out \union {slot[s].id} |-> IF i = slot[s].id THEN objs[prof] ELSE out[i]]
      BY Zenon DEF RunCMake, RunNinja, Install, Succeed, Close, bVars, diskVars
    <2>3. QED
      BY <2>1, <2>2 DEF BinsFine
  <1>8. SetsFine'
    BY <1>1, <1>4, SetsKept DEF Shape
  <1>9. /\ (\A i \in DOMAIN builds : IsEntry(builds[i]))' /\ (\A i \in DOMAIN file : IsEntry(file[i]))'
        /\ (\A i \in DOMAIN out : IsBin(out[i]))'
    BY <1>5, <1>7 DEF EntriesFine, BinsFine
  <1>10. (objs = [p \in Profiles |-> objs[p]] /\ \A p \in Profiles : IsBin(objs[p]))'
    BY <1>6 DEF BinsOf
  <1>11. SlotsFine'
    BY GoroutineSlots
  <1>12. QED
    BY <1>1, <1>4, <1>8, <1>9, <1>10, <1>11 DEF Shape

(* A request that comes in, whatever sent it.                              *)
Enters(s, r, force, want) ==
    /\ IsRequest(r) /\ Enter(s, r, force, want)
    /\ force => {"force", "rebuild"} \cap sc # {}
    /\ force = TRUE \/ force = FALSE
    /\ UNCHANGED <<sc, m, bVars, stream, page, sets, cut>> /\ ops' = ops + 1 /\ ops' \in 0 .. MaxOps
    /\ asked' \subseteq asked

LEMMA DoesOne ==
    ASSUME ops \in 0 .. MaxOps, NEW what, Does(what)
    PROVE  what \in sc /\ UNCHANGED <<sc, m>> /\ ops' = ops + 1 /\ ops' \in 0 .. MaxOps
                       /\ ops \in Nat /\ ops' \in Nat /\ ops <= ops'
  BY OpsAssumption DEF Does

LEMMA TriggerEnters ==
    ASSUME Shape, NEW s \in Slots, NEW r \in Requests, Trigger(s, r) \/ TriggerForce(s, r)
    PROVE  \E force, want : Enters(s, r, force, want)
  <1>1. IsRequest(r)
    BY RefsAssumption DEF IsRequest
  <1>2. ops \in 0 .. MaxOps
    BY DEF Shape
  <1>3. CASE Trigger(s, r)
    <2>1. Does("build")
      BY <1>3 DEF Trigger
    <2>2. Enters(s, r, FALSE, NoId)
      BY <1>1, <1>2, <1>3, <2>1, DoesOne DEF Trigger, Enters, uiVars
    <2>3. QED
      BY <2>2
  <1>4. CASE TriggerForce(s, r)
    <2>1. Does("force")
      BY <1>4 DEF TriggerForce
    <2>2. Enters(s, r, TRUE, NoId)
      BY <1>1, <1>2, <1>4, <2>1, DoesOne DEF TriggerForce, Enters, uiVars
    <2>3. QED
      BY <2>2
  <1>5. QED
    BY <1>3, <1>4

LEMMA RebuildEnters ==
    ASSUME Shape, NEW s \in Slots, Rebuild(s)
    PROVE  \E r, force, want : Enters(s, r, force, want)
  <1>1. ops \in 0 .. MaxOps /\ Does("rebuild")
    BY DEF Shape, Rebuild
  <1>2. PICK q \in asked :
             Enter(s, [q.r EXCEPT !.toggles = Unchecked(q.r.prof), !.extra = NoFlags], TRUE, q.id)
    BY DEF Rebuild
  <1> DEFINE p == q.r
             unchecked == Unchecked(p.prof)
             r == [p EXCEPT !.toggles = unchecked, !.extra = NoFlags]
  <1>3. p = [prof |-> p.prof, ref |-> p.ref, tag |-> p.tag, toggles |-> p.toggles, extra |-> p.extra]
        /\ p.ref \in Refs \union {"latest"}
    BY DEF Shape, IsRequest
  <1>4. Enter(s, r, TRUE, q.id)
    BY <1>2
  <1> HIDE DEF p, unchecked
  <1>5. r = [prof |-> p.prof, ref |-> p.ref, tag |-> p.tag, toggles |-> unchecked, extra |-> NoFlags]
    <2> DEFINE r1 == [p EXCEPT !.toggles = unchecked]
    <2>1. r1 = [prof |-> p.prof, ref |-> p.ref, tag |-> p.tag, toggles |-> unchecked, extra |-> p.extra]
      <3> DEFINE Old == [prof : {p.prof}, ref : {p.ref}, tag : {p.tag}, toggles : {p.toggles, unchecked}, extra : {p.extra}]
      <3>1. p \in Old
        BY <1>3
      <3>2. QED
        BY <3>1
    <2> HIDE DEF r1
    <2>2. [r1 EXCEPT !.extra = NoFlags]
             = [prof |-> p.prof, ref |-> p.ref, tag |-> p.tag, toggles |-> unchecked, extra |-> NoFlags]
      BY <2>1
    <2>3. r = [r1 EXCEPT !.extra = NoFlags]
      BY DEF r1
    <2>4. QED
      BY <2>2, <2>3
  <1> HIDE DEF r
  <1>6. IsRequest(r)
    BY <1>3, <1>5 DEF IsRequest
  <1>7. Enters(s, r, TRUE, q.id)
    BY <1>1, <1>4, <1>6, DoesOne DEF Rebuild, Enters
  <1>8. QED
    BY <1>7

LEMMA FromSetEnters ==
    ASSUME Shape, NEW s \in Slots, NEW n \in Names, NEW ref \in Refs, BuildFromSet(s, n, ref)
    PROVE  \E r, force, want : Enters(s, r, force, want)
  <1> DEFINE r == [prof |-> sets[n].prof, ref |-> ref, tag |-> n, toggles |-> Applied(sets[n]), extra |-> sets[n].extra]
  <1>1. ops \in 0 .. MaxOps /\ Does("sets") /\ Enter(s, r, FALSE, NoId)
    BY DEF Shape, BuildFromSet
  <1>2. IsRequest(r)
    BY DEF IsRequest
  <1> HIDE DEF r
  <1>3. Enters(s, r, FALSE, NoId)
    BY <1>1, <1>2, DoesOne DEF BuildFromSet, Enters, uiVars
  <1>4. QED
    BY <1>3

LEMMA EnterShape ==
    ASSUME Shape, NEW s \in Slots, NEW r, NEW force, NEW want, Enters(s, r, force, want)
    PROVE  Shape'
  <1>1. /\ SlotsFine /\ ops \in Nat /\ ops' = ops + 1 /\ m' = m /\ ops' \in 0 .. MaxOps
        /\ IsRequest(r) /\ Enter(s, r, force, want)
    BY OpsAssumption DEF Shape, Enters
  <1>2. SlotsFine'
    BY <1>1, EnterFine
  <1>3. UNCHANGED <<builds, file, tree, objs, out, sets>> /\ asked' \subseteq asked
    BY DEF Enters, bVars, diskVars
  <1>4. SetsFine'
    BY <1>1, <1>3, SetsKept DEF Shape
  <1>5. QED
    BY <1>1, <1>2, <1>3, <1>4 DEF Shape

LEMMA SlotsStay ==
    ASSUME SlotsFine, ops \in Nat, ops' \in Nat, ops <= ops', m' = m, slot' = slot
    PROVE  SlotsFine'
  <1>1. \A t \in Slots : slot'[t] = Idle \/ SlotIs(slot'[t], m', ops')
    BY KeptFine DEF SlotsFine
  <1>2. QED
    BY <1>1 DEF SlotsFine, SlotFine, InPipeline, Idle

LEMMA DeleteShape ==
    ASSUME Shape, NEW id \in DOMAIN builds, Delete(id)
    PROVE  Shape'
  <1>1. ops \in 0 .. MaxOps /\ Does("delete")
    BY DEF Shape, Delete
  <1>2. /\ UNCHANGED <<sc, m>> /\ ops' = ops + 1 /\ ops' \in 0 .. MaxOps
        /\ ops \in Nat /\ ops' \in Nat /\ ops <= ops'
    BY <1>1, DoesOne
  <1>3. UNCHANGED <<tree, objs, slot, asked, sets>> /\ builds' = Without(builds, id) /\ file' = builds'
        /\ out' = Without(out, id)
    BY DEF Delete, Save, uiVars
  <1>4. SlotsFine'
    BY <1>2, <1>3, SlotsStay DEF Shape
  <1>5. SetsFine'
    BY <1>2, <1>3, SetsKept DEF Shape
  <1>6. /\ (\A i \in DOMAIN builds : IsEntry(builds[i]))' /\ (\A i \in DOMAIN file : IsEntry(file[i]))'
        /\ (\A i \in DOMAIN out : IsBin(out[i]))'
    <2>1. /\ \A i \in DOMAIN builds' : i \in DOMAIN builds /\ builds'[i] = builds[i]
          /\ \A i \in DOMAIN out' : i \in DOMAIN out /\ out'[i] = out[i]
      BY <1>3, WithoutFine, ZenonT(60)
    <2>2. /\ \A i \in DOMAIN builds' : IsEntry(builds'[i])
          /\ \A i \in DOMAIN out' : IsBin(out'[i])
      BY <2>1 DEF Shape
    <2>3. QED
      BY <1>3, <2>2
  <1>7. QED
    BY <1>2, <1>3, <1>4, <1>5, <1>6 DEF Shape

LEMMA RegisterExternalShape ==
    ASSUME Shape, NEW e \in Externals, NEW replace \in BOOLEAN, RegisterExternalBuild(e, replace)
    PROVE  Shape'
  <1>1. ops \in 0 .. MaxOps /\ Does("import")
    BY DEF Shape, RegisterExternalBuild
  <1>2. /\ UNCHANGED <<sc, m>> /\ ops' = ops + 1 /\ ops' \in 0 .. MaxOps
        /\ ops \in Nat /\ ops' \in Nat /\ ops <= ops'
    BY <1>1, DoesOne
  <1>3. UNCHANGED <<tree, objs, out, slot, asked, sets>> /\ builds' = Imported(builds, e) /\ file' = builds'
    BY DEF RegisterExternalBuild, Save, uiVars
  <1>4. SlotsFine'
    BY <1>2, <1>3, SlotsStay DEF Shape
  <1>5. SetsFine'
    BY <1>2, <1>3, SetsKept DEF Shape
  <1>6. (\A i \in DOMAIN builds : IsEntry(builds[i]))' /\ (\A i \in DOMAIN file : IsEntry(file[i]))'
    <2>1. \A i \in DOMAIN builds' : builds'[i] = ExternalEntry \/ (i \in DOMAIN builds /\ builds'[i] = builds[i])
      <3>1. /\ DOMAIN builds' = DOMAIN builds \union {ExtId(e)}
            /\ builds'[ExtId(e)] = ExternalEntry
            /\ \A i \in DOMAIN builds \ {ExtId(e)} : builds'[i] = builds[i]
        BY <1>3, ImportedFine
      <3>2. QED
        BY <3>1
    <2>2. IsEntry(ExternalEntry)
      BY ImportedFine
    <2>3. \A i \in DOMAIN builds' : IsEntry(builds'[i])
      BY <2>1, <2>2 DEF Shape
    <2>4. QED
      BY <1>3, <2>3
  <1>7. QED
    BY <1>2, <1>3, <1>4, <1>5, <1>6 DEF Shape

LEMMA RestartShape ==
    ASSUME Shape, Restart
    PROVE  Shape'
  <1>1. ops \in 0 .. MaxOps /\ Does("crash")
    BY DEF Shape, Restart
  <1>2. /\ UNCHANGED <<sc, m>> /\ ops' = ops + 1 /\ ops' \in 0 .. MaxOps
    BY <1>1, DoesOne
  <1>3. UNCHANGED <<tree, objs, out, sets>> /\ asked' = {}
    BY DEF Restart
  <1>4. SlotsFine'
    BY RestartIs DEF SlotsFine, InPipeline, Idle
  <1>5. SetsFine'
    BY <1>2, <1>3, SetsKept DEF Shape
  <1>6. IsEntry(ExternalEntry)
    BY DEF ExternalEntry, IsEntry, Statuses
  <1>7. (\A i \in DOMAIN builds : IsEntry(builds[i]))'
    <2>1. \A i \in DOMAIN builds' :
             \/ i \in DOMAIN file /\ builds'[i] = file[i]
             \/ builds'[i] = ExternalEntry
      BY RestartIs
    <2>2. \A i \in DOMAIN builds' : IsEntry(builds'[i])
      BY <1>6, <2>1 DEF Shape
    <2>3. QED
      BY <2>2
  <1>8. (\A i \in DOMAIN file : IsEntry(file[i]))'
    BY <1>7, RestartIs
  <1>9. QED
    BY <1>2, <1>3, <1>4, <1>5, <1>7, <1>8 DEF Shape

(* The log pages and the saved sets.                                       *)
LEMMA PageShape ==
    ASSUME Shape, NEW p \in Pages,
           UnsubscribeLogs(p) \/ \E id \in DOMAIN builds : SubscribeLogs(p, id)
    PROVE  Shape'
  <1>1. ops \in 0 .. MaxOps /\ ops \in Nat
    BY OpsAssumption DEF Shape
  <1>2. UNCHANGED <<sc, m>> /\ ops' \in 0 .. MaxOps /\ ops' \in Nat /\ ops <= ops'
    <2>1. CASE UnsubscribeLogs(p)
      BY <1>1, <2>1 DEF UnsubscribeLogs
    <2>2. CASE \E id \in DOMAIN builds : SubscribeLogs(p, id)
      <3>1. Does("watch")
        BY <2>2 DEF SubscribeLogs
      <3>2. QED
        BY <1>1, <3>1, DoesOne
    <2>3. QED
      BY <2>1, <2>2
  <1>3. UNCHANGED <<builds, file, tree, objs, out, slot, asked, sets>>
    BY DEF UnsubscribeLogs, SubscribeLogs, bVars, diskVars
  <1>4. SlotsFine'
    BY <1>1, <1>2, <1>3, SlotsStay DEF Shape
  <1>5. SetsFine'
    BY <1>2, <1>3, SetsKept DEF Shape
  <1>6. QED
    BY <1>2, <1>3, <1>4, <1>5 DEF Shape

LEMMA SetsShape ==
    ASSUME Shape, NEW n \in Names,
           DeleteFlagPreset(n) \/ \E r \in Requests : SaveFlagPreset(n, r)
    PROVE  Shape'
  <1>1. ops \in 0 .. MaxOps /\ Does("sets")
    BY DEF Shape, DeleteFlagPreset, SaveFlagPreset
  <1>2. /\ UNCHANGED <<sc, m>> /\ ops' = ops + 1 /\ ops' \in 0 .. MaxOps
        /\ ops \in Nat /\ ops' \in Nat /\ ops <= ops'
    BY <1>1, DoesOne
  <1>3. UNCHANGED <<builds, file, tree, objs, out, slot, asked>>
    BY DEF DeleteFlagPreset, SaveFlagPreset, bVars, diskVars
  <1>4. SlotsFine'
    BY <1>2, <1>3, SlotsStay DEF Shape
  <1>5. SetsFine'
    <2>1. CASE DeleteFlagPreset(n)
      <3>1. sets' = Without(sets, n)
        BY <2>1 DEF DeleteFlagPreset
      <3>2. \A k \in DOMAIN sets' : k \in DOMAIN sets /\ sets'[k] = sets[k]
        BY <3>1, WithoutFine, ZenonT(60)
      <3>3. QED
        BY <1>2, <3>2 DEF Shape, SetsFine, Applied
    <2>2. ASSUME NEW r \in Requests, SaveFlagPreset(n, r) PROVE SetsFine'
      <3> DEFINE options == [o \in DOMAIN Options(m, r.prof) |-> Has(r.toggles, o) /\ r.toggles[o]]
                 set == [ prof |-> r.prof, options |-> options, extra |-> r.extra,
                          was |-> Effective(m, r.prof, options, r.extra) ]
      <3>1. sets' = [k \in DOMAIN sets \union {n} |-> IF k = n THEN set ELSE sets[k]]
        BY <2>2 DEF SaveFlagPreset
      <3>2. set.options = options /\ set.prof = r.prof /\ set.extra = r.extra
            /\ set.was = Effective(m, r.prof, options, r.extra)
        OBVIOUS
      <3> HIDE DEF set
      <3>3. Applied(set) = set.options
        BY <3>2, AppliedIsSaved
      <3>4. \A k \in DOMAIN sets' : sets'[k] = set \/ (k \in DOMAIN sets /\ sets'[k] = sets[k])
        BY <3>1
      <3> DEFINE Replays(x) == /\ Applied(x) = x.options
                               /\ x.was = Effective(m, x.prof, x.options, x.extra)
      <3>5. Replays(set)
        BY <3>2, <3>3
      <3>6. \A k \in DOMAIN sets : Replays(sets[k])
        BY DEF Shape, SetsFine
      <3>7. \A k \in DOMAIN sets' : Replays(sets'[k])
        <4> HIDE DEF Replays
        <4>1. QED
          BY <3>4, <3>5, <3>6
      <3>8. QED
        BY <1>2, <3>7 DEF SetsFine, Applied
    <2>3. QED
      BY <2>1, <2>2
  <1>6. QED
    BY <1>2, <1>3, <1>4, <1>5 DEF Shape

LEMMA NextShape == Shape /\ [BuilderNext]_builderVars => Shape'
  <1> SUFFICES ASSUME Shape, [BuilderNext]_builderVars PROVE Shape'
    OBVIOUS
  <1>1. CASE \E s \in Slots : Work(s)
    BY <1>1, HandlerShape, RegisterShape, GoroutineShape DEF Work
  <1>2. CASE \E s \in Slots : \/ Rebuild(s)
                              \/ \E r \in Requests : Trigger(s, r) \/ TriggerForce(s, r)
                              \/ \E n \in Names, ref \in Refs : BuildFromSet(s, n, ref)
    <2>1. \E s \in Slots : \E r, force, want : Enters(s, r, force, want)
      BY <1>2, RebuildEnters, TriggerEnters, FromSetEnters
    <2>2. QED
      BY <2>1, EnterShape
  <1>3. CASE \/ \E id \in DOMAIN builds : Delete(id)
             \/ \E e \in Externals, replace \in BOOLEAN : RegisterExternalBuild(e, replace)
             \/ Restart
    BY <1>3, DeleteShape, RegisterExternalShape, RestartShape
  <1>4. CASE \E p \in Pages : UnsubscribeLogs(p) \/ \E id \in DOMAIN builds : SubscribeLogs(p, id)
    BY <1>4, PageShape
  <1>5. CASE \E n \in Names : DeleteFlagPreset(n) \/ \E r \in Requests : SaveFlagPreset(n, r)
    BY <1>5, SetsShape
  <1>6. CASE UNCHANGED builderVars
    <2>1. UNCHANGED <<ops, m, builds, file, tree, objs, out, slot, asked, sets>>
      BY <1>6 DEF builderVars, bVars, diskVars, uiVars
    <2>2. ops \in Nat /\ ops <= ops /\ SlotsFine /\ SetsFine
      BY OpsAssumption DEF Shape
    <2>3. SlotsFine' /\ SetsFine'
      BY <2>1, <2>2, SlotsStay, SetsKept
    <2>4. QED
      BY <2>1, <2>3 DEF Shape
  <1>7. QED
    BY <1>1, <1>2, <1>3, <1>4, <1>5, <1>6 DEF BuilderNext

(* The builds, their logs, the repository and the requests in flight are   *)
(* well typed, and a request's entry in the list is its own: Shape.        *)
THEOREM BuildsTyped == BuilderSpec => []Shape
  BY InitShape, NextShape, PTL DEF BuilderSpec

(* A flag the user gave is in what cmake was given; a saved set gives what *)
(* it gave.                                                                *)
LEMMA FlagsFollow == Shape => FlagsAreTheUsers
  <1> SUFFICES ASSUME Shape PROVE FlagsAreTheUsers
    OBVIOUS
  <1>1. ASSUME NEW s \in Slots, slot[s].pc \in {"compile", "install", "finish"},
               NEW f \in DOMAIN slot[s].req.extra
        PROVE  Has(slot[s].args, f) /\ slot[s].args[f] = slot[s].req.extra[f]
    <2> DEFINE q == slot[s]
               args == Configure(m, q.req.prof, q.flags).args
    <2>1. SlotFine(q)
      BY <1>1 DEF Shape, SlotsFine, Idle
    <2>2. q.flags = Effective(m, q.req.prof, q.req.toggles, q.req.extra) /\ q.args = args
      BY <1>1, <2>1 DEF SlotFine, SlotIs
    <2>3. Includes(args, q.flags)
      BY ConfigureIncludes
    <2>4. Includes(q.flags, q.req.extra)
      BY <2>2, EffectiveIncludes
    <2> HIDE DEF args, q
    <2>5. Includes(q.args, q.req.extra)
      BY <2>2, <2>3, <2>4, IncludesAll
    <2>6. QED
      BY <1>1, <2>5 DEF Includes, Has, q
  <1>2. UserFlagWins
    BY <1>1 DEF UserFlagWins
  <1>3. SavedSetReplays
    BY DEF SavedSetReplays, Shape, SetsFine
  <1>4. QED
    BY <1>2, <1>3 DEF FlagsAreTheUsers

(* A build is configured with the flags its user gave, and a saved set of  *)
(* them gives the same later: FlagsAreTheUsers (internal/builder/builder.go*)
(* effectiveFlags, the profiles' configure).                               *)
THEOREM FlagsKept == BuilderSpec => []FlagsAreTheUsers
  BY BuildsTyped, FlagsFollow, PTL

----------------------------------------------------------------------------
(* A step, for what the other invariants read of the slots.                *)
Alike(t) ==
    /\ slot'[t].pc = slot[t].pc
    /\ slot[t].pc # "idle" =>
         /\ slot'[t].n = slot[t].n /\ slot'[t].req = slot[t].req /\ slot'[t].force = slot[t].force
         /\ slot'[t].flags = slot[t].flags /\ slot'[t].id = slot[t].id /\ slot'[t].sha = slot[t].sha

Goes(s, from, to) ==
    /\ slot[s].pc = from /\ from # "idle" /\ slot'[s].pc = to /\ to # "idle"
    /\ slot'[s].n = slot[s].n /\ slot'[s].req = slot[s].req /\ slot'[s].force = slot[s].force
    /\ slot'[s].flags = slot[s].flags
    /\ from # "name" => slot'[s].id = slot[s].id
    /\ from # "sha" => slot'[s].sha = slot[s].sha
    /\ \A t \in Slots \ {s} : Alike(t)
Gone(s, from) ==
    /\ slot[s].pc = from /\ from # "idle" /\ slot'[s].pc = "idle"
    /\ \A t \in Slots \ {s} : Alike(t)

LEMMA MovesGoes ==
    ASSUME NEW s \in Slots, NEW q, q = slot[s], NEW from, q.pc = from, from # "idle",
           NEW to, to # "idle", NEW ref, NEW id, NEW src, NEW args, NEW sha,
           Moves(s, Slot(q, to, ref, id, src, args, sha)),
           from = "name" \/ id = q.id, from = "sha" \/ sha = q.sha
    PROVE  Goes(s, from, to)
  <1>1. PICK e : e = Slot(q, to, ref, id, src, args, sha)
    OBVIOUS
  <1>2. /\ IsSlot(e) /\ e.pc = to /\ e.n = q.n /\ e.req = q.req /\ e.ref = ref /\ e.force = q.force
        /\ e.flags = q.flags /\ e.id = id /\ e.src = src /\ e.args = args /\ e.sha = sha
    BY <1>1, SlotFields
  <1>3. slot'[s] = e /\ \A t \in Slots \ {s} : slot'[t] = slot[t]
    BY <1>1 DEF Moves
  <1>4. QED
    BY <1>2, <1>3 DEF Goes, Alike

LEMMA MovesSets ==
    ASSUME NEW s \in Slots, NEW q, NEW to, NEW ref, NEW id, NEW src, NEW args, NEW sha,
           Moves(s, Slot(q, to, ref, id, src, args, sha))
    PROVE  slot'[s].src = src /\ slot'[s].sha = sha
  BY DEF Moves, Slot

LEMMA MovesOn ==
    ASSUME NEW s \in Slots, NEW q, q = slot[s], NEW from, q.pc = from, from # "idle",
           NEW to, to # "idle", Moves(s, Slot(q, to, q.ref, q.id, q.src, q.args, q.sha))
    PROVE  Goes(s, from, to) /\ slot'[s].src = q.src
  <1>1. PICK ref, id, src, args, sha : ref = q.ref /\ id = q.id /\ src = q.src /\ args = q.args /\ sha = q.sha
    OBVIOUS
  <1>2. Moves(s, Slot(q, to, ref, id, src, args, sha))
    BY <1>1
  <1>3. Goes(s, from, to)
    BY <1>1, <1>2, MovesGoes
  <1>4. slot'[s].src = src
    BY <1>2, MovesSets
  <1>5. QED
    BY <1>1, <1>3, <1>4

LEMMA ToGoes ==
    ASSUME SlotsFine, NEW s \in Slots, SlotFine(slot[s]), NEW to, to # "idle", To(s, to)
    PROVE  Goes(s, slot[s].pc, to) /\ slot'[s].src = slot[s].src
  <1>1. PICK q, from : q = slot[s] /\ from = q.pc
    OBVIOUS
  <1>2. Moves(s, Slot(q, to, q.ref, q.id, q.src, q.args, q.sha))
    BY <1>1, ToMoves
  <1>3. from # "idle"
    BY <1>1 DEF SlotFine, SlotIs, SlotPCs, Built
  <1>4. QED
    BY <1>1, <1>2, <1>3, MovesOn

LEMMA LeaveGone ==
    ASSUME SlotsFine, NEW s \in Slots, slot[s].pc # "idle", Moves(s, Idle)
    PROVE  Gone(s, slot[s].pc)
  BY DEF Gone, Moves, Alike, Idle

(* The handler up to the name.                                             *)
LEMMA HandlerIs ==
    ASSUME SlotsFine, NEW s \in Slots, EnsureRepo(s) \/ CheckoutRef(s) \/ RevParse(s) \/ Name(s)
    PROVE  /\ UNCHANGED <<sc, ops, m, builds, file, objs, out, stream, page, cut>>
           /\ \E from \in {"fetch", "checkout", "sha", "name"} :
                \/ Gone(s, from)
                \/ \E to \in {"checkout", "sha", "name", "register"} :
                     /\ Goes(s, from, to)
                     /\ to = "name" => slot'[s].sha = tree /\ tree' = tree
                     /\ to = "register" => from = "name" /\ tree' = tree
  <1>1. UNCHANGED <<sc, ops, m, builds, file, objs, out, stream, page, cut>>
    BY DEF EnsureRepo, CheckoutRef, RevParse, Name, At, bVars, diskVars, uiVars
  <1>2. PICK q : q = slot[s]
    OBVIOUS
  <1>3. CASE EnsureRepo(s)
    <2>1. q.pc = "fetch" /\ (Moves(s, Slot(q, "checkout", q.ref, q.id, q.src, q.args, q.sha)) \/ Moves(s, Idle))
      BY <1>2, <1>3, EnsureRepoMoves
    <2>2. Goes(s, "fetch", "checkout") \/ Gone(s, "fetch")
      BY <1>2, <2>1, MovesOn, LeaveGone
    <2>3. QED
      BY <1>1, <2>2
  <1>4. CASE CheckoutRef(s)
    <2>1. PICK ref \in Refs :
               /\ SlotFine(q) /\ q.pc = "checkout" /\ tree' = ref
               /\ slot'[s] = Slot(q, "sha", ref, q.id, q.src, q.args, q.sha)
               /\ \A t \in Slots \ {s} : Peeks(t, ref)
      BY <1>2, <1>4, CheckoutMoves
    <2>2. ASSUME NEW t \in Slots \ {s} PROVE Alike(t)
      <3>1. CASE slot[t].pc = "compile"
        <4>1. PICK p, e, src : p = slot[t] /\ e = slot'[t] /\ src = slot[t].src \union {ref}
          OBVIOUS
        <4>2. e = Slot(p, p.pc, p.ref, p.id, src, p.args, p.sha)
          BY <2>1, <3>1, <4>1 DEF Peeks
        <4>3. /\ e.pc = p.pc /\ e.n = p.n /\ e.req = p.req /\ e.ref = p.ref /\ e.force = p.force
              /\ e.flags = p.flags /\ e.id = p.id /\ e.sha = p.sha
          BY <4>2, SlotFields
        <4>4. QED
          BY <4>1, <4>3 DEF Alike
      <3>2. CASE slot[t].pc # "compile"
        BY <2>1, <3>2 DEF Peeks, Alike
      <3>3. QED
        BY <3>1, <3>2
    <2>3. PICK e : e = slot'[s]
      OBVIOUS
    <2>4. /\ e.pc = "sha" /\ e.n = q.n /\ e.req = q.req /\ e.ref = ref /\ e.force = q.force
          /\ e.flags = q.flags /\ e.id = q.id /\ e.sha = q.sha
      BY <2>1, <2>3, SlotFields
    <2>5. Goes(s, "checkout", "sha")
      BY <1>2, <2>1, <2>2, <2>3, <2>4 DEF Goes
    <2>6. QED
      BY <1>1, <2>5
  <1>5. CASE RevParse(s)
    <2>1. q.pc = "sha" /\ Moves(s, Slot(q, "name", q.ref, q.id, q.src, q.args, tree))
      BY <1>2, <1>5, RevParseMoves
    <2>2. PICK ref, id, src, args, h : ref = q.ref /\ id = q.id /\ src = q.src /\ args = q.args /\ h = tree
      OBVIOUS
    <2>3. Moves(s, Slot(q, "name", ref, id, src, args, h)) /\ id = q.id
      BY <2>1, <2>2
    <2>4. Goes(s, "sha", "name") /\ slot'[s].sha = h
      <3>1. Goes(s, "sha", "name")
        BY <1>2, <2>1, <2>3, MovesGoes
      <3>2. slot'[s].sha = h
        BY <2>3, MovesSets
      <3>3. QED
        BY <3>1, <3>2
    <2>5. tree' = tree
      BY <1>5 DEF RevParse, bVars, diskVars
    <2>6. QED
      BY <1>1, <2>2, <2>4, <2>5
  <1>6. CASE Name(s)
    <2>1. q.pc = "name" /\ \E id : Moves(s, Slot(q, "register", q.ref, id, q.src, q.args, q.sha))
      BY <1>2, <1>6, NameMoves
    <2>2. PICK ref, id, src, args, sha : /\ src = q.src /\ args = q.args /\ sha = q.sha
                                         /\ Moves(s, Slot(q, "register", ref, id, src, args, sha))
      BY <2>1
    <2>3. Goes(s, "name", "register")
      BY <1>2, <2>1, <2>2, MovesGoes
    <2>4. tree' = tree
      BY <1>6 DEF Name, bVars, diskVars
    <2>5. QED
      BY <1>1, <2>3, <2>4
  <1>7. QED
    BY <1>3, <1>4, <1>5, <1>6

(* The registration: refused, or a new entry in the list.                  *)
LEMMA RegisterIs ==
    ASSUME SlotsFine, NEW s \in Slots, Register(s), NEW id, id = slot[s].id
    PROVE  /\ UNCHANGED <<sc, ops, m, file, tree, objs, stream, page, cut>>
           /\ \/ Gone(s, "register") /\ UNCHANGED <<builds, out>>
              \/ /\ Goes(s, "register", "stream")
                 /\ id \in DOMAIN builds => slot[s].force
                 /\ DOMAIN builds' = DOMAIN builds \union {id}
                 /\ builds'[id].status = "building"
                 /\ \A i \in DOMAIN builds \ {id} : builds'[i] = builds[i]
                 /\ \A i \in DOMAIN out \ {id} : i \in DOMAIN out' /\ out'[i] = out[i]
                 /\ id \notin DOMAIN builds => out' = out
  <1>1. UNCHANGED <<sc, ops, m, file, tree, objs, stream, page, cut>>
    BY DEF Register, At, bVars, diskVars, uiVars
  <1>2. SlotFine(slot[s]) /\ slot[s].pc = "register"
    BY RegisterMoves
  <1>3. CASE Leave(s) /\ UNCHANGED bVars
    <2>1. Moves(s, Idle)
      BY <1>3, SlotPut
    <2>2. Gone(s, "register")
      BY <1>2, <2>1, LeaveGone
    <2>3. QED
      BY <1>1, <1>3, <2>2 DEF bVars, diskVars
  <1>4. CASE /\ id \in DOMAIN builds => slot[s].force
             /\ IF id \in DOMAIN builds THEN Replace(id) ELSE out' = out
             /\ builds' = [i \in DOMAIN builds \union {id} |-> IF i = id THEN Entry(s, "building") ELSE builds[i]]
             /\ To(s, "stream")
    <2>1. Goes(s, "register", "stream")
      BY <1>2, <1>4, ToGoes
    <2>2. /\ \A i \in DOMAIN out \ {id} : i \in DOMAIN out' /\ out'[i] = out[i]
          /\ id \notin DOMAIN builds => out' = out
      <3>1. id \in DOMAIN builds => out' = Without(out, id)
        BY <1>4 DEF Replace
      <3>2. /\ DOMAIN Without(out, id) = DOMAIN out \ {id}
            /\ \A i \in DOMAIN out \ {id} : Without(out, id)[i] = out[i]
        BY WithoutFine
      <3>3. id \notin DOMAIN builds => out' = out
        BY <1>4
      <3>4. QED
        BY <3>1, <3>2, <3>3
    <2>3. Entry(s, "building").status = "building"
      BY DEF Entry
    <2>4. /\ DOMAIN builds' = DOMAIN builds \union {id}
          /\ builds'[id].status = "building"
          /\ \A i \in DOMAIN builds \ {id} : builds'[i] = builds[i]
      BY <1>4, <2>3
    <2>5. QED
      BY <1>1, <1>4, <2>1, <2>2, <2>4
  <1>5. QED
    BY <1>3, <1>4 DEF Register

LEMMA OpenStreamIs ==
    ASSUME SlotsFine, NEW s \in Slots, OpenStream(s), NEW id, id = slot[s].id
    PROVE  /\ UNCHANGED <<sc, ops, m, builds, file, tree, objs, out, page, cut>>
           /\ Goes(s, "stream", "configure")
           /\ DOMAIN stream' = DOMAIN stream \union {id} /\ stream'[id] = slot[s].n
           /\ \A i \in DOMAIN stream \ {id} : stream'[i] = stream[i]
  <1>1. SlotFine(slot[s]) /\ slot[s].pc = "stream"
    BY OpenStreamMoves
  <1>2. Goes(s, "stream", "configure")
    BY <1>1, ToGoes DEF OpenStream
  <1>3. UNCHANGED <<sc, ops, m, builds, file, tree, objs, out, page, cut>>
    BY DEF OpenStream, At, bVars, diskVars
  <1>4. stream' = [i \in DOMAIN stream \union {id} |-> IF i = id THEN slot[s].n ELSE stream[i]]
    BY DEF OpenStream
  <1>5. QED
    BY <1>2, <1>3, <1>4

(* The goroutine: a failure at any of its stages, or the next one.         *)
Ends(s, status) ==
    /\ Finished(s, status) /\ EntriesFine(builds')
    /\ status = "failed" => \E from \in {"configure", "compile", "install"} : Goes(s, from, "close")
    /\ status = "success" => Goes(s, "finish", "close")
    /\ UNCHANGED <<out, page>>

LEMMA GoroutineIs ==
    ASSUME Shape, NEW s \in Slots,
           RunCMake(s) \/ RunNinja(s) \/ Install(s) \/ Succeed(s) \/ Close(s),
           NEW id, id = slot[s].id, NEW prof, prof = slot[s].req.prof
    PROVE  /\ UNCHANGED <<sc, ops, m, tree, stream>>
           /\ \/ Ends(s, "failed")
              \/ Ends(s, "success")
              \/ /\ Goes(s, "configure", "compile") /\ slot'[s].src = {tree}
                 /\ objs'[prof] = [src |-> {}, flags |-> slot[s].flags]
                 /\ UNCHANGED <<builds, file, out, page, cut>>
              \/ /\ Goes(s, "compile", "install")
                 /\ objs'[prof] = [src |-> slot[s].src, flags |-> objs[prof].flags]
                 /\ UNCHANGED <<builds, file, out, page, cut>>
              \/ /\ Goes(s, "install", "finish")
                 /\ DOMAIN out' = DOMAIN out \union {id} /\ out'[id] = objs[prof]
                 /\ \A i \in DOMAIN out \ {id} : out'[i] = out[i]
                 /\ UNCHANGED <<builds, file, page, cut>>
              \/ /\ Gone(s, "close") /\ UNCHANGED <<builds, file, out, cut>>
                 /\ page' = [p \in Pages |-> IF Closed(s, p) THEN NoPage ELSE page[p]]
  <1>1. UNCHANGED <<sc, ops, m, tree, stream>>
    BY Zenon DEF RunCMake, RunNinja, Install, Succeed, Close, At, bVars, diskVars, uiVars
  <1>2. SlotFine(slot[s]) /\ slot[s].pc # "idle" /\ SlotsFine
    <2>1. \E pc \in SlotPCs : At(s, pc)
      BY Zenon DEF RunCMake, RunNinja, Install, Succeed, Close, SlotPCs, Built
    <2>2. QED
      BY <2>1, StepSlot DEF Shape, SlotPCs, Built
  <1>3. prof \in Profiles /\ IsBin(objs[prof])
    BY <1>2 DEF SlotFine, SlotIs, Shape
  <1>4. objs = [p \in Profiles |-> objs[p]] /\ EntriesFine(builds)
    BY DEF Shape, EntriesFine
  <1>5. ASSUME Fail(s), slot[s].pc \in {"configure", "compile", "install"}, UNCHANGED <<out, page>>
        PROVE  Ends(s, "failed")
    <2>1. FinishBuild(s, "failed") /\ To(s, "close")
      BY <1>5 DEF Fail
    <2>2. Finished(s, "failed") /\ EntriesFine(builds')
      BY <1>4, <2>1, FinishIs DEF Statuses
    <2>3. Goes(s, slot[s].pc, "close")
      BY <1>2, <2>1, ToGoes
    <2>4. QED
      BY <1>5, <2>2, <2>3 DEF Ends
  <1>6. CASE RunCMake(s)
    <2>1. slot[s].pc = "configure" /\ UNCHANGED <<tree, out, uiVars>>
      BY <1>6 DEF RunCMake, At
    <2>2. CASE Fail(s)
      BY <1>1, <1>5, <2>1, <2>2 DEF uiVars
    <2>3. CASE /\ slot' = [slot EXCEPT ![s].src = {tree}, ![s].args = Configure(m, slot[s].req.prof, slot[s].flags).args,
                                       ![s].pc = "compile"]
               /\ objs' = [objs EXCEPT ![slot[s].req.prof] = [src |-> {}, flags |-> slot[s].flags]]
               /\ UNCHANGED <<builds, file, cut>>
      <3>1. PICK q, src, args : q = slot[s] /\ src = {tree} /\ args = Configure(m, slot[s].req.prof, slot[s].flags).args
        OBVIOUS
      <3>2. slot' = [slot EXCEPT ![s] = WithArgs(q, src, args, "compile")]
        BY <1>2, <2>3, <3>1 DEF SlotsFine, WithArgs
      <3>3. IsSlot(q)
        BY <1>2, <3>1 DEF SlotFine, SlotIs
      <3>4. WithArgs(q, src, args, "compile") = Slot(q, "compile", q.ref, q.id, src, args, q.sha)
        BY <3>3, TwoUpdates
      <3>5. Moves(s, Slot(q, "compile", q.ref, q.id, src, args, q.sha))
        BY <1>2, <3>2, <3>4, SlotPut
      <3>6. PICK ref, id0, sha : ref = q.ref /\ id0 = q.id /\ sha = q.sha
        OBVIOUS
      <3>7. Moves(s, Slot(q, "compile", ref, id0, src, args, sha))
        BY <3>5, <3>6
      <3>8. Goes(s, "configure", "compile") /\ slot'[s].src = src
        <4>1. Goes(s, "configure", "compile")
          BY <2>1, <3>1, <3>6, <3>7, MovesGoes
        <4>2. slot'[s].src = src
          BY <3>7, MovesSets
        <4>3. QED
          BY <4>1, <4>2
      <3>9. objs'[prof] = [src |-> {}, flags |-> slot[s].flags]
        BY <1>3, <1>4, <2>3
      <3>10. QED
        BY <1>1, <2>1, <2>3, <3>1, <3>8, <3>9 DEF uiVars
    <2>4. QED
      BY <1>6, <2>2, <2>3 DEF RunCMake
  <1>7. CASE RunNinja(s)
    <2>1. slot[s].pc = "compile" /\ UNCHANGED <<tree, out, uiVars>>
      BY <1>7 DEF RunNinja, At
    <2>2. CASE Fail(s)
      BY <1>1, <1>5, <2>1, <2>2 DEF uiVars
    <2>3. CASE /\ objs' = [objs EXCEPT ![slot[s].req.prof].src = slot[s].src]
               /\ To(s, "install") /\ UNCHANGED <<builds, file, cut>>
      <3>1. Goes(s, "compile", "install")
        BY <1>2, <2>1, <2>3, ToGoes
      <3>2. objs'[prof] = [src |-> slot[s].src, flags |-> objs[prof].flags]
        BY <1>3, <1>4, <2>3 DEF IsBin
      <3>3. QED
        BY <1>1, <2>1, <2>3, <3>1, <3>2 DEF uiVars
    <2>4. QED
      BY <1>7, <2>2, <2>3 DEF RunNinja
  <1>8. CASE Install(s)
    <2>1. slot[s].pc = "install" /\ UNCHANGED <<tree, uiVars>>
      BY <1>8 DEF Install, At
    <2>2. CASE Fail(s) /\ UNCHANGED out
      BY <1>1, <1>5, <2>1, <2>2 DEF uiVars
    <2>3. CASE /\ out' = [i \in DOMAIN out \union {slot[s].id} |-> IF i = slot[s].id THEN objs[slot[s].req.prof] ELSE out[i]]
               /\ To(s, "finish") /\ UNCHANGED <<builds, file, cut>>
      <3>1. Goes(s, "install", "finish")
        BY <1>2, <2>1, <2>3, ToGoes
      <3>2. /\ DOMAIN out' = DOMAIN out \union {id} /\ out'[id] = objs[prof]
            /\ \A i \in DOMAIN out \ {id} : out'[i] = out[i]
        BY <2>3
      <3>3. QED
        BY <1>1, <2>1, <2>3, <3>1, <3>2 DEF uiVars
    <2>4. QED
      BY <1>8, <2>2, <2>3, Zenon DEF Install
  <1>9. CASE Succeed(s)
    <2>1. /\ slot[s].pc = "finish" /\ To(s, "close") /\ FinishBuild(s, "success")
          /\ UNCHANGED <<out, page>>
      BY <1>9 DEF Succeed, At, uiVars
    <2>2. Finished(s, "success") /\ EntriesFine(builds')
      BY <1>4, <2>1, FinishIs DEF Statuses
    <2>3. Goes(s, "finish", "close")
      BY <1>2, <2>1, ToGoes
    <2>4. Ends(s, "success")
      BY <2>1, <2>2, <2>3 DEF Ends
    <2>5. QED
      BY <1>1, <2>4
  <1>10. CASE Close(s)
    <2>1. slot[s].pc = "close" /\ Leave(s)
      BY <1>10 DEF Close, At
    <2>2. Gone(s, "close")
      BY <1>2, <2>1, SlotPut, LeaveGone
    <2>3. UNCHANGED <<builds, file, out, cut>>
          /\ page' = [p \in Pages |-> IF Closed(s, p) THEN NoPage ELSE page[p]]
      BY <1>10 DEF Close, bVars, diskVars
    <2>4. QED
      BY <1>1, <2>2, <2>3
  <1>11. QED
    BY <1>6, <1>7, <1>8, <1>9, <1>10

----------------------------------------------------------------------------
(* Whose turn it is: builds one at a time, or builds that cannot take over *)
(* each other's entries.                                                   *)
Alone   == "overlap" \notin sc
Calm    == Alone \/ Careful
Running == Built \ {"close"}

Turn ==
    /\ Alone => \A s, t \in InPipeline : s = t
    /\ Careful => \A s \in InPipeline :
         slot[s].force = FALSE /\ (slot[s].pc \in Built => slot[s].id \in DOMAIN builds)
    /\ Calm => \A s, t \in InPipeline :
         slot[s].pc \in Built /\ slot[t].pc \in Built /\ slot[s].id = slot[t].id => s = t
    /\ Calm => \A s \in InPipeline :
         slot[s].pc \in Running /\ slot[s].id \in DOMAIN builds => builds[slot[s].id].status = "building"

LEMMA OursIsNotTheirs ==
    ASSUME Shape, NEW s \in Slots, slot[s].pc \in Built \union {"register"}, NEW e \in Externals
    PROVE  slot[s].id # ExtId(e)
  <1>1. SlotFine(slot[s])
    BY DEF Shape, SlotsFine, Idle, Built
  <1>2. slot[s].id.ref \in Refs
    BY <1>1 DEF SlotFine, SlotIs
  <1>3. ExtId(e).ref = "external"
    BY DEF ExtId, Id
  <1>4. QED
    BY <1>2, <1>3, RefsAssumption

LEMMA Pipelines ==
    ASSUME NEW s \in Slots
    PROVE  /\ \A from, to : Goes(s, from, to) => /\ s \in InPipeline
                                                 /\ \A t \in InPipeline' : t \in InPipeline /\ (t = s \/ Alike(t))
           /\ \A from : Gone(s, from) => \A t \in InPipeline' : t \in InPipeline /\ t # s /\ Alike(t)
  BY DEF Goes, Gone, InPipeline, Alike

LEMMA CalmStays == sc' = sc => Alone' = Alone /\ Careful' = Careful /\ Calm' = Calm
  BY DEF Alone, Careful, Calm

LEMMA TurnGoes ==
    ASSUME Turn, sc' = sc, NEW s \in Slots, NEW from, NEW to, Goes(s, from, to),
           to \in Built => from \in Built, from = "name" => to \notin Built, to \in Running => from \in Running,
           DOMAIN builds \subseteq DOMAIN builds',
           \A i \in DOMAIN builds' : /\ i \in DOMAIN builds
                                     /\ builds'[i] # builds[i] => i = slot[s].id /\ from \in Built /\ to \notin Running
    PROVE  Turn'
  <1>1. s \in InPipeline /\ \A t \in InPipeline' : t \in InPipeline /\ (t = s \/ Alike(t))
    BY Pipelines
  <1>2. /\ slot[s].pc = from /\ slot'[s].pc = to /\ slot'[s].force = slot[s].force
        /\ from # "name" => slot'[s].id = slot[s].id
    BY DEF Goes
  <1>3. \A t \in InPipeline' :
           /\ slot'[t].force = slot[t].force
           /\ slot'[t].pc \in Built => slot[t].pc \in Built /\ slot'[t].id = slot[t].id
           /\ slot'[t].pc \in Running => slot[t].pc \in Running
    BY <1>1, <1>2 DEF Alike, InPipeline
  <1>4. Running \subseteq Built
    BY DEF Running
  <1>5. Alone => \A t, u \in InPipeline' : t = u
    BY <1>1 DEF Turn
  <1>6. Careful => \A t \in InPipeline' :
           slot'[t].force = FALSE /\ (slot'[t].pc \in Built => slot'[t].id \in DOMAIN builds')
    BY <1>1, <1>3 DEF Turn
  <1>7. Calm => \A t, u \in InPipeline' :
           slot'[t].pc \in Built /\ slot'[u].pc \in Built /\ slot'[t].id = slot'[u].id => t = u
    BY <1>1, <1>3 DEF Turn
  <1>8. ASSUME Calm, NEW t \in InPipeline', slot'[t].pc \in Running, slot'[t].id \in DOMAIN builds'
        PROVE  builds'[slot'[t].id].status = "building"
    <2>1. /\ t \in InPipeline /\ slot[t].pc \in Running /\ slot[t].pc \in Built /\ slot'[t].id = slot[t].id
          /\ slot[t].id \in DOMAIN builds
      BY <1>1, <1>3, <1>4, <1>8
    <2>2. builds[slot[t].id].status = "building"
      BY <1>8, <2>1 DEF Turn
    <2>3. builds'[slot[t].id] = builds[slot[t].id]
      <3>1. SUFFICES ASSUME builds'[slot[t].id] # builds[slot[t].id] PROVE FALSE
        OBVIOUS
      <3>2. slot[t].id = slot[s].id /\ from \in Built /\ to \notin Running
        BY <1>8, <2>1, <3>1
      <3>3. t = s
        BY <1>1, <1>2, <1>8, <2>1, <3>2 DEF Turn
      <3>4. QED
        BY <1>2, <1>8, <3>2, <3>3
    <2>4. QED
      BY <2>1, <2>2, <2>3
  <1>9. Alone' = Alone /\ Careful' = Careful /\ Calm' = Calm
    BY CalmStays
  <1>10. QED
    BY <1>5, <1>6, <1>7, <1>8, <1>9 DEF Turn

LEMMA TurnGone ==
    ASSUME Turn, sc' = sc, builds' = builds, NEW s \in Slots, NEW from, Gone(s, from)
    PROVE  Turn'
  <1>1. \A t \in InPipeline' : t \in InPipeline /\ t # s /\ Alike(t)
    BY Pipelines
  <1>2. \A t \in InPipeline' : /\ slot'[t].force = slot[t].force /\ slot'[t].pc = slot[t].pc
                               /\ slot'[t].id = slot[t].id
    BY <1>1 DEF Alike, InPipeline
  <1>3. Alone' = Alone /\ Careful' = Careful /\ Calm' = Calm
    BY CalmStays
  <1>4. QED
    BY <1>1, <1>2, <1>3 DEF Turn

LEMMA TurnRegister ==
    ASSUME Turn, sc' = sc, NEW s \in Slots, Goes(s, "register", "stream"), NEW id, id = slot[s].id,
           id \in DOMAIN builds => slot[s].force,
           DOMAIN builds' = DOMAIN builds \union {id}, builds'[id].status = "building",
           \A i \in DOMAIN builds \ {id} : builds'[i] = builds[i]
    PROVE  Turn'
  <1>1. s \in InPipeline /\ \A t \in InPipeline' : t \in InPipeline /\ (t = s \/ Alike(t))
    BY Pipelines
  <1>2. /\ slot[s].pc = "register" /\ slot'[s].pc = "stream" /\ slot'[s].force = slot[s].force
        /\ slot'[s].id = id
    BY DEF Goes
  <1>3. \A t \in InPipeline' : t # s =>
           slot'[t].force = slot[t].force /\ slot'[t].pc = slot[t].pc /\ slot'[t].id = slot[t].id
    BY <1>1 DEF Alike, InPipeline
  <1>4. Alone => \A t, u \in InPipeline' : t = u
    BY <1>1 DEF Turn
  <1>5. Careful => id \notin DOMAIN builds
    BY <1>1 DEF Turn
  <1>6. Careful => \A t \in InPipeline' :
           slot'[t].force = FALSE /\ (slot'[t].pc \in Built => slot'[t].id \in DOMAIN builds')
    <2>1. SUFFICES ASSUME Careful, NEW t \in InPipeline'
                   PROVE  slot'[t].force = FALSE /\ (slot'[t].pc \in Built => slot'[t].id \in DOMAIN builds')
      OBVIOUS
    <2>2. CASE t = s
      BY <1>1, <1>2, <2>1, <2>2 DEF Turn
    <2>3. CASE t # s
      BY <1>1, <1>3, <2>1, <2>3 DEF Turn
    <2>4. QED
      BY <2>2, <2>3
  <1>7. ASSUME Calm, NEW t \in InPipeline', t # s, slot'[t].pc \in Built
        PROVE  slot'[t].id # id
    <2>1. CASE Alone
      BY <1>1, <1>7, <2>1 DEF Turn
    <2>2. CASE Careful
      BY <1>1, <1>3, <1>5, <1>7, <2>2 DEF Turn
    <2>3. QED
      BY <1>7, <2>1, <2>2 DEF Calm
  <1>8. Calm => \A t, u \in InPipeline' :
           slot'[t].pc \in Built /\ slot'[u].pc \in Built /\ slot'[t].id = slot'[u].id => t = u
    <2>1. SUFFICES ASSUME Calm, NEW t \in InPipeline', NEW u \in InPipeline',
                          slot'[t].pc \in Built, slot'[u].pc \in Built, slot'[t].id = slot'[u].id
                   PROVE  t = u
      OBVIOUS
    <2>2. CASE t # s /\ u # s
      BY <1>1, <1>3, <2>1, <2>2 DEF Turn
    <2>3. CASE t = s \/ u = s
      BY <1>2, <1>7, <2>1, <2>3
    <2>4. QED
      BY <2>2, <2>3
  <1>9. Calm => \A t \in InPipeline' :
           slot'[t].pc \in Running /\ slot'[t].id \in DOMAIN builds' => builds'[slot'[t].id].status = "building"
    <2>1. SUFFICES ASSUME Calm, NEW t \in InPipeline', slot'[t].pc \in Running, slot'[t].id \in DOMAIN builds'
                   PROVE  builds'[slot'[t].id].status = "building"
      OBVIOUS
    <2>2. CASE t = s
      BY <1>2, <2>2
    <2>3. CASE t # s
      <3>1. slot'[t].id # id
        BY <1>7, <2>1, <2>3 DEF Running
      <3>2. QED
        BY <1>1, <1>3, <2>1, <2>3, <3>1 DEF Turn
    <2>4. QED
      BY <2>2, <2>3
  <1>10. Alone' = Alone /\ Careful' = Careful /\ Calm' = Calm
    BY CalmStays
  <1>11. QED
    BY <1>4, <1>6, <1>8, <1>9, <1>10 DEF Turn

LEMMA TurnWork ==
    ASSUME Shape, Turn, NEW s \in Slots, Work(s)
    PROVE  Turn'
  <1>1. SlotsFine
    BY DEF Shape
  <1>2. CASE EnsureRepo(s) \/ CheckoutRef(s) \/ RevParse(s) \/ Name(s)
    <2>1. sc' = sc /\ builds' = builds
      BY <1>1, <1>2, HandlerIs
    <2>2. PICK from \in {"fetch", "checkout", "sha", "name"} :
             Gone(s, from) \/ \E to \in {"checkout", "sha", "name", "register"} : Goes(s, from, to)
      BY <1>1, <1>2, HandlerIs
    <2>3. CASE Gone(s, from)
      BY <2>1, <2>3, TurnGone
    <2>4. ASSUME NEW to \in {"checkout", "sha", "name", "register"}, Goes(s, from, to) PROVE Turn'
      <3>1. to \notin Built /\ to \notin Running
        BY DEF Built, Running
      <3>2. QED
        BY <2>1, <2>4, <3>1, TurnGoes
    <2>5. QED
      BY <2>2, <2>3, <2>4
  <1>3. CASE Register(s)
    <2>1. PICK id : id = slot[s].id
      OBVIOUS
    <2>2. /\ sc' = sc
          /\ \/ Gone(s, "register") /\ builds' = builds
             \/ /\ Goes(s, "register", "stream")
                /\ id \in DOMAIN builds => slot[s].force
                /\ DOMAIN builds' = DOMAIN builds \union {id}
                /\ builds'[id].status = "building"
                /\ \A i \in DOMAIN builds \ {id} : builds'[i] = builds[i]
      BY <1>1, <1>3, <2>1, RegisterIs
    <2>3. CASE Gone(s, "register") /\ builds' = builds
      BY <2>2, <2>3, TurnGone
    <2>4. CASE Goes(s, "register", "stream")
      BY <2>1, <2>2, <2>4, TurnRegister DEF Goes, Gone
    <2>5. QED
      BY <2>2, <2>3, <2>4
  <1>4. CASE OpenStream(s)
    <2>1. sc' = sc /\ builds' = builds /\ Goes(s, "stream", "configure")
      BY <1>1, <1>4, OpenStreamIs
    <2>2. "stream" \in Built /\ "stream" \in Running
      BY DEF Built, Running
    <2>3. QED
      BY <2>1, <2>2, TurnGoes
  <1>5. CASE RunCMake(s) \/ RunNinja(s) \/ Install(s) \/ Succeed(s) \/ Close(s)
    <2>1. /\ sc' = sc
          /\ \/ Ends(s, "failed") \/ Ends(s, "success")
             \/ Goes(s, "configure", "compile") /\ builds' = builds
             \/ Goes(s, "compile", "install") /\ builds' = builds
             \/ Goes(s, "install", "finish") /\ builds' = builds
             \/ Gone(s, "close") /\ builds' = builds
      BY <1>5, GoroutineIs
    <2>2. /\ {"configure", "compile", "install", "finish"} \subseteq Built
          /\ {"configure", "compile", "install", "finish"} \subseteq Running
          /\ "close" \notin Running /\ "name" \notin Running /\ "name" \notin Built
      BY DEF Built, Running
    <2>3. ASSUME NEW status, Finished(s, status), NEW from \in {"configure", "compile", "install", "finish"},
                 Goes(s, from, "close")
          PROVE  Turn'
      <3>1. /\ DOMAIN builds' = DOMAIN builds
            /\ \A i \in DOMAIN builds : builds'[i] # builds[i] => i = slot[s].id
        BY <2>3 DEF Finished
      <3>2. QED
        BY <2>1, <2>2, <2>3, <3>1, TurnGoes
    <2>4. CASE Ends(s, "failed") \/ Ends(s, "success")
      BY <2>3, <2>4 DEF Ends
    <2>5. CASE Goes(s, "configure", "compile") /\ builds' = builds
      BY <2>1, <2>2, <2>5, TurnGoes
    <2>6. CASE Goes(s, "compile", "install") /\ builds' = builds
      BY <2>1, <2>2, <2>6, TurnGoes
    <2>7. CASE Goes(s, "install", "finish") /\ builds' = builds
      BY <2>1, <2>2, <2>7, TurnGoes
    <2>8. CASE Gone(s, "close") /\ builds' = builds
      BY <2>1, <2>8, TurnGone
    <2>9. QED
      BY <2>1, <2>4, <2>5, <2>6, <2>7, <2>8
  <1>6. QED
    BY <1>2, <1>3, <1>4, <1>5 DEF Work

LEMMA TurnEnter ==
    ASSUME Shape, Turn, NEW s \in Slots, NEW r, NEW force, NEW want, Enters(s, r, force, want)
    PROVE  Turn'
  <1>1. /\ SlotsFine /\ ops \in Nat /\ ops' = ops + 1 /\ m' = m /\ sc' = sc /\ builds' = builds
        /\ IsRequest(r) /\ Enter(s, r, force, want)
    BY OpsAssumption DEF Shape, Enters, bVars
  <1>2. /\ slot[s] = Idle /\ (Alone => InPipeline = {})
        /\ \A t \in Slots \ {s} : slot'[t] = slot[t]
        /\ slot'[s].pc = "fetch" /\ slot'[s].force = force
    BY <1>1, EnterFine DEF Alone
  <1>3. \A t \in InPipeline' : t = s \/ (t \in InPipeline /\ t # s /\ slot'[t] = slot[t])
    BY <1>2 DEF InPipeline
  <1>4. Careful => force = FALSE
    BY DEF Enters, Careful
  <1>5. "fetch" \notin Built /\ "fetch" \notin Running
    BY DEF Built, Running
  <1>6. Alone => \A t, u \in InPipeline' : t = u
    BY <1>2, <1>3
  <1>7. Careful => \A t \in InPipeline' :
           slot'[t].force = FALSE /\ (slot'[t].pc \in Built => slot'[t].id \in DOMAIN builds')
    BY <1>1, <1>2, <1>3, <1>4, <1>5 DEF Turn
  <1>8. Calm => \A t, u \in InPipeline' :
           slot'[t].pc \in Built /\ slot'[u].pc \in Built /\ slot'[t].id = slot'[u].id => t = u
    BY <1>2, <1>3, <1>5 DEF Turn
  <1>9. Calm => \A t \in InPipeline' :
           slot'[t].pc \in Running /\ slot'[t].id \in DOMAIN builds' => builds'[slot'[t].id].status = "building"
    BY <1>1, <1>2, <1>3, <1>5 DEF Turn
  <1>10. Alone' = Alone /\ Careful' = Careful /\ Calm' = Calm
    BY <1>1, CalmStays
  <1>11. QED
    BY <1>6, <1>7, <1>8, <1>9, <1>10 DEF Turn

(* A step that leaves the requests alone and forgets or imports builds.    *)
LEMMA TurnListed ==
    ASSUME Shape, Turn, sc' = sc, slot' = slot,
           \A i \in DOMAIN builds' : \/ \E e \in Externals : i = ExtId(e)
                                     \/ i \in DOMAIN builds /\ builds'[i] = builds[i],
           Careful => DOMAIN builds \subseteq DOMAIN builds'
    PROVE  Turn'
  <1>1. InPipeline' = InPipeline
    BY DEF InPipeline
  <1>2. ASSUME NEW s \in InPipeline, slot[s].pc \in Running, slot[s].id \in DOMAIN builds', Calm
        PROVE  builds'[slot[s].id].status = "building"
    <2>1. \A e \in Externals : slot[s].id # ExtId(e)
      BY <1>2, OursIsNotTheirs DEF Running, InPipeline
    <2>2. slot[s].id \in DOMAIN builds /\ builds'[slot[s].id] = builds[slot[s].id]
      BY <1>2, <2>1
    <2>3. QED
      BY <1>2, <2>2 DEF Turn
  <1>3. Alone' = Alone /\ Careful' = Careful /\ Calm' = Calm
    BY CalmStays
  <1>4. QED
    BY <1>1, <1>2, <1>3 DEF Turn

LEMMA TurnRestart ==
    ASSUME Restart
    PROVE  Turn'
  <1>1. InPipeline' = {}
    BY RestartIs DEF InPipeline, Idle
  <1>2. QED
    BY <1>1 DEF Turn

----------------------------------------------------------------------------
(* Builds one at a time: what is compiled is what the entry will say, from *)
(* the checkout to the list, and from the list to the file.                *)
BinOf(q) == [src |-> {q.sha}, flags |-> q.flags]
Stage(q, t, dirs, bs, bins) ==
    /\ q.pc \in {"name", "register"} \union Built => q.sha = t
    /\ q.pc = "compile" => q.src = {q.sha} /\ dirs[q.req.prof] = [src |-> {}, flags |-> q.flags]
    /\ q.pc = "install" => dirs[q.req.prof] = BinOf(q)
    /\ q.pc = "finish" /\ q.id \in DOMAIN bs => q.id \in DOMAIN bins /\ bins[q.id] = BinOf(q)
AsRecorded(i, b, interrupted, bins) ==
    b.status = "success" /\ b.own /\ i \notin interrupted =>
        i \in DOMAIN bins /\ bins[i] = [src |-> {b.sha}, flags |-> b.flags]
Taken(i) == \E s \in InPipeline : slot[s].pc \in Running /\ slot[s].id = i

Kept == Alone =>
    /\ \A s \in InPipeline : Stage(slot[s], tree, objs, builds, out)
    /\ \A i \in DOMAIN builds : AsRecorded(i, builds[i], cut, out)
    /\ \A i \in DOMAIN file : Taken(i) \/ AsRecorded(i, file[i], cut, out)

LEMMA OnlyOne ==
    ASSUME Alone, Turn, NEW s \in Slots
    PROVE  /\ \A from, to : Goes(s, from, to) => InPipeline = {s} /\ InPipeline' = {s}
           /\ \A from : Gone(s, from) => InPipeline = {s} /\ InPipeline' = {}
  BY DEF Turn, Goes, Gone, InPipeline, Alike

LEMMA KeptGone ==
    ASSUME Turn, Kept, sc' = sc, NEW s \in Slots, NEW from, from \notin Running, Gone(s, from),
           UNCHANGED <<builds, file, out, cut>>
    PROVE  Kept'
  <1> SUFFICES ASSUME Alone PROVE Kept'
    BY CalmStays DEF Kept
  <1>1. InPipeline = {s} /\ InPipeline' = {} /\ slot[s].pc = from
    BY OnlyOne DEF Gone
  <1>2. \A i : ~Taken(i)
    BY <1>1 DEF Taken
  <1>3. QED
    BY <1>1, <1>2 DEF Kept

(* A request that goes on without a change of the lists and the binaries.  *)
LEMMA KeptGoes ==
    ASSUME Turn, Kept, sc' = sc, NEW s \in Slots, NEW from, NEW to, Goes(s, from, to),
           from = "name" => to \notin Running,
           from \in Running <=> to \in Running,
           UNCHANGED <<builds, file, out, cut>>,
           Alone => Stage(slot'[s], tree', objs', builds', out')
    PROVE  Kept'
  <1> SUFFICES ASSUME Alone PROVE Kept'
    BY CalmStays DEF Kept
  <1>1. InPipeline = {s} /\ InPipeline' = {s}
    BY OnlyOne
  <1>2. slot[s].pc = from /\ slot'[s].pc = to /\ (from # "name" => slot'[s].id = slot[s].id)
    BY DEF Goes
  <1>3. \A i : Taken(i) => Taken(i)'
    BY <1>1, <1>2 DEF Taken
  <1>4. (\A t \in InPipeline : Stage(slot[t], tree, objs, builds, out))'
    BY <1>1
  <1>5. \A i \in DOMAIN builds' : AsRecorded(i, builds'[i], cut', out')
    BY DEF Kept
  <1>6. \A i \in DOMAIN file' : Taken(i)' \/ AsRecorded(i, file'[i], cut', out')
    BY <1>3 DEF Kept
  <1>7. QED
    BY <1>4, <1>5, <1>6 DEF Kept

LEMMA KeptRegister ==
    ASSUME Turn, Kept, sc' = sc, NEW s \in Slots, Goes(s, "register", "stream"), NEW id, id = slot[s].id,
           DOMAIN builds' = DOMAIN builds \union {id}, builds'[id].status = "building",
           \A i \in DOMAIN builds \ {id} : builds'[i] = builds[i],
           \A i \in DOMAIN out \ {id} : i \in DOMAIN out' /\ out'[i] = out[i],
           UNCHANGED <<file, tree, objs, cut>>
    PROVE  Kept'
  <1> SUFFICES ASSUME Alone PROVE Kept'
    BY CalmStays DEF Kept
  <1>1. InPipeline = {s} /\ InPipeline' = {s}
    BY OnlyOne
  <1>2. /\ slot[s].pc = "register" /\ slot'[s].pc = "stream" /\ slot'[s].id = id
        /\ slot'[s].sha = slot[s].sha
    BY DEF Goes
  <1>3. Stage(slot[s], tree, objs, builds, out)
    BY <1>1 DEF Kept
  <1>4. Stage(slot'[s], tree', objs', builds', out')
    BY <1>2, <1>3 DEF Stage, Built
  <1>5. ASSUME NEW i \in DOMAIN builds' PROVE AsRecorded(i, builds'[i], cut', out')
    <2>1. CASE i = id
      BY <2>1 DEF AsRecorded
    <2>2. CASE i # id
      <3>1. i \in DOMAIN builds /\ builds'[i] = builds[i]
        BY <2>2
      <3>2. AsRecorded(i, builds[i], cut, out)
        BY <3>1 DEF Kept
      <3>3. QED
        BY <2>2, <3>1, <3>2 DEF AsRecorded
    <2>3. QED
      BY <2>1, <2>2
  <1>6. ASSUME NEW i \in DOMAIN file', i # id PROVE AsRecorded(i, file'[i], cut', out')
    <2>1. ~Taken(i)
      BY <1>1, <1>2 DEF Taken, Running, Built
    <2>2. AsRecorded(i, file[i], cut, out)
      BY <2>1 DEF Kept
    <2>3. QED
      BY <1>6, <2>2 DEF AsRecorded
  <1>7. Taken(id)'
    BY <1>1, <1>2 DEF Taken, Running, Built
  <1>8. \A i \in DOMAIN file' : Taken(i)' \/ AsRecorded(i, file'[i], cut', out')
    BY <1>6, <1>7
  <1>9. (\A t \in InPipeline : Stage(slot[t], tree, objs, builds, out))'
    BY <1>1, <1>4
  <1>10. QED
    BY <1>5, <1>8, <1>9 DEF Kept

LEMMA KeptInstall ==
    ASSUME Turn, Kept, sc' = sc, NEW s \in Slots, Goes(s, "install", "finish"), NEW id, id = slot[s].id,
           DOMAIN out' = DOMAIN out \union {id}, out'[id] = objs[slot[s].req.prof],
           \A i \in DOMAIN out \ {id} : out'[i] = out[i],
           UNCHANGED <<builds, file, tree, cut>>
    PROVE  Kept'
  <1> SUFFICES ASSUME Alone PROVE Kept'
    BY CalmStays DEF Kept
  <1>1. InPipeline = {s} /\ InPipeline' = {s} /\ Calm
    BY OnlyOne DEF Calm
  <1>2. /\ slot[s].pc = "install" /\ slot'[s].pc = "finish" /\ slot'[s].id = id
        /\ slot'[s].sha = slot[s].sha /\ slot'[s].flags = slot[s].flags
    BY DEF Goes
  <1>3. Stage(slot[s], tree, objs, builds, out)
    BY <1>1 DEF Kept
  <1>4. objs[slot[s].req.prof] = BinOf(slot[s]) /\ slot[s].sha = tree
    BY <1>2, <1>3 DEF Stage, Built
  <1>5. BinOf(slot'[s]) = BinOf(slot[s])
    BY <1>2 DEF BinOf
  <1>6. Stage(slot'[s], tree', objs', builds', out')
    BY <1>2, <1>4, <1>5 DEF Stage, Built
  <1>7. id \in DOMAIN builds => builds[id].status = "building"
    BY <1>1, <1>2 DEF Turn, Running, Built
  <1>8. ASSUME NEW i \in DOMAIN builds' PROVE AsRecorded(i, builds'[i], cut', out')
    <2>1. CASE i = id
      BY <1>7, <2>1 DEF AsRecorded
    <2>2. CASE i # id
      <3>1. AsRecorded(i, builds[i], cut, out)
        BY DEF Kept
      <3>2. QED
        BY <2>2, <3>1 DEF AsRecorded
    <2>3. QED
      BY <2>1, <2>2
  <1>9. ASSUME NEW i \in DOMAIN file', i # id PROVE AsRecorded(i, file'[i], cut', out')
    <2>1. ~Taken(i)
      BY <1>1, <1>9 DEF Taken
    <2>2. AsRecorded(i, file[i], cut, out)
      BY <2>1 DEF Kept
    <2>3. QED
      BY <1>9, <2>2 DEF AsRecorded
  <1>10. Taken(id)'
    BY <1>1, <1>2 DEF Taken, Running, Built
  <1>11. \A i \in DOMAIN file' : Taken(i)' \/ AsRecorded(i, file'[i], cut', out')
    BY <1>9, <1>10
  <1>12. (\A t \in InPipeline : Stage(slot[t], tree, objs, builds, out))'
    BY <1>1, <1>6
  <1>13. QED
    BY <1>8, <1>11, <1>12 DEF Kept

LEMMA KeptEnds ==
    ASSUME Turn, Kept, sc' = sc, tree' = tree, NEW s \in Slots, NEW status \in {"failed", "success"}, Ends(s, status)
    PROVE  Kept'
  <1> SUFFICES ASSUME Alone PROVE Kept'
    BY CalmStays DEF Kept
  <1>1. PICK from \in {"configure", "compile", "install", "finish"} :
            Goes(s, from, "close") /\ (status = "success" => from = "finish")
    BY DEF Ends
  <1>2. InPipeline = {s} /\ InPipeline' = {s}
    BY <1>1, OnlyOne
  <1>3. PICK id : id = slot[s].id
    OBVIOUS
  <1>4. /\ slot[s].pc = from /\ slot'[s].pc = "close"
        /\ slot'[s].sha = slot[s].sha
    BY <1>1 DEF Goes
  <1>5. Stage(slot[s], tree, objs, builds, out)
    BY <1>2 DEF Kept
  <1>6. Stage(slot'[s], tree', objs', builds', out')
    BY <1>4, <1>5 DEF Stage, Built
  <1>7. /\ DOMAIN builds' = DOMAIN builds /\ file' = builds' /\ cut' = cut \ {id} /\ out' = out
        /\ \A i \in DOMAIN builds : builds'[i] = IF i = id THEN Entry(s, status) ELSE builds[i]
    BY <1>3 DEF Ends, Finished
  <1>8. ASSUME NEW i \in DOMAIN builds' PROVE AsRecorded(i, builds'[i], cut', out')
    <2>1. CASE i = id /\ status = "success"
      <3>1. id \in DOMAIN out /\ out[id] = BinOf(slot[s])
        BY <1>1, <1>3, <1>4, <1>5, <1>7, <2>1 DEF Stage
      <3>2. Entry(s, status).sha = slot[s].sha /\ Entry(s, status).flags = slot[s].flags
        BY DEF Entry
      <3>3. QED
        BY <1>7, <2>1, <3>1, <3>2 DEF AsRecorded, BinOf
    <2>2. CASE i = id /\ status = "failed"
      <3>1. Entry(s, status).status = "failed"
        BY <2>2 DEF Entry
      <3>2. QED
        BY <1>7, <2>2, <3>1 DEF AsRecorded
    <2>3. CASE i # id
      <3>1. AsRecorded(i, builds[i], cut, out)
        BY <1>7 DEF Kept
      <3>2. QED
        BY <1>7, <2>3, <3>1 DEF AsRecorded
    <2>4. QED
      BY <2>1, <2>2, <2>3
  <1>9. \A i \in DOMAIN file' : AsRecorded(i, file'[i], cut', out')
    BY <1>7, <1>8
  <1>10. (\A t \in InPipeline : Stage(slot[t], tree, objs, builds, out))'
    BY <1>2, <1>6
  <1>11. QED
    BY <1>8, <1>9, <1>10 DEF Kept

LEMMA KeptWork ==
    ASSUME Shape, Turn, Kept, NEW s \in Slots, Work(s)
    PROVE  Kept'
  <1>1. SlotsFine
    BY DEF Shape
  <1>s. Alone => \A from, to : Goes(s, from, to) => Stage(slot[s], tree, objs, builds, out)
    BY OnlyOne DEF Kept
  <1>2. CASE EnsureRepo(s) \/ CheckoutRef(s) \/ RevParse(s) \/ Name(s)
    <2>1. sc' = sc /\ UNCHANGED <<builds, file, out, cut>>
      BY <1>1, <1>2, HandlerIs
    <2>2. PICK from \in {"fetch", "checkout", "sha", "name"} :
             \/ Gone(s, from)
             \/ \E to \in {"checkout", "sha", "name", "register"} :
                     /\ Goes(s, from, to)
                     /\ to = "name" => slot'[s].sha = tree /\ tree' = tree
                     /\ to = "register" => from = "name" /\ tree' = tree
      BY <1>1, <1>2, HandlerIs
    <2>3. from \notin Running /\ from \notin Built
      BY DEF Running, Built
    <2>4. CASE Gone(s, from)
      BY <2>1, <2>3, <2>4, KeptGone
    <2>5. ASSUME NEW to \in {"checkout", "sha", "name", "register"}, Goes(s, from, to),
                 to = "name" => slot'[s].sha = tree /\ tree' = tree,
                 to = "register" => from = "name" /\ tree' = tree
          PROVE  Kept'
      <3>1. to \notin Built /\ to \notin Running /\ to \notin {"compile", "install", "finish"}
        BY DEF Built, Running
      <3>2. slot[s].pc = from /\ slot'[s].pc = to /\ (from # "sha" => slot'[s].sha = slot[s].sha)
        BY <2>5 DEF Goes
      <3>3. ASSUME Alone PROVE Stage(slot'[s], tree', objs', builds', out')
        <4>1. Stage(slot[s], tree, objs, builds, out)
          BY <1>s, <2>5, <3>3
        <4>2. to = "register" => slot[s].sha = tree
          BY <2>5, <3>2, <4>1 DEF Stage
        <4>3. QED
          BY <2>5, <3>1, <3>2, <4>2 DEF Stage
      <3>4. from = "name" => to \notin Running
        BY <3>1
      <3>5. from \in Running <=> to \in Running
        BY <2>3, <3>1
      <3>6. QED
        BY <2>1, <2>5, <3>3, <3>4, <3>5, KeptGoes
    <2>6. QED
      BY <2>2, <2>4, <2>5
  <1>3. CASE Register(s)
    <2>1. PICK id : id = slot[s].id
      OBVIOUS
    <2>2. /\ sc' = sc /\ UNCHANGED <<file, tree, objs, cut>>
          /\ \/ Gone(s, "register") /\ UNCHANGED <<builds, out>>
             \/ /\ Goes(s, "register", "stream")
                /\ DOMAIN builds' = DOMAIN builds \union {id}
                /\ builds'[id].status = "building"
                /\ \A i \in DOMAIN builds \ {id} : builds'[i] = builds[i]
                /\ \A i \in DOMAIN out \ {id} : i \in DOMAIN out' /\ out'[i] = out[i]
      BY <1>1, <1>3, <2>1, RegisterIs
    <2>3. CASE Gone(s, "register") /\ UNCHANGED <<builds, out>>
      <3>1. "register" \notin Running
        BY DEF Running, Built
      <3>2. QED
        BY <2>2, <2>3, <3>1, KeptGone
    <2>4. CASE Goes(s, "register", "stream")
      BY <2>1, <2>2, <2>4, KeptRegister DEF Goes, Gone
    <2>5. QED
      BY <2>2, <2>3, <2>4
  <1>4. CASE OpenStream(s)
    <2>1. sc' = sc /\ UNCHANGED <<builds, file, tree, objs, out, cut>> /\ Goes(s, "stream", "configure")
      BY <1>1, <1>4, OpenStreamIs
    <2>2. "stream" \in Running /\ "configure" \in Running
      BY DEF Built, Running
    <2>3. ASSUME Alone PROVE Stage(slot'[s], tree', objs', builds', out')
      <3>1. Stage(slot[s], tree, objs, builds, out)
        BY <1>s, <2>1, <2>3
      <3>2. QED
        BY <2>1, <3>1 DEF Stage, Built, Goes
    <2>4. QED
      BY <2>1, <2>2, <2>3, KeptGoes
  <1>5. CASE RunCMake(s) \/ RunNinja(s) \/ Install(s) \/ Succeed(s) \/ Close(s)
    <2>1. PICK id, prof : id = slot[s].id /\ prof = slot[s].req.prof
      OBVIOUS
    <2>2. /\ UNCHANGED <<sc, tree>>
          /\ \/ Ends(s, "failed")
             \/ Ends(s, "success")
             \/ /\ Goes(s, "configure", "compile") /\ slot'[s].src = {tree}
                /\ objs'[prof] = [src |-> {}, flags |-> slot[s].flags]
                /\ UNCHANGED <<builds, file, out, cut>>
             \/ /\ Goes(s, "compile", "install")
                /\ objs'[prof] = [src |-> slot[s].src, flags |-> objs[prof].flags]
                /\ UNCHANGED <<builds, file, out, cut>>
             \/ /\ Goes(s, "install", "finish")
                /\ DOMAIN out' = DOMAIN out \union {id} /\ out'[id] = objs[prof]
                /\ \A i \in DOMAIN out \ {id} : out'[i] = out[i]
                /\ UNCHANGED <<builds, file, cut>>
             \/ Gone(s, "close") /\ UNCHANGED <<builds, file, out, cut>>
      BY <1>5, <2>1, GoroutineIs
    <2>3. "configure" \in Running /\ "compile" \in Running /\ "install" \in Running /\ "close" \notin Running
      BY DEF Built, Running
    <2>4. CASE Ends(s, "failed") \/ Ends(s, "success")
      BY <2>2, <2>4, KeptEnds
    <2>5. CASE /\ Goes(s, "configure", "compile") /\ slot'[s].src = {tree}
               /\ objs'[prof] = [src |-> {}, flags |-> slot[s].flags]
               /\ UNCHANGED <<builds, file, out, cut>>
      <3>1. ASSUME Alone PROVE Stage(slot'[s], tree', objs', builds', out')
        <4>1. Stage(slot[s], tree, objs, builds, out)
          BY <1>s, <2>5, <3>1
        <4>2. /\ slot[s].pc = "configure" /\ slot'[s].pc = "compile" /\ slot'[s].sha = slot[s].sha
              /\ slot'[s].req = slot[s].req /\ slot'[s].flags = slot[s].flags
          BY <2>5 DEF Goes
        <4>3. slot[s].sha = tree
          BY <4>1, <4>2 DEF Stage, Built
        <4>4. QED
          BY <2>1, <2>2, <2>5, <4>2, <4>3 DEF Stage
      <3>2. QED
        BY <2>2, <2>3, <2>5, <3>1, KeptGoes
    <2>6. CASE /\ Goes(s, "compile", "install")
               /\ objs'[prof] = [src |-> slot[s].src, flags |-> objs[prof].flags]
               /\ UNCHANGED <<builds, file, out, cut>>
      <3>1. ASSUME Alone PROVE Stage(slot'[s], tree', objs', builds', out')
        <4>1. Stage(slot[s], tree, objs, builds, out)
          BY <1>s, <2>6, <3>1
        <4>2. /\ slot[s].pc = "compile" /\ slot'[s].pc = "install" /\ slot'[s].sha = slot[s].sha
              /\ slot'[s].req = slot[s].req /\ slot'[s].flags = slot[s].flags
          BY <2>6 DEF Goes
        <4>3. slot[s].sha = tree /\ slot[s].src = {slot[s].sha} /\ objs[prof].flags = slot[s].flags
          BY <2>1, <4>1, <4>2 DEF Stage, Built
        <4>4. QED
          BY <2>1, <2>2, <2>6, <4>2, <4>3 DEF Stage, BinOf
      <3>2. QED
        BY <2>2, <2>3, <2>6, <3>1, KeptGoes
    <2>7. CASE /\ Goes(s, "install", "finish")
               /\ DOMAIN out' = DOMAIN out \union {id} /\ out'[id] = objs[prof]
               /\ \A i \in DOMAIN out \ {id} : out'[i] = out[i]
               /\ UNCHANGED <<builds, file, cut>>
      BY <2>1, <2>2, <2>7, KeptInstall
    <2>8. CASE Gone(s, "close") /\ UNCHANGED <<builds, file, out, cut>>
      BY <2>2, <2>3, <2>8, KeptGone
    <2>9. QED
      BY <2>2, <2>4, <2>5, <2>6, <2>7, <2>8
  <1>6. QED
    BY <1>2, <1>3, <1>4, <1>5 DEF Work

LEMMA KeptEnter ==
    ASSUME Shape, Kept, NEW s \in Slots, NEW r, NEW force, NEW want, Enters(s, r, force, want)
    PROVE  Kept'
  <1>1. /\ SlotsFine /\ ops \in Nat /\ ops' = ops + 1 /\ m' = m /\ sc' = sc
        /\ UNCHANGED <<builds, file, out, cut>>
        /\ IsRequest(r) /\ Enter(s, r, force, want)
    BY OpsAssumption DEF Shape, Enters, bVars, diskVars
  <1> SUFFICES ASSUME Alone PROVE Kept'
    BY <1>1, CalmStays DEF Kept
  <1>2. /\ InPipeline = {} /\ slot'[s].pc = "fetch"
        /\ \A t \in Slots \ {s} : slot'[t] = slot[t]
    BY <1>1, EnterFine DEF Alone
  <1>3. InPipeline' \subseteq {s}
    BY <1>2 DEF InPipeline
  <1>4. "fetch" \notin {"name", "register"} \union Built /\ "fetch" \notin {"compile", "install", "finish"}
    BY DEF Built
  <1>5. (\A t \in InPipeline : Stage(slot[t], tree, objs, builds, out))'
    BY <1>2, <1>3, <1>4 DEF Stage
  <1>6. \A i \in DOMAIN file : ~Taken(i)
    BY <1>2 DEF Taken
  <1>7. QED
    BY <1>1, <1>5, <1>6 DEF Kept

LEMMA KeptDelete ==
    ASSUME Turn, Kept, NEW id \in DOMAIN builds, Delete(id), sc' = sc
    PROVE  Kept'
  <1> SUFFICES ASSUME Alone PROVE Kept'
    BY CalmStays DEF Kept
  <1>1. /\ builds' = Without(builds, id) /\ file' = builds' /\ out' = Without(out, id) /\ cut' = cut \ {id}
        /\ UNCHANGED <<tree, objs, slot>>
    BY DEF Delete, Save
  <1>2. /\ DOMAIN builds' = DOMAIN builds \ {id} /\ \A i \in DOMAIN builds' : builds'[i] = builds[i]
        /\ DOMAIN out' = DOMAIN out \ {id} /\ \A i \in DOMAIN out' : out'[i] = out[i]
    BY <1>1, WithoutFine
  <1>3. \A i \in DOMAIN builds' : AsRecorded(i, builds'[i], cut', out')
    <2>1. \A i \in DOMAIN builds : AsRecorded(i, builds[i], cut, out)
      BY DEF Kept
    <2>2. QED
      BY <1>1, <1>2, <2>1 DEF AsRecorded
  <1>4. ASSUME NEW s \in InPipeline PROVE Stage(slot[s], tree, objs, builds', out')
    <2>1. Stage(slot[s], tree, objs, builds, out)
      BY DEF Kept
    <2>2. QED
      BY <1>2, <2>1 DEF Stage
  <1>5. InPipeline' = InPipeline
    BY <1>1 DEF InPipeline
  <1>6. (\A s \in InPipeline : Stage(slot[s], tree, objs, builds, out))'
    BY <1>1, <1>4, <1>5
  <1>7. QED
    BY <1>1, <1>3, <1>6 DEF Kept

LEMMA KeptImport ==
    ASSUME Shape, Turn, Kept, NEW e \in Externals, NEW replace \in BOOLEAN, RegisterExternalBuild(e, replace),
           sc' = sc
    PROVE  Kept'
  <1> SUFFICES ASSUME Alone PROVE Kept'
    BY CalmStays DEF Kept
  <1>1. /\ builds' = Imported(builds, e) /\ file' = builds'
        /\ UNCHANGED <<tree, objs, slot, out, cut>>
    BY DEF RegisterExternalBuild, Save
  <1>2. /\ DOMAIN builds' = DOMAIN builds \union {ExtId(e)}
        /\ builds'[ExtId(e)] = ExternalEntry /\ ExternalEntry.own = FALSE
        /\ \A i \in DOMAIN builds \ {ExtId(e)} : builds'[i] = builds[i]
    BY <1>1, ImportedFine
  <1>3. ASSUME NEW i \in DOMAIN builds' PROVE AsRecorded(i, builds'[i], cut', out')
    <2>1. CASE i = ExtId(e)
      BY <1>2, <2>1 DEF AsRecorded
    <2>2. CASE i # ExtId(e)
      <3>1. AsRecorded(i, builds[i], cut, out) /\ builds'[i] = builds[i]
        BY <1>2, <2>2 DEF Kept
      <3>2. QED
        BY <1>1, <3>1
    <2>3. QED
      BY <2>1, <2>2
  <1>4. ASSUME NEW s \in InPipeline PROVE Stage(slot[s], tree, objs, builds', out)
    <2>1. Stage(slot[s], tree, objs, builds, out)
      BY DEF Kept
    <2>2. slot[s].pc = "finish" => slot[s].id # ExtId(e)
      BY OursIsNotTheirs DEF InPipeline, Built
    <2>3. QED
      BY <1>2, <2>1, <2>2 DEF Stage
  <1>5. InPipeline' = InPipeline
    BY <1>1 DEF InPipeline
  <1>6. (\A s \in InPipeline : Stage(slot[s], tree, objs, builds, out))'
    BY <1>1, <1>4, <1>5
  <1>7. QED
    BY <1>1, <1>3, <1>6 DEF Kept

LEMMA KeptRestart ==
    ASSUME Shape, Kept, Restart, sc' = sc
    PROVE  Kept'
  <1> SUFFICES ASSUME Alone PROVE Kept'
    BY CalmStays DEF Kept
  <1>1. /\ file' = builds' /\ cut' = cut \union {slot[s].id : s \in InPipeline}
        /\ \A s \in Slots : slot'[s] = Idle
        /\ \A i \in DOMAIN builds' :
             \/ i \in DOMAIN file /\ builds'[i] = file[i]
             \/ builds'[i] = ExternalEntry
    BY RestartIs
  <1>2. UNCHANGED <<tree, objs, out>>
    BY DEF Restart
  <1>3. ASSUME NEW i \in DOMAIN builds' PROVE AsRecorded(i, builds'[i], cut', out')
    <2>1. CASE builds'[i] = ExternalEntry
      <3>1. ExternalEntry.own = FALSE
        BY DEF ExternalEntry
      <3>2. QED
        BY <2>1, <3>1 DEF AsRecorded
    <2>2. CASE i \in DOMAIN file /\ builds'[i] = file[i]
      <3>1. CASE Taken(i)
        <4>1. i \in cut'
          BY <1>1, <3>1 DEF Taken
        <4>2. QED
          BY <4>1 DEF AsRecorded
      <3>2. CASE ~Taken(i)
        <4>1. AsRecorded(i, file[i], cut, out)
          BY <2>2, <3>2 DEF Kept
        <4>2. QED
          BY <1>1, <1>2, <2>2, <4>1 DEF AsRecorded
      <3>3. QED
        BY <3>1, <3>2
    <2>3. QED
      BY <1>1, <2>1, <2>2
  <1>4. InPipeline' = {}
    BY <1>1 DEF InPipeline, Idle
  <1>5. QED
    BY <1>1, <1>3, <1>4 DEF Kept

----------------------------------------------------------------------------
(* Builds at once that cannot take over each other's entries: what is      *)
(* listed as a success has its binary, whatever is compiled into it.       *)
Claims(b) == b.status = "success" /\ b.own
There == Careful =>
    /\ \A s \in InPipeline : slot[s].pc = "finish" => slot[s].id \in DOMAIN out
    /\ \A i \in DOMAIN builds : Claims(builds[i]) => i \in DOMAIN out
    /\ \A i \in DOMAIN file : Claims(file[i]) => i \in DOMAIN out

LEMMA ThereStays ==
    ASSUME There, sc' = sc,
           Careful => DOMAIN out \subseteq DOMAIN out',
           Careful => \A t \in InPipeline' : slot'[t].pc = "finish" =>
              \/ t \in InPipeline /\ slot[t].pc = "finish" /\ slot'[t].id = slot[t].id
              \/ slot'[t].id \in DOMAIN out',
           Careful => \A i \in DOMAIN builds' : Claims(builds'[i]) =>
              \/ i \in DOMAIN builds /\ builds'[i] = builds[i]
              \/ i \in DOMAIN file /\ builds'[i] = file[i]
              \/ i \in DOMAIN out',
           file' = file \/ file' = builds'
    PROVE  There'
  <1> SUFFICES ASSUME Careful PROVE There'
    BY CalmStays DEF There
  <1>1. \A t \in InPipeline' : slot'[t].pc = "finish" => slot'[t].id \in DOMAIN out'
    BY DEF There
  <1>2. \A i \in DOMAIN builds' : Claims(builds'[i]) => i \in DOMAIN out'
    BY DEF There
  <1>3. \A i \in DOMAIN file' : Claims(file'[i]) => i \in DOMAIN out'
    BY <1>2 DEF There
  <1>4. QED
    BY <1>1, <1>2, <1>3 DEF There, Claims

LEMMA ThereGoes ==
    ASSUME There, sc' = sc, NEW s \in Slots, NEW from,
           Gone(s, from) \/ \E to : Goes(s, from, to) /\ to # "finish",
           UNCHANGED <<builds, file, out>>
    PROVE  There'
  <1>1. \A t \in InPipeline' : slot'[t].pc = "finish" =>
             t \in InPipeline /\ slot[t].pc = "finish" /\ slot'[t].id = slot[t].id
    <2>1. CASE Gone(s, from)
      BY <2>1, Pipelines DEF Alike, InPipeline
    <2>2. ASSUME NEW to, Goes(s, from, to), to # "finish"
          PROVE  \A t \in InPipeline' : slot'[t].pc = "finish" =>
                    t \in InPipeline /\ slot[t].pc = "finish" /\ slot'[t].id = slot[t].id
      <3>1. slot'[s].pc # "finish"
        BY <2>2 DEF Goes
      <3>2. QED
        BY <2>2, <3>1, Pipelines DEF Alike, InPipeline
    <2>3. QED
      BY <2>1, <2>2
  <1>2. QED
    BY <1>1, ThereStays

LEMMA ThereWork ==
    ASSUME Shape, Turn, There, NEW s \in Slots, Work(s)
    PROVE  There'
  <1>1. SlotsFine
    BY DEF Shape
  <1>2. PICK id, prof : id = slot[s].id /\ prof = slot[s].req.prof
    OBVIOUS
  <1>3. CASE EnsureRepo(s) \/ CheckoutRef(s) \/ RevParse(s) \/ Name(s)
    <2>1. sc' = sc /\ UNCHANGED <<builds, file, out>>
      BY <1>1, <1>3, HandlerIs
    <2>2. PICK from \in {"fetch", "checkout", "sha", "name"} :
             Gone(s, from) \/ \E to \in {"checkout", "sha", "name", "register"} : Goes(s, from, to)
      BY <1>1, <1>3, HandlerIs
    <2>3. Gone(s, from) \/ \E to : Goes(s, from, to) /\ to # "finish"
      BY <2>2
    <2>4. QED
      BY <2>1, <2>3, ThereGoes
  <1>4. CASE Register(s)
    <2>1. /\ sc' = sc /\ UNCHANGED <<file>>
          /\ \/ Gone(s, "register") /\ UNCHANGED <<builds, out>>
             \/ /\ Goes(s, "register", "stream")
                /\ id \in DOMAIN builds => slot[s].force
                /\ DOMAIN builds' = DOMAIN builds \union {id}
                /\ builds'[id].status = "building"
                /\ \A i \in DOMAIN builds \ {id} : builds'[i] = builds[i]
                /\ id \notin DOMAIN builds => out' = out
      BY <1>1, <1>2, <1>4, RegisterIs
    <2>2. CASE Gone(s, "register") /\ UNCHANGED <<builds, out>>
      BY <2>1, <2>2, ThereGoes
    <2>3. CASE /\ Goes(s, "register", "stream")
               /\ id \in DOMAIN builds => slot[s].force
               /\ DOMAIN builds' = DOMAIN builds \union {id}
               /\ builds'[id].status = "building"
               /\ \A i \in DOMAIN builds \ {id} : builds'[i] = builds[i]
               /\ id \notin DOMAIN builds => out' = out
      <3>1. s \in InPipeline
        BY <2>3, Pipelines
      <3>2. Careful => out' = out
        BY <2>3, <3>1 DEF Turn
      <3>3. \A t \in InPipeline' : slot'[t].pc = "finish" =>
               t \in InPipeline /\ slot[t].pc = "finish" /\ slot'[t].id = slot[t].id
        <4>1. slot'[s].pc # "finish"
          BY <2>3 DEF Goes
        <4>2. QED
          BY <2>3, <4>1, Pipelines DEF Alike, InPipeline
      <3>4. \A i \in DOMAIN builds' : Claims(builds'[i]) => i \in DOMAIN builds /\ builds'[i] = builds[i]
        BY <2>3 DEF Claims
      <3>5. QED
        BY <2>1, <3>2, <3>3, <3>4, ThereStays
    <2>4. QED
      BY <2>1, <2>2, <2>3
  <1>5. CASE OpenStream(s)
    <2>1. sc' = sc /\ UNCHANGED <<builds, file, out>> /\ Goes(s, "stream", "configure")
      BY <1>1, <1>5, OpenStreamIs
    <2>2. \E to : Goes(s, "stream", to) /\ to # "finish"
      BY <2>1
    <2>3. QED
      BY <2>1, <2>2, ThereGoes
  <1>6. CASE RunCMake(s) \/ RunNinja(s) \/ Install(s) \/ Succeed(s) \/ Close(s)
    <2>1. /\ sc' = sc
          /\ \/ Ends(s, "failed")
             \/ Ends(s, "success")
             \/ Goes(s, "configure", "compile") /\ UNCHANGED <<builds, file, out>>
             \/ Goes(s, "compile", "install") /\ UNCHANGED <<builds, file, out>>
             \/ /\ Goes(s, "install", "finish")
                /\ DOMAIN out' = DOMAIN out \union {id}
                /\ UNCHANGED <<builds, file>>
             \/ Gone(s, "close") /\ UNCHANGED <<builds, file, out>>
      BY <1>2, <1>6, GoroutineIs
    <2>2. ASSUME NEW status \in {"failed", "success"}, Ends(s, status) PROVE There'
      <3>1. PICK from : Goes(s, from, "close") /\ (status = "success" => from = "finish")
        BY <2>2 DEF Ends
      <3>2. s \in InPipeline /\ slot[s].pc = from
        BY <3>1, Pipelines DEF Goes
      <3>3. \A t \in InPipeline' : slot'[t].pc = "finish" =>
               t \in InPipeline /\ slot[t].pc = "finish" /\ slot'[t].id = slot[t].id
        <4>1. slot'[s].pc # "finish"
          BY <3>1 DEF Goes
        <4>2. QED
          BY <3>1, <4>1, Pipelines DEF Alike, InPipeline
      <3>4. /\ DOMAIN builds' = DOMAIN builds /\ file' = builds' /\ out' = out
            /\ \A i \in DOMAIN builds : builds'[i] = IF i = id THEN Entry(s, status) ELSE builds[i]
        BY <1>2, <2>2 DEF Ends, Finished
      <3>5. Claims(Entry(s, status)) => status = "success"
        BY DEF Claims, Entry
      <3>6. Careful => \A i \in DOMAIN builds' : Claims(builds'[i]) =>
               (i \in DOMAIN builds /\ builds'[i] = builds[i]) \/ i \in DOMAIN out'
        BY <1>2, <3>1, <3>2, <3>4, <3>5 DEF There
      <3>7. QED
        BY <2>1, <3>3, <3>4, <3>6, ThereStays
    <2>3. CASE \/ Goes(s, "configure", "compile") /\ UNCHANGED <<builds, file, out>>
               \/ Goes(s, "compile", "install") /\ UNCHANGED <<builds, file, out>>
      <3>1. UNCHANGED <<builds, file, out>> /\ \E from, to : Goes(s, from, to) /\ to # "finish"
        BY <2>3
      <3>2. QED
        BY <2>1, <3>1, ThereGoes
    <2>4. CASE /\ Goes(s, "install", "finish")
               /\ DOMAIN out' = DOMAIN out \union {id}
               /\ UNCHANGED <<builds, file>>
      <3>1. slot'[s].id = id
        BY <1>2, <2>4 DEF Goes
      <3>2. \A t \in InPipeline' : slot'[t].pc = "finish" =>
               \/ t \in InPipeline /\ slot[t].pc = "finish" /\ slot'[t].id = slot[t].id
               \/ slot'[t].id \in DOMAIN out'
        BY <2>4, <3>1, Pipelines DEF Alike, InPipeline
      <3>3. QED
        BY <2>1, <2>4, <3>2, ThereStays
    <2>5. CASE Gone(s, "close") /\ UNCHANGED <<builds, file, out>>
      BY <2>1, <2>5, ThereGoes
    <2>6. QED
      BY <2>1, <2>2, <2>3, <2>4, <2>5
  <1>7. QED
    BY <1>3, <1>4, <1>5, <1>6 DEF Work

LEMMA ThereEnter ==
    ASSUME Shape, There, NEW s \in Slots, NEW r, NEW force, NEW want, Enters(s, r, force, want)
    PROVE  There'
  <1>1. /\ SlotsFine /\ ops \in Nat /\ ops' = ops + 1 /\ m' = m /\ sc' = sc
        /\ UNCHANGED <<builds, file, out>>
        /\ IsRequest(r) /\ Enter(s, r, force, want)
    BY OpsAssumption DEF Shape, Enters, bVars, diskVars
  <1>2. /\ slot'[s].pc = "fetch"
        /\ \A t \in Slots \ {s} : slot'[t] = slot[t]
    BY <1>1, EnterFine
  <1>3. \A t \in InPipeline' : slot'[t].pc = "finish" =>
           t \in InPipeline /\ slot[t].pc = "finish" /\ slot'[t].id = slot[t].id
    BY <1>2 DEF InPipeline
  <1>4. QED
    BY <1>1, <1>3, ThereStays

LEMMA ThereOthers ==
    ASSUME Shape, There, sc' = sc,
           \/ \E id \in DOMAIN builds : Delete(id)
           \/ \E e \in Externals, replace \in BOOLEAN : RegisterExternalBuild(e, replace)
           \/ Restart
           \/ UNCHANGED <<slot, builds, file, out>>
    PROVE  There'
  <1>1. CASE \E id \in DOMAIN builds : Delete(id)
    <2>1. ~Careful
      BY <1>1 DEF Careful, Delete, Does
    <2>2. QED
      BY <2>1, CalmStays DEF There
  <1>2. ASSUME NEW e \in Externals, NEW replace \in BOOLEAN, RegisterExternalBuild(e, replace)
        PROVE  There'
    <2>1. builds' = Imported(builds, e) /\ file' = builds' /\ UNCHANGED <<slot, out>>
      BY <1>2 DEF RegisterExternalBuild, Save
    <2>2. /\ DOMAIN builds' = DOMAIN builds \union {ExtId(e)}
          /\ builds'[ExtId(e)] = ExternalEntry /\ ExternalEntry.own = FALSE
          /\ \A i \in DOMAIN builds \ {ExtId(e)} : builds'[i] = builds[i]
      BY <2>1, ImportedFine
    <2>3. \A i \in DOMAIN builds' : Claims(builds'[i]) => i \in DOMAIN builds /\ builds'[i] = builds[i]
      BY <2>2 DEF Claims
    <2>4. InPipeline' = InPipeline
      BY <2>1 DEF InPipeline
    <2>5. QED
      BY <2>1, <2>3, <2>4, ThereStays
  <1>3. CASE Restart
    <2>1. /\ file' = builds' /\ \A s \in Slots : slot'[s] = Idle
          /\ \A i \in DOMAIN builds' :
               \/ i \in DOMAIN file /\ builds'[i] = file[i]
               \/ builds'[i] = ExternalEntry
      BY <1>3, RestartIs
    <2>2. out' = out /\ InPipeline' = {}
      BY <1>3, <2>1 DEF Restart, InPipeline, Idle
    <2>3. ~Claims(ExternalEntry)
      BY DEF Claims, ExternalEntry
    <2>4. \A i \in DOMAIN builds' : Claims(builds'[i]) => i \in DOMAIN file /\ builds'[i] = file[i]
      BY <2>1, <2>3
    <2>5. QED
      BY <2>1, <2>2, <2>4, ThereStays
  <1>4. CASE UNCHANGED <<slot, builds, file, out>>
    <2>1. InPipeline' = InPipeline
      BY <1>4 DEF InPipeline
    <2>2. QED
      BY <1>4, <2>1, ThereStays
  <1>5. QED
    BY <1>1, <1>2, <1>3, <1>4

----------------------------------------------------------------------------
(* The registered builds: listed, they are in the file, and successes.     *)
Imports == \A e \in Externals :
    /\ ExtId(e) \in DOMAIN builds => ExtId(e) \in DOMAIN file /\ builds[ExtId(e)].status = "success"
    /\ ExtId(e) \in DOMAIN file => file[ExtId(e)].status = "success"

Keeps == \A e \in Externals : ExtId(e) \in DOMAIN builds => ExtId(e) \in DOMAIN builds'

LEMMA ImportsWork ==
    ASSUME Shape, Imports, NEW s \in Slots, Work(s)
    PROVE  Imports' /\ Keeps
  <1>1. PICK id : id = slot[s].id
    OBVIOUS
  <1>2. \/ UNCHANGED <<builds, file>>
        \/ /\ slot[s].pc \in Built \union {"register"}
           /\ DOMAIN builds \subseteq DOMAIN builds' /\ DOMAIN builds' \subseteq DOMAIN builds \union {id}
           /\ \A i \in DOMAIN builds \ {id} : builds'[i] = builds[i]
           /\ file' = file \/ file' = builds'
    <2>1. SlotsFine
      BY DEF Shape
    <2>2. CASE EnsureRepo(s) \/ CheckoutRef(s) \/ RevParse(s) \/ Name(s)
      BY <2>1, <2>2, HandlerIs
    <2>3. CASE Register(s)
      <3>1. slot[s].pc = "register"
        BY <2>3 DEF Register, At
      <3>2. QED
        BY <1>1, <2>1, <2>3, <3>1, RegisterIs
    <2>4. CASE OpenStream(s)
      BY <2>1, <2>4, OpenStreamIs
    <2>5. CASE RunCMake(s) \/ RunNinja(s) \/ Install(s) \/ Succeed(s) \/ Close(s)
      <3>1. slot[s].pc \in Built
        BY <2>5, Zenon DEF RunCMake, RunNinja, Install, Succeed, Close, At, Built
      <3>2. Ends(s, "failed") \/ Ends(s, "success") \/ UNCHANGED <<builds, file>>
        BY <2>5, GoroutineIs
      <3>3. QED
        BY <1>1, <3>1, <3>2 DEF Ends, Finished
    <2>6. QED
      BY <2>2, <2>3, <2>4, <2>5 DEF Work
  <1>3. CASE UNCHANGED <<builds, file>>
    BY <1>3 DEF Imports, Keeps
  <1>4. CASE /\ slot[s].pc \in Built \union {"register"}
             /\ DOMAIN builds \subseteq DOMAIN builds' /\ DOMAIN builds' \subseteq DOMAIN builds \union {id}
             /\ \A i \in DOMAIN builds \ {id} : builds'[i] = builds[i]
             /\ file' = file \/ file' = builds'
    <2>1. \A e \in Externals : ExtId(e) # id
      BY <1>1, <1>4, OursIsNotTheirs
    <2>2. \A e \in Externals : ExtId(e) \in DOMAIN builds' <=> ExtId(e) \in DOMAIN builds
      BY <1>4, <2>1
    <2>3. \A e \in Externals : ExtId(e) \in DOMAIN builds => builds'[ExtId(e)] = builds[ExtId(e)]
      BY <1>4, <2>1
    <2>4. QED
      BY <1>4, <2>2, <2>3 DEF Imports, Keeps
  <1>5. QED
    BY <1>2, <1>3, <1>4

LEMMA ImportsOthers ==
    ASSUME Imports
    PROVE  /\ UNCHANGED <<builds, file>> => Imports' /\ Keeps
           /\ \A id \in DOMAIN builds : Delete(id) => Imports'
           /\ \A e \in Externals, replace \in BOOLEAN : RegisterExternalBuild(e, replace) => Imports' /\ Keeps
           /\ Restart => Imports' /\ Keeps
  <1>1. UNCHANGED <<builds, file>> => Imports' /\ Keeps
    BY DEF Imports, Keeps
  <1>2. ASSUME NEW id \in DOMAIN builds, Delete(id) PROVE Imports'
    <2>1. builds' = Without(builds, id) /\ file' = builds'
      BY <1>2 DEF Delete, Save
    <2>2. DOMAIN builds' = DOMAIN builds \ {id} /\ \A i \in DOMAIN builds' : builds'[i] = builds[i]
      BY <2>1, WithoutFine
    <2>3. QED
      BY <2>1, <2>2 DEF Imports
  <1>3. ASSUME NEW e \in Externals, NEW replace \in BOOLEAN, RegisterExternalBuild(e, replace)
        PROVE  Imports' /\ Keeps
    <2>1. builds' = Imported(builds, e) /\ file' = builds'
      BY <1>3 DEF RegisterExternalBuild, Save
    <2>2. /\ DOMAIN builds' = DOMAIN builds \union {ExtId(e)}
          /\ builds'[ExtId(e)] = ExternalEntry /\ ExternalEntry.status = "success"
          /\ \A i \in DOMAIN builds \ {ExtId(e)} : builds'[i] = builds[i]
      BY <2>1, ImportedFine
    <2>3. QED
      BY <2>1, <2>2 DEF Imports, Keeps
  <1>4. ASSUME Restart PROVE Imports' /\ Keeps
    <2>1. /\ file' = builds'
          /\ \A i \in DOMAIN file : file[i].status # "building" => i \in DOMAIN builds' /\ builds'[i] = file[i]
          /\ \A i \in DOMAIN builds' :
               \/ i \in DOMAIN file /\ builds'[i] = file[i]
               \/ builds'[i] = ExternalEntry
      BY <1>4, RestartIs
    <2>2. ExternalEntry.status = "success"
      BY DEF ExternalEntry
    <2>3. Keeps
      BY <2>1 DEF Imports, Keeps
    <2>4. Imports'
      BY <2>1, <2>2 DEF Imports
    <2>5. QED
      BY <2>3, <2>4
  <1>5. QED
    BY <1>1, <1>2, <1>3, <1>4

----------------------------------------------------------------------------
(* The log streams and the pages that follow them.                         *)
Streaming == Built \ {"stream"}

(* A stream is the one of the build with its number, while that one runs.  *)
Streams ==
    /\ \A i \in DOMAIN stream : stream[i] \in Nat /\ stream[i] < ops
    /\ \A s \in InPipeline, i \in DOMAIN stream :
         slot[s].n = stream[i] => slot[s].id = i /\ slot[s].pc \in Streaming
    /\ Calm => \A s \in InPipeline :
         slot[s].pc \in Streaming => slot[s].id \in DOMAIN stream /\ stream[slot[s].id] = slot[s].n

Follows(s, g) ==
    /\ slot[s].n = g.of /\ slot[s].id = g.id /\ slot[s].pc \in Built
    /\ ~g.raw => slot[s].pc # "stream"
Followed ==
    /\ page = [p \in Pages |-> page[p]]
    /\ Calm => \A p \in Pages : page[p] # NoPage /\ ~page[p].late => \E s \in InPipeline : Follows(s, page[p])

LEMMA FollowedTold == Followed => PageIsTold
  BY DEF Followed, PageIsTold, Calm, Alone, Follows, Live

(* A slot that goes on, for what the streams and the pages read of it.     *)
LEMMA StreamsGoes ==
    ASSUME Streams, UNCHANGED <<sc, ops, stream>>, NEW s \in Slots, NEW from, NEW to, Goes(s, from, to),
           from \in Streaming <=> to \in Streaming, from = "name" => from \notin Streaming
    PROVE  Streams'
  <1>1. s \in InPipeline /\ \A t \in InPipeline' : t \in InPipeline /\ (t = s \/ Alike(t))
    BY Pipelines
  <1>2. /\ slot[s].pc = from /\ slot'[s].pc = to /\ slot'[s].n = slot[s].n
        /\ from \in Streaming => slot'[s].id = slot[s].id
    BY DEF Goes
  <1>3. \A t \in InPipeline' :
           /\ slot'[t].n = slot[t].n
           /\ slot'[t].pc \in Streaming <=> slot[t].pc \in Streaming
           /\ slot[t].pc \in Streaming => slot'[t].id = slot[t].id
    BY <1>1, <1>2 DEF Alike, InPipeline
  <1>4. \A t \in InPipeline', i \in DOMAIN stream' :
           slot'[t].n = stream'[i] => slot'[t].id = i /\ slot'[t].pc \in Streaming
    BY <1>1, <1>3 DEF Streams
  <1>5. Calm => \A t \in InPipeline' :
           slot'[t].pc \in Streaming => slot'[t].id \in DOMAIN stream' /\ stream'[slot'[t].id] = slot'[t].n
    BY <1>1, <1>3 DEF Streams
  <1>6. \A i \in DOMAIN stream' : stream'[i] \in Nat /\ stream'[i] < ops'
    BY DEF Streams
  <1>7. Calm' = Calm
    BY CalmStays
  <1>8. QED
    BY <1>4, <1>5, <1>6, <1>7 DEF Streams

LEMMA StreamsGone ==
    ASSUME Streams, UNCHANGED <<sc, ops, stream>>, NEW s \in Slots, NEW from, Gone(s, from)
    PROVE  Streams'
  <1>1. \A t \in InPipeline' : t \in InPipeline /\ t # s /\ Alike(t)
    BY Pipelines
  <1>2. \A t \in InPipeline' : /\ slot'[t].n = slot[t].n /\ slot'[t].pc = slot[t].pc /\ slot'[t].id = slot[t].id
    BY <1>1 DEF Alike, InPipeline
  <1>3. Calm' = Calm
    BY CalmStays
  <1>4. QED
    BY <1>1, <1>2, <1>3 DEF Streams

LEMMA StreamsOpen ==
    ASSUME Shape, Turn, Streams, UNCHANGED <<sc, ops>>, NEW s \in Slots, Goes(s, "stream", "configure"),
           NEW id, id = slot[s].id,
           DOMAIN stream' = DOMAIN stream \union {id}, stream'[id] = slot[s].n,
           \A i \in DOMAIN stream \ {id} : stream'[i] = stream[i]
    PROVE  Streams'
  <1>1. s \in InPipeline /\ \A t \in InPipeline' : t \in InPipeline /\ (t = s \/ Alike(t))
    BY Pipelines
  <1>2. /\ slot[s].pc = "stream" /\ slot'[s].pc = "configure" /\ slot'[s].n = slot[s].n
        /\ slot'[s].id = id
    BY DEF Goes
  <1>3. "configure" \in Streaming /\ "stream" \notin Streaming /\ "stream" \in Built /\ Streaming \subseteq Built
    BY DEF Streaming, Built
  <1>4. slot[s].n \in Nat /\ slot[s].n < ops
    BY <1>1 DEF Shape, SlotsFine, InPipeline, Idle, SlotFine, SlotIs
  <1>5. \A t \in InPipeline' : t # s =>
           slot'[t].n = slot[t].n /\ slot'[t].pc = slot[t].pc /\ slot'[t].id = slot[t].id /\ slot[t].n # slot[s].n
    BY <1>1 DEF Alike, InPipeline, Shape, SlotsFine
  <1>6. ASSUME NEW t \in InPipeline', NEW i \in DOMAIN stream', slot'[t].n = stream'[i]
        PROVE  slot'[t].id = i /\ slot'[t].pc \in Streaming
    <2>1. CASE t = s /\ i = id
      BY <1>2, <1>3, <2>1
    <2>2. CASE t = s /\ i # id
      <3>1. slot[s].n = stream[i] /\ i \in DOMAIN stream
        BY <1>2, <1>6, <2>2
      <3>2. QED
        BY <1>1, <1>2, <1>3, <3>1 DEF Streams
    <2>3. CASE t # s /\ i = id
      BY <1>5, <1>6, <2>3
    <2>4. CASE t # s /\ i # id
      <3>1. slot[t].n = stream[i] /\ i \in DOMAIN stream
        BY <1>5, <1>6, <2>4
      <3>2. QED
        BY <1>1, <1>5, <2>4, <3>1 DEF Streams
    <2>5. QED
      BY <2>1, <2>2, <2>3, <2>4
  <1>7. ASSUME Calm, NEW t \in InPipeline', slot'[t].pc \in Streaming
        PROVE  slot'[t].id \in DOMAIN stream' /\ stream'[slot'[t].id] = slot'[t].n
    <2>1. CASE t = s
      BY <1>2, <2>1
    <2>2. CASE t # s
      <3>1. slot[t].pc \in Streaming /\ slot[t].id \in DOMAIN stream /\ stream[slot[t].id] = slot[t].n
        BY <1>1, <1>5, <1>7, <2>2 DEF Streams
      <3>2. slot[t].id # id
        BY <1>1, <1>2, <1>3, <1>7, <2>2, <3>1 DEF Turn
      <3>3. QED
        BY <1>5, <2>2, <3>1, <3>2
    <2>3. QED
      BY <2>1, <2>2
  <1>8. \A i \in DOMAIN stream' : stream'[i] \in Nat /\ stream'[i] < ops'
    BY <1>4 DEF Streams
  <1>9. Calm' = Calm
    BY CalmStays
  <1>10. QED
    BY <1>6, <1>7, <1>8, <1>9 DEF Streams

LEMMA FollowedGoes ==
    ASSUME Followed, UNCHANGED <<sc, page>>, NEW s \in Slots, NEW from, NEW to, Goes(s, from, to),
           from \in Built => to \in Streaming, from # "name" \/ from \notin Built
    PROVE  Followed'
  <1>1. /\ slot[s].pc = from /\ slot'[s].pc = to /\ slot'[s].n = slot[s].n /\ to # "idle"
        /\ from \in Built => slot'[s].id = slot[s].id
        /\ \A t \in Slots \ {s} : Alike(t)
    BY DEF Goes
  <1>2. "stream" \notin Streaming /\ Streaming \subseteq Built
    BY DEF Streaming
  <1>3. ASSUME NEW g, NEW t \in InPipeline, Follows(t, g) PROVE t \in InPipeline' /\ Follows(t, g)'
    <2>1. CASE t = s
      BY <1>1, <1>2, <1>3, <2>1 DEF Follows, InPipeline
    <2>2. CASE t # s
      BY <1>1, <1>3, <2>2 DEF Follows, InPipeline, Alike
    <2>3. QED
      BY <2>1, <2>2
  <1>4. Calm' = Calm
    BY CalmStays
  <1>5. ASSUME Calm, NEW p \in Pages, page[p] # NoPage, ~page[p].late
        PROVE  \E t \in InPipeline' : Follows(t, page[p])'
    <2>1. PICK g : g = page[p]
      OBVIOUS
    <2>2. PICK t \in InPipeline : Follows(t, g)
      BY <1>5, <2>1 DEF Followed
    <2>3. t \in InPipeline' /\ Follows(t, g)'
      BY <1>3, <2>2
    <2>4. QED
      BY <2>1, <2>3 DEF Follows
  <1>6. QED
    BY <1>4, <1>5 DEF Followed

LEMMA FollowedLeft ==
    ASSUME Followed, UNCHANGED <<sc, page>>, NEW s \in Slots, NEW from, from \notin Built, Gone(s, from)
    PROVE  Followed'
  <1>1. /\ slot[s].pc = from /\ \A t \in Slots \ {s} : Alike(t)
    BY DEF Gone
  <1>2. ASSUME NEW g, NEW t \in InPipeline, Follows(t, g) PROVE t \in InPipeline' /\ Follows(t, g)'
    <2>1. t # s
      BY <1>1, <1>2 DEF Follows
    <2>2. QED
      BY <1>1, <1>2, <2>1 DEF Follows, InPipeline, Alike
  <1>3. Calm' = Calm
    BY CalmStays
  <1>4. ASSUME Calm, NEW p \in Pages, page[p] # NoPage, ~page[p].late
        PROVE  \E t \in InPipeline' : Follows(t, page[p])'
    <2>1. PICK g : g = page[p]
      OBVIOUS
    <2>2. PICK t \in InPipeline : Follows(t, g)
      BY <1>4, <2>1 DEF Followed
    <2>3. t \in InPipeline' /\ Follows(t, g)'
      BY <1>2, <2>2
    <2>4. QED
      BY <2>1, <2>3 DEF Follows
  <1>5. QED
    BY <1>3, <1>4 DEF Followed

(* The end of a build is told to whoever follows it.                       *)
LEMMA FollowedClose ==
    ASSUME Streams, Followed, sc' = sc, NEW s \in Slots, Gone(s, "close"),
           page' = [p \in Pages |-> IF Closed(s, p) THEN NoPage ELSE page[p]]
    PROVE  Followed'
  <1>1. /\ slot[s].pc = "close" /\ \A t \in Slots \ {s} : Alike(t)
    BY DEF Gone
  <1>2. s \in InPipeline /\ "close" \in Streaming
    BY <1>1 DEF InPipeline, Streaming, Built
  <1>3. ASSUME Calm, NEW p \in Pages, page'[p] # NoPage, ~page'[p].late
        PROVE  \E t \in InPipeline' : Follows(t, page[p])'
    <2>1. page'[p] = page[p] /\ ~Closed(s, p)
      BY <1>3
    <2>2. PICK t \in InPipeline : Follows(t, page[p])
      BY <1>3, <2>1 DEF Followed
    <2>3. t # s
      <3>1. SUFFICES ASSUME t = s PROVE Closed(s, p)
        BY <2>1
      <3>2. slot[s].id \in DOMAIN stream /\ stream[slot[s].id] = slot[s].n
        BY <1>1, <1>2, <1>3 DEF Streams
      <3>3. slot[s].n = page[p].of /\ slot[s].id = page[p].id
        BY <2>2, <3>1 DEF Follows
      <3>4. QED
        BY <1>3, <2>1, <3>2, <3>3 DEF Closed
    <2>4. Alike(t) /\ slot[t].pc # "idle"
      BY <1>1, <2>3 DEF InPipeline
    <2>5. QED
      BY <2>1, <2>2, <2>4 DEF Follows, Alike, InPipeline
  <1>4. Calm' = Calm
    BY CalmStays
  <1>5. page' = [p \in Pages |-> page'[p]]
    OBVIOUS
  <1>6. QED
    BY <1>3, <1>4, <1>5 DEF Followed

LEMMA PagesWork ==
    ASSUME Shape, Turn, Streams, Followed, NEW s \in Slots, Work(s)
    PROVE  Streams' /\ Followed'
  <1>1. SlotsFine
    BY DEF Shape
  <1>b. /\ Streaming = {"configure", "compile", "install", "finish", "close"}
        /\ Built = {"stream", "configure", "compile", "install", "finish", "close"}
    BY DEF Built, Streaming
  <1>2. CASE EnsureRepo(s) \/ CheckoutRef(s) \/ RevParse(s) \/ Name(s)
    <2>1. UNCHANGED <<sc, ops, stream, page>>
      BY <1>1, <1>2, HandlerIs
    <2>2. PICK from \in {"fetch", "checkout", "sha", "name"} :
             Gone(s, from) \/ \E to \in {"checkout", "sha", "name", "register"} : Goes(s, from, to)
      BY <1>1, <1>2, HandlerIs
    <2>3. from \notin Built /\ from \notin Streaming
      BY <1>b
    <2>4. CASE Gone(s, from)
      BY <2>1, <2>3, <2>4, StreamsGone, FollowedLeft
    <2>5. ASSUME NEW to \in {"checkout", "sha", "name", "register"}, Goes(s, from, to)
          PROVE  Streams' /\ Followed'
      <3>1. to \notin Streaming
        BY <1>b
      <3>2. QED
        BY <2>1, <2>3, <2>5, <3>1, StreamsGoes, FollowedGoes
    <2>6. QED
      BY <2>2, <2>4, <2>5
  <1>3. CASE Register(s)
    <2>1. /\ UNCHANGED <<sc, ops, stream, page>>
          /\ Gone(s, "register") \/ Goes(s, "register", "stream")
      BY <1>1, <1>3, RegisterIs
    <2>2. "register" \notin Built /\ "register" \notin Streaming /\ "stream" \notin Streaming
      BY <1>b
    <2>3. CASE Gone(s, "register")
      BY <2>1, <2>2, <2>3, StreamsGone, FollowedLeft
    <2>4. CASE Goes(s, "register", "stream")
      BY <2>1, <2>2, <2>4, StreamsGoes, FollowedGoes
    <2>5. QED
      BY <2>1, <2>3, <2>4
  <1>4. CASE OpenStream(s)
    <2>1. PICK id : id = slot[s].id
      OBVIOUS
    <2>2. /\ UNCHANGED <<sc, ops, page>> /\ Goes(s, "stream", "configure")
          /\ DOMAIN stream' = DOMAIN stream \union {id} /\ stream'[id] = slot[s].n
          /\ \A i \in DOMAIN stream \ {id} : stream'[i] = stream[i]
      BY <1>1, <1>4, <2>1, OpenStreamIs
    <2>3. Streams'
      BY <2>1, <2>2, StreamsOpen
    <2>4. "configure" \in Streaming
      BY <1>b
    <2>5. QED
      BY <2>2, <2>3, <2>4, FollowedGoes
  <1>5. CASE RunCMake(s) \/ RunNinja(s) \/ Install(s) \/ Succeed(s) \/ Close(s)
    <2>1. /\ UNCHANGED <<sc, ops, stream>>
          /\ \/ /\ \E from \in {"configure", "compile", "install", "finish"},
                      to \in {"compile", "install", "finish", "close"} : Goes(s, from, to)
                /\ page' = page
             \/ /\ Gone(s, "close")
                /\ page' = [p \in Pages |-> IF Closed(s, p) THEN NoPage ELSE page[p]]
      <3>1. /\ UNCHANGED <<sc, ops, stream>>
            /\ \/ Ends(s, "failed")
               \/ Ends(s, "success")
               \/ Goes(s, "configure", "compile") /\ page' = page
               \/ Goes(s, "compile", "install") /\ page' = page
               \/ Goes(s, "install", "finish") /\ page' = page
               \/ /\ Gone(s, "close")
                  /\ page' = [p \in Pages |-> IF Closed(s, p) THEN NoPage ELSE page[p]]
        BY <1>5, GoroutineIs
      <3>2. CASE Ends(s, "failed") \/ Ends(s, "success")
        <4>1. page' = page /\ \E from \in {"configure", "compile", "install", "finish"} : Goes(s, from, "close")
          BY <3>2 DEF Ends
        <4>2. QED
          BY <3>1, <4>1
      <3>3. QED
        BY <3>1, <3>2
    <2>2. ASSUME NEW from \in {"configure", "compile", "install", "finish"},
                 NEW to \in {"compile", "install", "finish", "close"}, Goes(s, from, to), page' = page
          PROVE  Streams' /\ Followed'
      <3>1. from \in Streaming /\ to \in Streaming /\ from # "name"
        BY <1>b
      <3>2. QED
        BY <2>1, <2>2, <3>1, StreamsGoes, FollowedGoes
    <2>3. CASE /\ Gone(s, "close")
               /\ page' = [p \in Pages |-> IF Closed(s, p) THEN NoPage ELSE page[p]]
      BY <2>1, <2>3, StreamsGone, FollowedClose
    <2>4. QED
      BY <2>1, <2>2, <2>3
  <1>6. QED
    BY <1>2, <1>3, <1>4, <1>5 DEF Work

LEMMA PagesEnter ==
    ASSUME Shape, Streams, Followed, NEW s \in Slots, NEW r, NEW force, NEW want, Enters(s, r, force, want)
    PROVE  Streams' /\ Followed'
  <1>1. /\ SlotsFine /\ ops \in Nat /\ ops' = ops + 1 /\ m' = m /\ sc' = sc
        /\ UNCHANGED <<stream, page>>
        /\ IsRequest(r) /\ Enter(s, r, force, want)
    BY OpsAssumption DEF Shape, Enters
  <1>2. /\ slot[s] = Idle /\ slot'[s].pc = "fetch" /\ slot'[s].n = ops
        /\ \A t \in Slots \ {s} : slot'[t] = slot[t]
    BY <1>1, EnterFine
  <1>3. s \notin InPipeline /\ "fetch" \notin Streaming
    BY <1>2 DEF InPipeline, Idle, Streaming, Built
  <1>4. /\ \A t \in InPipeline' : t = s \/ (t \in InPipeline /\ slot'[t] = slot[t])
        /\ \A t \in InPipeline : t \in InPipeline' /\ slot'[t] = slot[t]
    BY <1>2, <1>3 DEF InPipeline
  <1>5. Calm' = Calm
    BY <1>1, CalmStays
  <1>6. \A i \in DOMAIN stream' : stream'[i] \in Nat /\ stream'[i] < ops' /\ stream'[i] # ops
    BY <1>1 DEF Streams
  <1>7. \A t \in InPipeline', i \in DOMAIN stream' :
           slot'[t].n = stream'[i] => slot'[t].id = i /\ slot'[t].pc \in Streaming
    BY <1>1, <1>2, <1>4, <1>6 DEF Streams
  <1>8. Calm => \A t \in InPipeline' :
           slot'[t].pc \in Streaming => slot'[t].id \in DOMAIN stream' /\ stream'[slot'[t].id] = slot'[t].n
    BY <1>1, <1>2, <1>3, <1>4 DEF Streams
  <1>9. Streams'
    BY <1>5, <1>6, <1>7, <1>8 DEF Streams
  <1>10. ASSUME NEW g, NEW t \in InPipeline, Follows(t, g) PROVE t \in InPipeline' /\ Follows(t, g)'
    BY <1>4, <1>10 DEF Follows
  <1>11. ASSUME Calm, NEW p \in Pages, page[p] # NoPage, ~page[p].late
        PROVE  \E t \in InPipeline' : Follows(t, page[p])'
    <2>1. PICK t \in InPipeline : Follows(t, page[p])
      BY <1>11 DEF Followed
    <2>2. QED
      BY <1>1, <1>4, <2>1 DEF Follows
  <1>12. Followed'
    BY <1>1, <1>5, <1>11 DEF Followed
  <1>13. QED
    BY <1>9, <1>12

LEMMA StreamsKept ==
    ASSUME Streams, ops \in Nat, ops' \in Nat, ops <= ops', sc' = sc, UNCHANGED <<slot, stream>>
    PROVE  Streams'
  <1>1. InPipeline' = InPipeline
    BY DEF InPipeline
  <1>2. Calm' = Calm
    BY CalmStays
  <1>3. QED
    BY <1>1, <1>2 DEF Streams

LEMMA FollowedKept ==
    ASSUME Followed, UNCHANGED <<sc, slot>>,
           page' = [p \in Pages |-> page'[p]],
           \A p \in Pages : \/ page'[p] = page[p]
                            \/ page'[p] = NoPage
                            \/ page'[p].late
                            \/ \E s \in InPipeline : Follows(s, page'[p])
    PROVE  Followed'
  <1>1. InPipeline' = InPipeline
    BY DEF InPipeline
  <1>2. Calm' = Calm
    BY CalmStays
  <1>3. ASSUME Calm, NEW p \in Pages, page'[p] # NoPage, ~page'[p].late
        PROVE  \E s \in InPipeline : Follows(s, page'[p])
    BY <1>3 DEF Followed
  <1>4. \A s, g : Follows(s, g)' <=> Follows(s, g')
    BY DEF Follows
  <1>5. (\A p \in Pages : page[p] # NoPage /\ ~page[p].late /\ Calm => \E s \in InPipeline : Follows(s, page[p]))'
    BY <1>1, <1>2, <1>3 DEF Follows
  <1>6. QED
    BY <1>5 DEF Followed

LEMMA PageWatch ==
    ASSUME Streams, Followed, UNCHANGED <<sc, slot, stream>>, NEW p \in Pages,
           UnsubscribeLogs(p) \/ \E id \in DOMAIN builds : SubscribeLogs(p, id)
    PROVE  Followed'
  <1>1. page = [q \in Pages |-> page[q]]
    BY DEF Followed
  <1>2. CASE UnsubscribeLogs(p)
    BY <1>1, <1>2, FollowedKept DEF UnsubscribeLogs
  <1>3. ASSUME NEW id \in DOMAIN builds, SubscribeLogs(p, id) PROVE Followed'
    <2>1. CASE /\ id \in DOMAIN stream
               /\ page' = [page EXCEPT ![p] = [id |-> id, of |-> stream[id], raw |-> FALSE, late |-> ~Live(stream[id])]]
      <3>1. PICK g : g = [id |-> id, of |-> stream[id], raw |-> FALSE, late |-> ~Live(stream[id])]
        OBVIOUS
      <3>2. page' = [q \in Pages |-> page'[q]] /\ page'[p] = g /\ \A q \in Pages \ {p} : page'[q] = page[q]
        BY <1>1, <2>1, <3>1
      <3>3. g.late \/ \E s \in InPipeline : Follows(s, g)
        <4>1. SUFFICES ASSUME ~g.late PROVE \E s \in InPipeline : Follows(s, g)
          OBVIOUS
        <4>2. PICK s \in InPipeline : slot[s].n = stream[id]
          BY <3>1, <4>1 DEF Live
        <4>3. slot[s].id = id /\ slot[s].pc \in Streaming
          BY <2>1, <4>2 DEF Streams
        <4>4. g.of = stream[id] /\ g.id = id /\ g.raw = FALSE
          BY <3>1
        <4>5. QED
          BY <4>2, <4>3, <4>4 DEF Follows, Streaming
      <3>4. QED
        BY <3>2, <3>3, FollowedKept
    <2>2. ASSUME NEW s \in InPipeline, slot[s].pc = "stream", slot[s].id = id,
                 page' = [page EXCEPT ![p] = [id |-> id, of |-> slot[s].n, raw |-> TRUE, late |-> FALSE]]
          PROVE  Followed'
      <3>1. PICK g : g = [id |-> id, of |-> slot[s].n, raw |-> TRUE, late |-> FALSE]
        OBVIOUS
      <3>2. page' = [q \in Pages |-> page'[q]] /\ page'[p] = g /\ \A q \in Pages \ {p} : page'[q] = page[q]
        BY <1>1, <2>2, <3>1
      <3>3. Follows(s, g)
        <4>1. g.of = slot[s].n /\ g.id = id /\ g.raw = TRUE
          BY <3>1
        <4>2. QED
          BY <2>2, <4>1 DEF Follows, Built
      <3>4. QED
        BY <3>2, <3>3, FollowedKept
    <2>3. QED
      BY <1>3, <2>1, <2>2 DEF SubscribeLogs
  <1>4. QED
    BY <1>2, <1>3

LEMMA PagesRestart ==
    ASSUME Restart
    PROVE  Streams' /\ Followed'
  <1>1. InPipeline' = {}
    BY RestartIs DEF InPipeline, Idle
  <1>2. stream' = <<>> /\ page' = [p \in Pages |-> NoPage]
    BY DEF Restart
  <1>3. Streams'
    BY <1>1, <1>2 DEF Streams
  <1>4. Followed'
    BY <1>2 DEF Followed
  <1>5. QED
    BY <1>3, <1>4

----------------------------------------------------------------------------
(* All of it, over every step.                                             *)
BuilderInv == Shape /\ Turn /\ Kept /\ There /\ Imports /\ Streams /\ Followed

LEMMA InitInv == BuilderInit => BuilderInv
  <1> SUFFICES ASSUME BuilderInit PROVE BuilderInv
    OBVIOUS
  <1>1. /\ InPipeline = {} /\ DOMAIN builds = {} /\ DOMAIN file = {} /\ DOMAIN stream = {}
        /\ page = [p \in Pages |-> NoPage]
    BY DEF BuilderInit, InPipeline, Idle
  <1>2. Turn /\ Kept /\ There /\ Imports
    BY <1>1 DEF Turn, Kept, There, Imports
  <1>3. Streams /\ Followed
    BY <1>1 DEF Streams, Followed
  <1>4. QED
    BY <1>2, <1>3, InitShape DEF BuilderInv

LEMMA NextInv ==
    ASSUME BuilderInv, [BuilderNext]_builderVars
    PROVE  BuilderInv' /\ (Keeps \/ \E id \in DOMAIN builds : Delete(id))
  <1>1. Shape /\ Turn /\ Kept /\ There /\ Imports /\ Streams /\ Followed /\ Shape'
    BY NextShape DEF BuilderInv
  <1>2. ops \in 0 .. MaxOps /\ ops \in Nat
    BY <1>1, OpsAssumption DEF Shape
  <1>3. ASSUME NEW s \in Slots, Work(s) PROVE BuilderInv' /\ Keeps
    <2>1. Turn' /\ Kept' /\ There' /\ Imports' /\ Keeps /\ Streams' /\ Followed'
      BY <1>1, <1>3, TurnWork, KeptWork, ThereWork, ImportsWork, PagesWork
    <2>2. QED
      BY <1>1, <2>1 DEF BuilderInv
  <1>4. ASSUME NEW s \in Slots, \/ Rebuild(s)
                                \/ \E r \in Requests : Trigger(s, r) \/ TriggerForce(s, r)
                                \/ \E n \in Names, ref \in Refs : BuildFromSet(s, n, ref)
        PROVE  BuilderInv' /\ Keeps
    <2>1. PICK r, force, want : Enters(s, r, force, want)
      BY <1>1, <1>4, RebuildEnters, TriggerEnters, FromSetEnters
    <2>2. Turn' /\ Kept' /\ There' /\ Streams' /\ Followed'
      BY <1>1, <2>1, TurnEnter, KeptEnter, ThereEnter, PagesEnter
    <2>3. UNCHANGED <<builds, file>>
      BY <2>1 DEF Enters, bVars, diskVars
    <2>4. Imports' /\ Keeps
      BY <1>1, <2>3, ImportsOthers
    <2>5. QED
      BY <1>1, <2>2, <2>4 DEF BuilderInv
  <1>5. ASSUME NEW id \in DOMAIN builds, Delete(id) PROVE BuilderInv'
    <2>1. /\ UNCHANGED <<sc, m>> /\ ops' = ops + 1 /\ ops' \in 0 .. MaxOps /\ ops' \in Nat /\ ops <= ops'
          /\ "delete" \in sc
      BY <1>2, <1>5, DoesOne DEF Delete
    <2>2. UNCHANGED <<slot, stream, page>>
      BY <1>5 DEF Delete, uiVars
    <2>3. DOMAIN builds' = DOMAIN builds \ {id} /\ \A i \in DOMAIN builds' : builds'[i] = builds[i]
      BY <1>5, WithoutFine DEF Delete, Save
    <2>4. ~Careful
      BY <2>1 DEF Careful
    <2>5. Turn'
      BY <1>1, <2>1, <2>2, <2>3, <2>4, TurnListed
    <2>6. Kept' /\ There' /\ Imports'
      BY <1>1, <1>5, <2>1, KeptDelete, ThereOthers, ImportsOthers
    <2>7. Streams'
      BY <1>1, <1>2, <2>1, <2>2, StreamsKept
    <2>8. Followed'
      <3>1. page' = [p \in Pages |-> page'[p]]
        BY <1>1, <2>2 DEF Followed
      <3>2. QED
        BY <1>1, <2>1, <2>2, <3>1, FollowedKept
    <2>9. QED
      BY <1>1, <2>5, <2>6, <2>7, <2>8 DEF BuilderInv
  <1>6. ASSUME NEW e \in Externals, NEW replace \in BOOLEAN, RegisterExternalBuild(e, replace)
        PROVE  BuilderInv' /\ Keeps
    <2>1. /\ UNCHANGED <<sc, m>> /\ ops' = ops + 1 /\ ops' \in 0 .. MaxOps /\ ops' \in Nat /\ ops <= ops'
      BY <1>2, <1>6, DoesOne DEF RegisterExternalBuild
    <2>2. UNCHANGED <<slot, stream, page>>
      BY <1>6 DEF RegisterExternalBuild, uiVars
    <2>3. builds' = Imported(builds, e)
      BY <1>6 DEF RegisterExternalBuild, Save
    <2>4. DOMAIN builds' = DOMAIN builds \union {ExtId(e)}
          /\ \A i \in DOMAIN builds \ {ExtId(e)} : builds'[i] = builds[i]
      BY <2>3, ImportedFine
    <2>5. Turn'
      BY <1>1, <2>1, <2>2, <2>4, TurnListed
    <2>6. Kept' /\ There' /\ Imports' /\ Keeps
      BY <1>1, <1>6, <2>1, KeptImport, ThereOthers, ImportsOthers
    <2>7. Streams'
      BY <1>1, <1>2, <2>1, <2>2, StreamsKept
    <2>8. Followed'
      <3>1. page' = [p \in Pages |-> page'[p]]
        BY <1>1, <2>2 DEF Followed
      <3>2. QED
        BY <1>1, <2>1, <2>2, <3>1, FollowedKept
    <2>9. QED
      BY <1>1, <2>5, <2>6, <2>7, <2>8 DEF BuilderInv
  <1>7. ASSUME Restart PROVE BuilderInv' /\ Keeps
    <2>1. sc' = sc
      BY <1>2, <1>7, DoesOne DEF Restart
    <2>2. Turn' /\ Kept' /\ There' /\ Imports' /\ Keeps /\ Streams' /\ Followed'
      BY <1>1, <1>7, <2>1, TurnRestart, KeptRestart, ThereOthers, ImportsOthers, PagesRestart
    <2>3. QED
      BY <1>1, <2>2 DEF BuilderInv
  <1>8. ASSUME UNCHANGED <<sc, bVars, cut, slot, stream>>, ops' \in Nat, ops <= ops', Followed'
        PROVE  BuilderInv' /\ Keeps
    <2>1. UNCHANGED <<builds, file, tree, objs, out, cut, slot>>
      BY <1>8 DEF bVars, diskVars
    <2>2. Turn'
      BY <1>1, <1>8, <2>1, TurnListed
    <2>3. Kept'
      <3>1. InPipeline' = InPipeline /\ Alone' = Alone
        BY <1>8, CalmStays DEF InPipeline
      <3>2. QED
        BY <1>1, <2>1, <3>1 DEF Kept, Taken
    <2>4. There' /\ Imports' /\ Keeps
      BY <1>1, <1>8, <2>1, ThereOthers, ImportsOthers
    <2>5. Streams'
      BY <1>1, <1>2, <1>8, StreamsKept
    <2>6. QED
      BY <1>1, <1>8, <2>2, <2>3, <2>4, <2>5 DEF BuilderInv
  <1>9. ASSUME NEW p \in Pages, UnsubscribeLogs(p) \/ \E id \in DOMAIN builds : SubscribeLogs(p, id)
        PROVE  BuilderInv' /\ Keeps
    <2>1. UNCHANGED <<bVars, cut, slot, stream>>
      BY <1>9 DEF UnsubscribeLogs, SubscribeLogs
    <2>2. sc' = sc /\ ops' \in Nat /\ ops <= ops'
      <3>1. CASE UnsubscribeLogs(p)
        BY <1>2, <3>1 DEF UnsubscribeLogs
      <3>2. CASE \E id \in DOMAIN builds : SubscribeLogs(p, id)
        <4>1. Does("watch")
          BY <3>2 DEF SubscribeLogs
        <4>2. QED
          BY <1>2, <4>1, DoesOne
      <3>3. QED
        BY <1>9, <3>1, <3>2
    <2>3. Followed'
      BY <1>1, <1>9, <2>1, <2>2, PageWatch
    <2>4. QED
      BY <1>8, <2>1, <2>2, <2>3
  <1>10. ASSUME NEW n \in Names, DeleteFlagPreset(n) \/ \E r \in Requests : SaveFlagPreset(n, r)
         PROVE  BuilderInv' /\ Keeps
    <2>1. UNCHANGED <<bVars, cut, slot, stream, page>> /\ Does("sets")
      BY <1>10 DEF DeleteFlagPreset, SaveFlagPreset
    <2>2. sc' = sc /\ ops' \in Nat /\ ops <= ops'
      BY <1>2, <2>1, DoesOne
    <2>3. Followed'
      <3>1. page' = [p \in Pages |-> page'[p]]
        BY <1>1, <2>1 DEF Followed
      <3>2. QED
        BY <1>1, <2>1, <2>2, <3>1, FollowedKept
    <2>4. QED
      BY <1>8, <2>1, <2>2, <2>3
  <1>11. ASSUME UNCHANGED builderVars PROVE BuilderInv' /\ Keeps
    <2>1. UNCHANGED <<sc, bVars, cut, slot, stream, page>> /\ ops' \in Nat /\ ops <= ops'
      BY <1>2, <1>11 DEF builderVars, uiVars
    <2>2. Followed'
      <3>1. page' = [p \in Pages |-> page'[p]]
        BY <1>1, <2>1 DEF Followed
      <3>2. QED
        BY <1>1, <2>1, <3>1, FollowedKept
    <2>3. QED
      BY <1>8, <2>1, <2>2
  <1>12. QED
    BY <1>3, <1>4, <1>5, <1>6, <1>7, <1>9, <1>10, <1>11 DEF BuilderNext

(* The inductive invariant: whose turn it is when builds do not overlap,   *)
(* what an entry promises of the disk, the registered builds with the file *)
(* of builds, and the log streams with the pages that follow them.         *)
THEOREM BuilderInvariance == BuilderSpec => []BuilderInv
  BY InitInv, NextInv, PTL DEF BuilderSpec

LEMMA ListedAsBuilt == BuilderInv => BuildsAreAsListed
  <1> SUFFICES ASSUME BuilderInv PROVE BuildsAreAsListed
    OBVIOUS
  <1>1. BuilderTypeOK
    <2>1. /\ \A i \in DOMAIN builds : builds[i].status \in Statuses
          /\ \A i \in DOMAIN file : file[i].status \in Statuses
          /\ \A i \in DOMAIN out : out[i].src \subseteq Refs
      BY DEF BuilderInv, Shape, IsEntry, IsBin
    <2>2. \A s \in Slots : slot[s].pc \in Built \union {"idle", "fetch", "checkout", "sha", "name", "register"}
      BY DEF BuilderInv, Shape, SlotsFine, SlotFine, SlotIs, SlotPCs, Idle
    <2>3. QED
      BY <2>1, <2>2 DEF BuilderInv, Shape, BuilderTypeOK, Statuses
  <1>2. BuiltAsRecorded
    BY DEF BuilderInv, Kept, AsRecorded, Alone, BuiltAsRecorded, Successful
  <1>3. LaunchableIsThere
    <2>1. ASSUME NEW active, NEW i \in Resolve(active), builds[i].own, i \notin cut,
                 "overlap" \in sc => Careful
          PROVE  i \in DOMAIN out
      <3>1. i \in DOMAIN builds /\ builds[i].status = "success"
        BY <2>1 DEF Resolve, Successful
      <3>2. CASE Alone
        BY <2>1, <3>1, <3>2 DEF BuilderInv, Kept, AsRecorded
      <3>3. CASE Careful
        BY <2>1, <3>1, <3>3 DEF BuilderInv, There, Claims
      <3>4. QED
        BY <2>1, <3>2, <3>3 DEF Alone
    <2>2. QED
      BY <2>1 DEF LaunchableIsThere
  <1>4. QED
    BY <1>1, <1>2, <1>3 DEF BuildsAreAsListed

(* What is listed as built is there, and was built as it says:             *)
(* BuildsAreAsListed.                                                      *)
THEOREM BuildsListed == BuilderSpec => []BuildsAreAsListed
  BY BuilderInvariance, ListedAsBuilt, PTL

LEMMA InvTold == BuilderInv => PageIsTold
  BY FollowedTold DEF BuilderInv

(* A page that follows a running build is told when it ends: PageIsTold.   *)
THEOREM PagesTold == BuilderSpec => []PageIsTold
  BY BuilderInvariance, InvTold, PTL

LEMMA StepKeeps ==
    ASSUME BuilderInv, [BuilderNext]_builderVars
    PROVE  [\A e \in Externals : ExtId(e) \in DOMAIN builds /\ ExtId(e) \notin DOMAIN builds'
              => "delete" \in sc /\ ops' = ops + 1]_builderVars
  <1>1. CASE Keeps
    BY <1>1 DEF Keeps
  <1>2. CASE \E id \in DOMAIN builds : Delete(id)
    BY <1>2 DEF Delete, Does
  <1>3. QED
    BY <1>1, <1>2, NextInv

(* A registered build stays listed until it is deleted: ImportIsKept.      *)
THEOREM ImportsKept == BuilderSpec => ImportIsKept
  BY BuilderInvariance, StepKeeps, PTL DEF BuilderSpec, ImportIsKept
=============================================================================
