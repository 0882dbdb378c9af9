---------------------------- MODULE AnswerProofs ----------------------------
(***************************************************************************)
(* The proof that a client which was heard gets the whole answer, through  *)
(* two relays that each close both directions at the end of either, and    *)
(* that every step of such a connection brings it nearer to its end.       *)
(***************************************************************************)
EXTENDS BridgeProofs

----------------------------------------------------------------------------
(* What a direction has lost: what was sent and is neither received nor on *)
(* its way.                                                                *)

Size(d, i) == Len(wire[Chan(d, i)])
Held(d, i) == IF Carries(Party(d, i), d) THEN 1 ELSE 0
UnderWay(d) == Size(d, 1) + Held(d, 1) + Size(d, 2) + Held(d, 2) + Size(d, 3)
Loss(d) == sent[d] - (Len(got[d]) + UnderWay(d))

\* All of these are numbers.
LEMMA Numbers ==
  ASSUME TypeOK, NEW d \in Direction
  PROVE  /\ \A i \in 1..3 : Size(d, i) \in Nat
         /\ \A i \in 1..2 : Held(d, i) \in 0..1
         /\ sent[d] \in Nat /\ Len(got[d]) \in Nat /\ Loss(d) \in Int
<1>1. \A i \in 1..3 : Size(d, i) \in Nat
  BY Neighbours DEF TypeOK, Size
<1>2. \A i \in 1..2 : Held(d, i) \in 0..1
  BY DEF Held
<1>3. sent[d] \in Nat /\ Len(got[d]) \in Nat
  BY DEF TypeOK
<1>4. UnderWay(d) \in Int
  BY ONLY <1>1, <1>2 DEF UnderWay
<1> QED
  BY ONLY <1>1, <1>2, <1>3, <1>4 DEF Loss

\* After a step as well.
LEMMA NumbersThen ==
  ASSUME TypeOK', NEW d \in Direction
  PROVE  /\ \A i \in 1..3 : Size(d, i)' \in Nat
         /\ \A i \in 1..2 : Held(d, i)' \in 0..1
         /\ sent'[d] \in Nat /\ Len(got'[d]) \in Nat /\ Loss(d)' \in Int
<1>1. \A i \in 1..3 : Size(d, i)' \in Nat
  BY Neighbours DEF TypeOK, Size
<1>2. \A i \in 1..2 : Held(d, i)' \in 0..1
  BY DEF Held
<1>3. sent'[d] \in Nat /\ Len(got'[d]) \in Nat
  BY DEF TypeOK
<1>4. UnderWay(d)' \in Int
  BY ONLY <1>1, <1>2 DEF UnderWay
<1> QED
  BY ONLY <1>1, <1>2, <1>3, <1>4 DEF Loss

\* Where nothing moves on, a direction loses exactly what is no longer on its way.
LEMMA LossGrows ==
  ASSUME TypeOK, TypeOK', NEW d \in Direction, sent'[d] = sent[d], got'[d] = got[d],
         \A i \in 1..3 : Size(d, i)' <= Size(d, i),
         \A i \in 1..2 : Held(d, i)' <= Held(d, i)
  PROVE  /\ Loss(d)' >= Loss(d)
         /\ Loss(d)' = Loss(d) <=>
              /\ \A i \in 1..3 : Size(d, i)' = Size(d, i)
              /\ \A i \in 1..2 : Held(d, i)' = Held(d, i)
<1>1. /\ Size(d, 1) \in Nat /\ Size(d, 2) \in Nat /\ Size(d, 3) \in Nat
      /\ Held(d, 1) \in Nat /\ Held(d, 2) \in Nat /\ sent[d] \in Nat /\ Len(got[d]) \in Nat
  BY Numbers
<1>2. /\ Size(d, 1)' \in Nat /\ Size(d, 2)' \in Nat /\ Size(d, 3)' \in Nat
      /\ Held(d, 1)' \in Nat /\ Held(d, 2)' \in Nat
  BY NumbersThen
<1>3. /\ Size(d, 1)' <= Size(d, 1) /\ Size(d, 2)' <= Size(d, 2) /\ Size(d, 3)' <= Size(d, 3)
      /\ Held(d, 1)' <= Held(d, 1) /\ Held(d, 2)' <= Held(d, 2)
  OBVIOUS
<1> DEFINE before == Loss(d)  after == Loss(d)'  total == sent[d]  had == Len(got[d])
           a1 == Size(d, 1)  a2 == Held(d, 1)  a3 == Size(d, 2)  a4 == Held(d, 2)  a5 == Size(d, 3)
           b1 == Size(d, 1)'  b2 == Held(d, 1)'  b3 == Size(d, 2)'  b4 == Held(d, 2)'  b5 == Size(d, 3)'
<1>4. before = total - (had + (a1 + a2 + a3 + a4 + a5))
  BY DEF Loss, UnderWay
<1>5. after = total - (had + (b1 + b2 + b3 + b4 + b5))
  BY DEF Loss, UnderWay
<1>6. /\ Loss(d)' >= Loss(d)
      /\ Loss(d)' = Loss(d) <=>
           /\ Size(d, 1)' = Size(d, 1) /\ Held(d, 1)' = Held(d, 1) /\ Size(d, 2)' = Size(d, 2)
           /\ Held(d, 2)' = Held(d, 2) /\ Size(d, 3)' = Size(d, 3)
  <2>1. /\ total \in Nat /\ had \in Nat
        /\ a1 \in Nat /\ a2 \in Nat /\ a3 \in Nat /\ a4 \in Nat /\ a5 \in Nat
        /\ b1 \in Nat /\ b2 \in Nat /\ b3 \in Nat /\ b4 \in Nat /\ b5 \in Nat
    BY <1>1, <1>2
  <2>2. b1 <= a1 /\ b2 <= a2 /\ b3 <= a3 /\ b4 <= a4 /\ b5 <= a5
    BY <1>3
  <2> HIDE DEF before, after, total, had, a1, a2, a3, a4, a5, b1, b2, b3, b4, b5
  <2>3. /\ after >= before
        /\ after = before <=> b1 = a1 /\ b2 = a2 /\ b3 = a3 /\ b4 = a4 /\ b5 = a5
    BY <1>4, <1>5, <2>1, <2>2
  <2> QED
    BY <2>3 DEF before, after, total, had, a1, a2, a3, a4, a5, b1, b2, b3, b4, b5
<1>8. /\ (\A i \in 1..3 : Size(d, i)' = Size(d, i)) <=>
            Size(d, 1)' = Size(d, 1) /\ Size(d, 2)' = Size(d, 2) /\ Size(d, 3)' = Size(d, 3)
      /\ (\A i \in 1..2 : Held(d, i)' = Held(d, i)) <=>
            Held(d, 1)' = Held(d, 1) /\ Held(d, 2)' = Held(d, 2)
  <2>1. \A i \in 1..3 : i = 1 \/ i = 2 \/ i = 3
    OBVIOUS
  <2>2. \A i \in 1..2 : i = 1 \/ i = 2
    OBVIOUS
  <2> QED
    BY <2>1, <2>2
<1> QED
  BY <1>6, <1>8

\* A direction whose channels and hands are left alone loses nothing.
LEMMA SameLosesNothing ==
  ASSUME TypeOK, TypeOK', NEW d \in Direction, sent'[d] = sent[d], got'[d] = got[d],
         \A c \in Channel : c[2] = d => wire'[c] = wire[c],
         \A i \in 1..2 : Carries(Party(d, i), d)' = Carries(Party(d, i), d)
  PROVE  Loss(d)' = Loss(d)
<1>1. \A i \in 1..3 : Size(d, i)' = Size(d, i) /\ Size(d, i) \in Nat
  BY Neighbours, Numbers DEF Size
<1>2. \A i \in 1..2 : Held(d, i)' = Held(d, i) /\ Held(d, i) \in 0..1
  BY Numbers DEF Held
<1> QED
  BY <1>1, <1>2, LossGrows

\* The account of a step: what was sent and received, and what each place on the
\* path has more than before.
LEMMA Balance ==
  ASSUME TypeOK, TypeOK', NEW d \in Direction
  PROVE  Loss(d)' = Loss(d) + (sent'[d] - sent[d]) - (Len(got'[d]) - Len(got[d]))
                    - ((Size(d, 1)' - Size(d, 1)) + (Held(d, 1)' - Held(d, 1))
                       + (Size(d, 2)' - Size(d, 2)) + (Held(d, 2)' - Held(d, 2))
                       + (Size(d, 3)' - Size(d, 3)))
<1> DEFINE before == Loss(d)  after == Loss(d)'
           s1 == sent[d]  s2 == sent'[d]  g1 == Len(got[d])  g2 == Len(got'[d])
           a1 == Size(d, 1)  a2 == Held(d, 1)  a3 == Size(d, 2)  a4 == Held(d, 2)  a5 == Size(d, 3)
           b1 == Size(d, 1)'  b2 == Held(d, 1)'  b3 == Size(d, 2)'  b4 == Held(d, 2)'  b5 == Size(d, 3)'
<1>1. /\ a1 \in Nat /\ a2 \in Nat /\ a3 \in Nat /\ a4 \in Nat /\ a5 \in Nat
      /\ s1 \in Nat /\ g1 \in Nat
  BY Numbers
<1>2. /\ b1 \in Nat /\ b2 \in Nat /\ b3 \in Nat /\ b4 \in Nat /\ b5 \in Nat
      /\ s2 \in Nat /\ g2 \in Nat
  BY NumbersThen
<1>3. before = s1 - (g1 + (a1 + a2 + a3 + a4 + a5))
  BY DEF Loss, UnderWay
<1>4. after = s2 - (g2 + (b1 + b2 + b3 + b4 + b5))
  BY DEF Loss, UnderWay
<1> HIDE DEF before, after, s1, s2, g1, g2, a1, a2, a3, a4, a5, b1, b2, b3, b4, b5
<1>5. after = before + (s2 - s1) - (g2 - g1)
              - ((b1 - a1) + (b2 - a2) + (b3 - a3) + (b4 - a4) + (b5 - a5))
  BY <1>1, <1>2, <1>3, <1>4
<1> QED
  BY <1>5 DEF before, after, s1, s2, g1, g2, a1, a2, a3, a4, a5, b1, b2, b3, b4, b5

\* A channel or a hand that is left alone.
LEMMA Alone ==
  ASSUME TypeOK, NEW d \in Direction
  PROVE  /\ \A i \in 1..3 : wire'[Chan(d, i)] = wire[Chan(d, i)] => Size(d, i)' - Size(d, i) = 0
         /\ \A i \in 1..2 : Carries(Party(d, i), d)' = Carries(Party(d, i), d) =>
              Held(d, i)' - Held(d, i) = 0
<1>1. \A i \in 1..3 : wire'[Chan(d, i)] = wire[Chan(d, i)] => Size(d, i)' - Size(d, i) = 0
  <2> SUFFICES ASSUME NEW i \in 1..3, wire'[Chan(d, i)] = wire[Chan(d, i)]
               PROVE  Size(d, i)' - Size(d, i) = 0
    OBVIOUS
  <2>1. Size(d, i)' = Size(d, i) /\ Size(d, i) \in Nat
    BY Numbers DEF Size
  <2> QED
    BY <2>1
<1>2. \A i \in 1..2 : Carries(Party(d, i), d)' = Carries(Party(d, i), d) =>
        Held(d, i)' - Held(d, i) = 0
  BY DEF Held
<1> QED
  BY <1>1, <1>2

----------------------------------------------------------------------------
(* What the operations on sockets lose.                                    *)

\* Sending loses at most the way back, or the element itself, and neither where
\* there is somebody to receive it.
LEMMA PutSizes ==
  ASSUME TypeOK, NEW d \in Direction, NEW i \in 1..3, NEW element \in 1..MaxSent,
         Put(Chan(d, i), element)
  PROVE  /\ Receiver(Chan(d, i)) \notin closed => Size(d, i)' - Size(d, i) = 1
         /\ Receiver(Chan(d, i)) \in closed => Size(d, i)' - Size(d, i) = 0
         /\ \A c \in Channel : c # Chan(d, i) =>
              /\ Len(wire'[c]) <= Len(wire[c])
              /\ Receiver(Chan(d, i)) \notin closed \/ c # Reverse(Chan(d, i)) => wire'[c] = wire[c]
<1> DEFINE k == Chan(d, i)
<1>1. k \in Channel /\ k # Reverse(k) /\ wire \in Wires
  BY Neighbours, Ends, TypeParts DEF WiresFit
<1>2. \A c \in Channel : Len(wire[c]) \in Nat
  BY <1>1 DEF Wires
<1> HIDE DEF k
<1>3. /\ Receiver(k) \notin closed => wire' = [wire EXCEPT ![k] = Append(wire[k], element)]
      /\ Receiver(k) \in closed =>
            \A c \in Channel :
              Prefix(wire[c], wire'[c]) /\ (c # Reverse(k) => wire'[c] = wire[c])
  BY <1>1, PutLeaves DEF k
<1>4. CASE Receiver(k) \in closed
  <2>1. \A c \in Channel : Len(wire'[c]) <= Len(wire[c]) /\ (c # Reverse(k) => wire'[c] = wire[c])
    BY <1>3, <1>4 DEF Prefix
  <2>2. Len(wire'[k]) - Len(wire[k]) = 0
    BY <1>1, <1>2, <2>1
  <2> QED
    BY <1>4, <2>1, <2>2 DEF k, Size
<1>5. CASE Receiver(k) \notin closed
  <2>1. wire'[k] = Append(wire[k], element) /\ \A c \in Channel : c # k => wire'[c] = wire[c]
    BY <1>1, <1>3, <1>5 DEF Wires
  <2>2. Len(Append(wire[k], element)) = Len(wire[k]) + 1
    BY <1>1 DEF Wires
  <2>3. Len(wire'[k]) - Len(wire[k]) = 1
    BY <1>1, <1>2, <2>1, <2>2
  <2>4. \A c \in Channel : c # k => Len(wire'[c]) <= Len(wire[c])
    BY <1>2, <2>1
  <2> QED
    BY <1>5, <2>1, <2>3, <2>4 DEF k, Size
<1> QED
  BY <1>4, <1>5

\* Receiving makes a channel one element shorter.
LEMMA TakeSizes ==
  ASSUME TypeOK, NEW d \in Direction, NEW i \in 1..3, Takes(Chan(d, i))
  PROVE  /\ Size(d, i)' - Size(d, i) = -1
         /\ \A c \in Channel : c # Chan(d, i) => wire'[c] = wire[c]
<1> DEFINE k == Chan(d, i)
<1>1. k \in Channel /\ wire \in Wires
  BY Neighbours, TypeParts DEF WiresFit
<1>2. Len(wire[k]) \in Nat
  BY <1>1 DEF Wires
<1> HIDE DEF k
<1>3. Len(wire'[k]) = Len(wire[k]) - 1 /\ \A c \in Channel : c # k => wire'[c] = wire[c]
  BY <1>1, TakeLeaves DEF Takes, k
<1>4. Len(wire'[k]) - Len(wire[k]) = -1
  BY <1>2, <1>3
<1> QED
  BY <1>3, <1>4 DEF k, Size

----------------------------------------------------------------------------
(* What a step loses.                                                      *)

\* The channels of one direction are not those of the other.
LEMMA Apart ==
  ASSUME NEW d \in Direction, NEW i \in 1..3
  PROVE  /\ \A e \in Direction, j \in 1..3 : e # d \/ j # i => Chan(e, j) # Chan(d, i)
         /\ \A j \in 1..3 : Chan(d, j) # Reverse(Chan(d, i))
BY DEF Direction, Chan, Reverse, Opposite

\* A peer that sends loses what it sends where nobody receives it, and nothing
\* otherwise.
LEMMA SendLoses ==
  ASSUME TypeOK, TypeOK', NEW p \in Peers, Send(p), NEW d \in Direction
  PROVE  /\ Loss(d)' >= Loss(d)
         /\ Receiver(Speech(p)) \notin closed => Loss(d)' = Loss(d)
         /\ Receiver(Speech(p)) \in closed /\ d = Speech(p)[2] => Loss(d)' > Loss(d)
<1> DEFINE e == Speech(p)[2]  element == sent'[e]
<1>0. e \in Direction /\ Speech(p) = Chan(e, 1)
  BY PeerPlaces
<1>1. /\ sent[e] \in Nat /\ sent[d] \in Nat /\ Len(got[d]) \in Nat
      /\ Loss(d) \in Int /\ Loss(d)' \in Int
  BY <1>0, Numbers, NumbersThen
<1>2. /\ element = sent[e] + 1 /\ element \in 1..MaxSent /\ Put(Chan(e, 1), element)
      /\ got' = got /\ UNCHANGED bridgeVars /\ (d # e => sent'[d] = sent[d])
  <2>1. sent \in [Direction -> 0..MaxSent] /\ sent[e] < MaxSent
    BY <1>0 DEF Send, TypeOK
  <2>2. sent' = [sent EXCEPT ![e] = sent[e] + 1]
    BY DEF Send
  <2>3. element = sent[e] + 1 /\ (d # e => sent'[d] = sent[d])
    BY <1>0, <2>1, <2>2
  <2>4. element \in 1..MaxSent
    BY <1>0, <2>1, <2>3, BridgeAssumption
  <2> QED
    BY <1>0, <2>3, <2>4 DEF Send
<1> HIDE DEF element
<1>3. /\ Receiver(Chan(e, 1)) \notin closed => Size(e, 1)' - Size(e, 1) = 1
      /\ Receiver(Chan(e, 1)) \in closed => Size(e, 1)' - Size(e, 1) = 0
      /\ \A c \in Channel : c # Chan(e, 1) =>
              /\ Len(wire'[c]) <= Len(wire[c])
              /\ Receiver(Chan(e, 1)) \notin closed \/ c # Reverse(Chan(e, 1)) => wire'[c] = wire[c]
  BY <1>0, <1>2, PutSizes
<1>4. \A i \in 1..2 : Carries(Party(d, i), d)' = Carries(Party(d, i), d)
  BY <1>2 DEF Carries, Serving, bridgeVars
<1>5. CASE d = e
  <2>1. \A i \in 2..3 : wire'[Chan(d, i)] = wire[Chan(d, i)]
    BY <1>0, <1>3, <1>5, Apart, Neighbours
  <2>2. Size(d, 2)' - Size(d, 2) = 0 /\ Size(d, 3)' - Size(d, 3) = 0
        /\ Held(d, 1)' - Held(d, 1) = 0 /\ Held(d, 2)' - Held(d, 2) = 0
    <3>1. /\ \A i \in 1..3 : wire'[Chan(d, i)] = wire[Chan(d, i)] => Size(d, i)' - Size(d, i) = 0
          /\ \A i \in 1..2 : Carries(Party(d, i), d)' = Carries(Party(d, i), d) =>
                Held(d, i)' - Held(d, i) = 0
      BY <1>0, Alone
    <3>2. 2 \in 2..3 /\ 3 \in 2..3 /\ 2 \in 1..3 /\ 3 \in 1..3 /\ 1 \in 1..2 /\ 2 \in 1..2
      OBVIOUS
    <3> QED
      BY ONLY <2>1, <1>4, <3>1, <3>2, Zenon
  <2>3. sent'[d] - sent[d] = 1 /\ Len(got'[d]) - Len(got[d]) = 0
    <3>1. sent'[d] = sent[d] + 1 /\ got'[d] = got[d]
      BY <1>2, <1>5 DEF element
    <3>2. sent[d] \in Nat /\ Len(got[d]) \in Nat
      BY <1>1
    <3> QED
      BY ONLY <3>1, <3>2
  <2>4. Loss(d)' = Loss(d) + 1 - 0 - ((Size(d, 1)' - Size(d, 1)) + 0 + 0 + 0 + 0)
    BY <2>2, <2>3, Balance
  <2>5. CASE Receiver(Chan(e, 1)) \in closed
    <3>1. Loss(d)' = Loss(d) + 1 - 0 - (0 + 0 + 0 + 0 + 0)
      BY <1>3, <1>5, <2>4, <2>5
    <3> QED
      BY <1>0, <1>1, <2>5, <3>1
  <2>6. CASE Receiver(Chan(e, 1)) \notin closed
    <3>1. Loss(d)' = Loss(d) + 1 - 0 - (1 + 0 + 0 + 0 + 0)
      BY <1>3, <1>5, <2>4, <2>6
    <3> QED
      BY <1>0, <1>1, <2>6, <3>1
  <2> QED
    BY <2>5, <2>6
<1>6. CASE d # e
  <2>1. \A i \in 1..3 : Chan(d, i) \in Channel /\ Chan(d, i) # Chan(e, 1)
    BY <1>0, <1>6, Apart, Neighbours
  <2>2. \A i \in 1..3 : Size(d, i)' <= Size(d, i)
    BY <1>3, <2>1 DEF Size
  <2>3. \A i \in 1..2 : Held(d, i)' = Held(d, i) /\ Held(d, i) \in 0..1
    BY <1>4, Numbers DEF Held
  <2>4. Loss(d)' >= Loss(d)
        /\ ((\A i \in 1..3 : Size(d, i)' = Size(d, i)) => Loss(d)' = Loss(d))
    BY <1>2, <1>6, <2>2, <2>3, LossGrows
  <2>5. Receiver(Chan(e, 1)) \notin closed => \A i \in 1..3 : Size(d, i)' = Size(d, i)
    BY <1>3, <2>1 DEF Size
  <2> QED
    BY <1>0, <1>6, <2>4, <2>5
<1> QED
  BY <1>5, <1>6

\* A peer that receives loses nothing.
LEMMA HearsLoses ==
  ASSUME TypeOK, TypeOK', NEW p \in Peers, Hears(p), NEW d \in Direction
  PROVE  Loss(d)' = Loss(d)
<1> DEFINE e == Hearing(p)[2]
<1>0. e \in Direction /\ Hearing(p) = Chan(e, 3)
  BY PeerPlaces
<1>1. /\ sent[d] \in Nat /\ Loss(d) \in Int /\ Loss(d)' \in Int
  BY Numbers, NumbersThen
<1>2. /\ Takes(Chan(e, 3)) /\ sent' = sent /\ UNCHANGED bridgeVars
      /\ got' = [got EXCEPT ![e] = Append(got[e], Head(wire[Chan(e, 3)]))]
  BY <1>0 DEF Hears, Takes
<1>3. /\ Size(e, 3)' - Size(e, 3) = -1
      /\ \A c \in Channel : c # Chan(e, 3) => wire'[c] = wire[c]
  BY <1>0, <1>2, TakeSizes
<1>4. \A i \in 1..2 : Carries(Party(d, i), d)' = Carries(Party(d, i), d)
  BY <1>2 DEF Carries, Serving, bridgeVars
<1>5. CASE d = e
  <2>1. \A i \in 1..2 : wire'[Chan(d, i)] = wire[Chan(d, i)]
    BY <1>0, <1>3, <1>5, Apart, Neighbours
  <2>2. Size(d, 1)' - Size(d, 1) = 0 /\ Size(d, 2)' - Size(d, 2) = 0
        /\ Held(d, 1)' - Held(d, 1) = 0 /\ Held(d, 2)' - Held(d, 2) = 0
    BY <2>1, <1>4, Alone
  <2>3. Len(got'[d]) - Len(got[d]) = 1 /\ sent'[d] - sent[d] = 0
    <3>1. got[d] \in Seq(1..MaxSent) /\ Len(got[d]) \in Nat /\ got \in [Direction -> Seq(1..MaxSent)]
      BY DEF TypeOK
    <3>2. got'[d] = Append(got[d], Head(wire[Chan(e, 3)]))
      BY <1>2, <1>5, <3>1
    <3>3. Len(got'[d]) = Len(got[d]) + 1
      BY <3>1, <3>2
    <3> QED
      BY <1>1, <1>2, <3>1, <3>3
  <2>4. Loss(d)' = Loss(d) + 0 - 1 - (0 + 0 + 0 + 0 + (-1))
    BY <1>3, <1>5, <2>2, <2>3, Balance
  <2> QED
    BY <1>1, <2>4
<1>6. CASE d # e
  <2>1. \A c \in Channel : c[2] = d => wire'[c] = wire[c]
    BY <1>0, <1>3, <1>6, Neighbours
  <2>2. got'[d] = got[d]
    BY <1>2, <1>6 DEF TypeOK
  <2> QED
    BY <1>2, <1>4, <2>1, <2>2, SameLosesNothing
<1> QED
  BY <1>5, <1>6

\* So does a bridge that receives data.
LEMMA ReceiveLoses ==
  ASSUME TypeOK, TypeOK', NEW b \in Bridges, NEW e \in Direction, e = Serving(b),
         Receive(b), wire[SourceOf(b, e)] # <<>>, NEW d \in Direction
  PROVE  Loss(d)' = Loss(d)
<1> DEFINE i == Party(e, b)
<1>0. i \in 1..2 /\ Party(e, i) = b /\ SourceOf(b, e) = Chan(e, i)
  BY BridgePlaces
<1>1. sent[d] \in Nat /\ Len(got[d]) \in Nat /\ Loss(d) \in Int /\ Loss(d)' \in Int
  BY Numbers, NumbersThen
<1> HIDE DEF i
<1>2. /\ Takes(Chan(e, i)) /\ sent' = sent /\ got' = got /\ todo' = todo
      /\ pc[b] = "recv" /\ pc'[b] = "sendall" /\ \A j \in Bridges : j # b => pc'[j] = pc[j]
  BY <1>0 DEF Receive, Takes, peerVars, TypeOK
<1>3. /\ Size(e, i)' - Size(e, i) = -1
      /\ \A c \in Channel : c # Chan(e, i) => wire'[c] = wire[c]
  BY <1>0, <1>2, TakeSizes
<1>4. \A j \in 1..2 : Party(d, j) \in Bridges /\ (d # e \/ j # i =>
        Carries(Party(d, j), d)' = Carries(Party(d, j), d))
  <2>1. \A j \in 1..2 : Party(d, j) \in Bridges /\ (d = e /\ j # i => Party(d, j) # b)
    BY <1>0 DEF Party, Bridges
  <2> QED
    BY <1>2, <2>1 DEF Carries, Serving
<1>5. CASE d = e
  <2>1. Held(d, i)' - Held(d, i) = 1
    BY <1>0, <1>2, <1>5 DEF Held, Carries, Serving
  <2>2. \A j \in 1..3 : j # i => wire'[Chan(d, j)] = wire[Chan(d, j)]
    BY <1>0, <1>3, <1>5, Apart, Neighbours
  <2>3. sent'[d] - sent[d] = 0 /\ Len(got'[d]) - Len(got[d]) = 0
    BY <1>1, <1>2
  <2>4. CASE i = 1
    <3>1. Size(d, 2)' - Size(d, 2) = 0 /\ Size(d, 3)' - Size(d, 3) = 0
          /\ Held(d, 2)' - Held(d, 2) = 0
      BY <1>4, <2>2, <2>4, Alone
    <3>2. Loss(d)' = Loss(d) + 0 - 0 - ((-1) + 1 + 0 + 0 + 0)
      BY <1>3, <1>5, <2>1, <2>3, <2>4, <3>1, Balance
    <3> QED
      BY <1>1, <3>2
  <2>5. CASE i = 2
    <3>1. Size(d, 1)' - Size(d, 1) = 0 /\ Size(d, 3)' - Size(d, 3) = 0
          /\ Held(d, 1)' - Held(d, 1) = 0
      BY <1>4, <2>2, <2>5, Alone
    <3>2. Loss(d)' = Loss(d) + 0 - 0 - (0 + 0 + (-1) + 1 + 0)
      BY <1>3, <1>5, <2>1, <2>3, <2>5, <3>1, Balance
    <3> QED
      BY <1>1, <3>2
  <2> QED
    BY <1>0, <2>4, <2>5
<1>6. CASE d # e
  <2>1. \A c \in Channel : c[2] = d => wire'[c] = wire[c]
    BY <1>0, <1>3, <1>6, Neighbours
  <2> QED
    BY <1>2, <1>4, <1>6, <2>1, SameLosesNothing
<1> QED
  BY <1>5, <1>6

\* A bridge that hands on what it holds loses it where nobody receives it, and
\* nothing otherwise.
LEMMA SendAllLoses ==
  ASSUME TypeOK, TypeOK', NEW b \in Bridges, NEW e \in Direction, e = Serving(b),
         SendAll(b), NEW d \in Direction
  PROVE  /\ Loss(d)' >= Loss(d)
         /\ Receiver(SinkOf(b, e)) \notin closed => Loss(d)' = Loss(d)
         /\ Receiver(SinkOf(b, e)) \in closed /\ d = e => Loss(d)' > Loss(d)
<1> DEFINE i == Party(e, b)
<1>0. i \in 1..2 /\ Party(e, i) = b /\ SinkOf(b, e) = Chan(e, i + 1) /\ i + 1 \in 1..3
  BY BridgePlaces
<1>1. sent[d] \in Nat /\ Len(got[d]) \in Nat /\ Loss(d) \in Int /\ Loss(d)' \in Int
  BY Numbers, NumbersThen
<1> HIDE DEF i
<1>2. /\ Put(Chan(e, i + 1), hand[b]) /\ hand[b] \in 1..MaxSent /\ sent' = sent /\ got' = got
      /\ pc[b] = "sendall" /\ pc'[b] # "sendall"
      /\ \A j \in Bridges : j # b => pc'[j] = pc[j] /\ todo'[j] = todo[j]
  BY <1>0 DEF SendAll, peerVars, TypeOK
<1>3. /\ Receiver(Chan(e, i + 1)) \notin closed => Size(e, i + 1)' - Size(e, i + 1) = 1
      /\ Receiver(Chan(e, i + 1)) \in closed => Size(e, i + 1)' - Size(e, i + 1) = 0
      /\ \A c \in Channel : c # Chan(e, i + 1) =>
              /\ Len(wire'[c]) <= Len(wire[c])
              /\ Receiver(Chan(e, i + 1)) \notin closed \/ c # Reverse(Chan(e, i + 1)) =>
                    wire'[c] = wire[c]
  <2>1. PICK element \in 1..MaxSent : element = hand[b]
    BY <1>2
  <2>2. Put(Chan(e, i + 1), element)
    BY <1>2, <2>1
  <2> QED
    BY <1>0, <2>2, PutSizes
<1>4. \A j \in 1..2 : Party(d, j) \in Bridges /\ (d # e \/ j # i =>
        Carries(Party(d, j), d)' = Carries(Party(d, j), d))
  <2>1. \A j \in 1..2 : Party(d, j) \in Bridges /\ (d = e /\ j # i => Party(d, j) # b)
    BY <1>0 DEF Party, Bridges
  <2> QED
    BY <1>2, <2>1 DEF Carries, Serving
<1>5. CASE d = e
  <2>1. Held(d, i)' - Held(d, i) = -1
    BY <1>0, <1>2, <1>5 DEF Held, Carries
  <2>2. \A j \in 1..3 : j # i + 1 => wire'[Chan(d, j)] = wire[Chan(d, j)]
    BY <1>0, <1>3, <1>5, Apart, Neighbours
  <2>3. sent'[d] - sent[d] = 0 /\ Len(got'[d]) - Len(got[d]) = 0
    BY <1>1, <1>2
  <2> DEFINE more == Size(d, i + 1)' - Size(d, i + 1)
  <2>a. (Receiver(SinkOf(b, e)) \notin closed => more = 1)
        /\ (Receiver(SinkOf(b, e)) \in closed => more = 0)
    BY <1>0, <1>3, <1>5
  <2>4. CASE i = 1
    <3>1. Size(d, 1)' - Size(d, 1) = 0 /\ Size(d, 3)' - Size(d, 3) = 0
          /\ Held(d, 2)' - Held(d, 2) = 0 /\ i + 1 = 2
      BY <1>4, <2>2, <2>4, Alone
    <3>2. Size(d, 2)' - Size(d, 2) = more
      BY <3>1
    <3> HIDE DEF more
    <3>3. Loss(d)' = Loss(d) + 0 - 0 - (0 + (-1) + more + 0 + 0)
      BY <2>1, <2>3, <2>4, <3>1, <3>2, Balance
    <3> QED
      BY <1>1, <2>a, <3>3
  <2>5. CASE i = 2
    <3>1. Size(d, 1)' - Size(d, 1) = 0 /\ Size(d, 2)' - Size(d, 2) = 0
          /\ Held(d, 1)' - Held(d, 1) = 0 /\ i + 1 = 3
      BY <1>4, <2>2, <2>5, Alone
    <3>2. Size(d, 3)' - Size(d, 3) = more
      BY <3>1
    <3> HIDE DEF more
    <3>3. Loss(d)' = Loss(d) + 0 - 0 - (0 + 0 + 0 + (-1) + more)
      BY <2>1, <2>3, <2>5, <3>1, <3>2, Balance
    <3> QED
      BY <1>1, <2>a, <3>3
  <2> QED
    BY <1>0, <2>4, <2>5
<1>6. CASE d # e
  <2>1. \A j \in 1..3 : Chan(d, j) \in Channel /\ Chan(d, j) # Chan(e, i + 1)
    BY <1>0, <1>6, Apart, Neighbours
  <2>2. \A j \in 1..3 : Size(d, j)' <= Size(d, j)
    BY <1>3, <2>1 DEF Size
  <2>3. \A j \in 1..2 : Held(d, j)' = Held(d, j) /\ Held(d, j) \in 0..1
    BY <1>4, <1>6, Numbers DEF Held
  <2>4. Loss(d)' >= Loss(d)
        /\ ((\A j \in 1..3 : Size(d, j)' = Size(d, j)) => Loss(d)' = Loss(d))
    BY <1>2, <2>2, <2>3, LossGrows
  <2>5. Receiver(Chan(e, i + 1)) \notin closed => \A j \in 1..3 : Size(d, j)' = Size(d, j)
    BY <1>3, <2>1 DEF Size
  <2> QED
    BY <1>0, <1>6, <2>4, <2>5
<1> QED
  BY <1>5, <1>6

\* Closing loses what is cut from the channels and what is in a hand.
LEMMA CloseLoses ==
  ASSUME TypeOK, TypeOK', NEW parties, Close(parties), NEW d \in Direction,
         sent'[d] = sent[d], got'[d] = got[d], \A i \in 1..2 : Held(d, i)' <= Held(d, i)
  PROVE  /\ Loss(d)' >= Loss(d)
         /\ Loss(d)' = Loss(d) <=>
              /\ \A i \in 1..3 : Size(d, i)' = Size(d, i)
              /\ \A i \in 1..2 : Held(d, i)' = Held(d, i)
<1>1. \A i \in 1..3 : Size(d, i)' <= Size(d, i)
  BY TypeParts, Neighbours, CloseLeaves DEF WiresFit, Prefix, Size
<1> QED
  BY <1>1, LossGrows

\* A bridge that finishes drops what is in its hand.
LEMMA FinishDrops ==
  ASSUME TypeOK, NEW b \in Bridges, Finish(b), NEW d \in Direction
  PROVE  /\ Close({b}) /\ closed' = closed \cup {b} /\ UNCHANGED <<sent, got, ended, notified, stop, todo>>
         /\ \A j \in Bridges : pc'[j] = IF j = b THEN "done" ELSE pc[j]
         /\ \A i \in 1..2 : Held(d, i)' = IF Party(d, i) = b THEN 0 ELSE Held(d, i)
         /\ \A i \in 1..2 : Held(d, i)' <= Held(d, i)
<1>1. /\ Close({b}) /\ closed' = closed \cup {b}
      /\ UNCHANGED <<sent, got, ended, notified, stop, todo>>
      /\ \A j \in Bridges : pc'[j] = IF j = b THEN "done" ELSE pc[j]
  BY DEF Finish, Close, TypeOK, peerVars
<1>2. \A i \in 1..2 : Party(d, i) \in Bridges
  BY DEF Party, Bridges
<1>3. \A i \in 1..2 : Held(d, i)' = IF Party(d, i) = b THEN 0 ELSE Held(d, i)
  BY <1>1, <1>2 DEF Held, Carries, Serving
<1>4. \A i \in 1..2 : Held(d, i)' <= Held(d, i)
  BY <1>3, Numbers
<1> QED
  BY <1>1, <1>3, <1>4

\* No step gives back what a direction has lost.
LEMMA LossStays ==
  ASSUME TypeOK, TypeOK', [Next]_vars, NEW d \in Direction
  PROVE  Loss(d)' >= Loss(d)
<1>0. Loss(d) \in Int
  BY Numbers
<1>1. CASE UNCHANGED <<wire, sent, got, pc, todo>>
  <2>1. Loss(d)' = Loss(d)
    BY <1>1, SameLosesNothing DEF Carries, Serving
  <2> QED
    BY <1>0, <2>1
<1>2. ASSUME NEW p \in Peers, PeerStep(p)
      PROVE  Loss(d)' >= Loss(d)
  <2>1. CASE Send(p)
    BY <2>1, SendLoses
  <2>2. CASE EndsSpeech(p) \/ HearsEnd(p)
    BY <1>1, <2>2 DEF EndsSpeech, HearsEnd, bridgeVars
  <2>3. CASE Leaves(p)
    <3>1. Close({p}) /\ UNCHANGED <<sent, got, pc, todo>>
      BY <2>3 DEF Leaves, bridgeVars
    <3>2. \A i \in 1..2 : Held(d, i)' <= Held(d, i)
      BY <3>1 DEF Held, Carries, Serving
    <3> QED
      BY <3>1, <3>2, CloseLoses
  <2>4. CASE Hears(p)
    BY <1>0, <2>4, HearsLoses
  <2> QED
    BY <1>2, <2>1, <2>2, <2>3, <2>4 DEF PeerStep
<1>3. ASSUME NEW b \in Bridges, Finish(b)
      PROVE  Loss(d)' >= Loss(d)
  BY <1>3, FinishDrops, CloseLoses
<1>4. ASSUME NEW b \in Bridges, BridgeStep(b)
      PROVE  Loss(d)' >= Loss(d)
  <2>0. PICK e \in Direction : e = Serving(b)
    BY DEF Serving, Direction
  <2>1. CASE Select(b)
    <3>1. UNCHANGED <<wire, sent, got>> /\ pc[b] = "select" /\ pc'[b] = "recv"
          /\ \A j \in Bridges : j # b => pc'[j] = pc[j] /\ todo'[j] = todo[j]
      BY <2>1 DEF Select, peerVars, TypeOK
    <3>2. \A i \in 1..2 : Carries(Party(d, i), d)' = Carries(Party(d, i), d)
      <4>1. \A i \in 1..2 : Party(d, i) \in Bridges
        BY DEF Party, Bridges
      <4> QED
        BY <3>1, <4>1 DEF Carries, Serving
    <3>3. Loss(d)' = Loss(d)
      BY <3>1, <3>2, SameLosesNothing
    <3> QED
      BY <1>0, <3>3
  <2>2. CASE FindsStop(b) \/ SendFails(b)
    BY <1>3, <2>2 DEF FindsStop, SendFails
  <2>3. CASE Receive(b)
    <3>1. CASE wire[SourceOf(b, e)] = <<>>
      BY <1>3, <2>0, <2>3, <3>1 DEF Receive
    <3>2. CASE wire[SourceOf(b, e)] # <<>>
      BY <1>0, <2>0, <2>3, <3>2, ReceiveLoses
    <3> QED
      BY <3>1, <3>2
  <2>4. CASE SendAll(b)
    BY <2>0, <2>4, SendAllLoses
  <2> QED
    BY <1>4, <2>1, <2>2, <2>3, <2>4 DEF BridgeStep
<1>5. CASE WorkerDies
  <2>1. Close({0, 1} \ closed) /\ UNCHANGED <<sent, got, todo>>
        /\ \A j \in Bridges : pc'[j] = IF j = 1 THEN "done" ELSE pc[j]
    BY <1>5 DEF WorkerDies, TypeOK
  <2>2. \A i \in 1..2 : Held(d, i)' <= Held(d, i)
    <3>1. \A i \in 1..2 : Party(d, i) \in Bridges
      BY DEF Party, Bridges
    <3> QED
      BY <2>1, <3>1 DEF Held, Carries, Serving
  <2> QED
    BY <2>1, <2>2, CloseLoses
<1>6. CASE SetStop \/ UNCHANGED vars
  BY <1>1, <1>6 DEF SetStop, vars, peerVars, bridgeVars
<1> QED
  BY <1>2, <1>4, <1>5, <1>6 DEF Next

----------------------------------------------------------------------------
(* What the end of a stream means.                                         *)

\* Nothing waits for a party that is closed.
Emptied == \A c \in Channel : Receiver(c) \in closed => wire[c] = <<>>

\* The directions a bridge has found readable and not yet received from.
Pending(b) ==
  IF pc[b] = "recv" THEN todo[b]
  ELSE IF pc[b] = "sendall" THEN todo[b] \ {Serving(b)} ELSE {}

\* What select found readable stays so, until it is received.
Found == \A b \in Bridges : Pending(b) \subseteq Readable(b)

\* A client that has received the end of the stream has received all before it.
EndHeard == 0 \in notified => 1 \in closed /\ wire[<<1, "back">>] = <<>>

EndInv ==
  /\ Emptied
  /\ closed \cap Peers \subseteq ended
  /\ Found
  /\ EndHeard

\* Closing changes only channels at what is closed, and drops nothing from one
\* whose other end had read everything.
LEMMA CloseSpares ==
  ASSUME TypeOK, Emptied, NEW parties, Close(parties), NEW c \in Channel
  PROVE  /\ wire[c] = <<>> => wire'[c] = <<>>
         /\ Receiver(c) \in parties => wire'[c] = <<>>
         /\ Receiver(c) \notin parties /\ (Sender(c) \notin parties \/ wire[Reverse(c)] = <<>>) =>
              wire'[c] = wire[c]
<1>1. wire \in Wires
  BY TypeParts DEF WiresFit
<1>2. /\ wire' \in Wires /\ closed' = closed \cup parties
      /\ Prefix(wire[c], wire'[c])
      /\ Receiver(c) \in closed' => wire'[c] = <<>>
      /\ Receiver(c) \notin closed' /\ Sender(c) \notin parties => wire'[c] = wire[c]
      /\ Receiver(c) \notin closed' /\ wire[Reverse(c)] = <<>> => wire'[c] = wire[c]
  BY <1>1, CloseLeaves
<1>3. wire[c] = <<>> => wire'[c] = <<>>
  <2>1. wire'[c] \in Seq(1..MaxSent) /\ Len(wire'[c]) \in Nat
    BY <1>2 DEF Wires
  <2>2. wire[c] = <<>> => Len(wire'[c]) <= 0
    BY <1>2 DEF Prefix
  <2>3. wire[c] = <<>> => Len(wire'[c]) = 0
    BY <2>1, <2>2
  <2> QED
    BY <2>1, <2>3, EmptySeq
<1>4. Receiver(c) \in closed => wire[c] = <<>>
  BY DEF Emptied
<1> QED
  BY <1>2, <1>3, <1>4

\* Closing keeps what is known of the ends of streams.
LEMMA CloseEnds ==
  ASSUME TypeOK, EndInv, NEW parties, Close(parties), ended \subseteq ended',
         parties \cap Peers \subseteq ended', notified' = notified,
         \A b \in Bridges : b \notin closed' => Pending(b)' \subseteq Pending(b),
         \A b \in Bridges : b \in closed' => Pending(b)' = {}
  PROVE  EndInv'
<1>1. closed' = closed \cup parties /\ wire \in Wires
  BY TypeParts DEF Close, WiresFit
<1>2. Emptied'
  BY <1>1, CloseLeaves DEF Emptied
<1>3. (closed \cap Peers \subseteq ended)'
  BY <1>1 DEF EndInv
<1>4. ASSUME NEW b \in Bridges, b \notin closed', NEW d \in Readable(b)
      PROVE  d \in Readable(b)'
  <2>1. d \in Direction /\ SourceOf(b, d) \in Channel /\ Receiver(SourceOf(b, d)) = b
        /\ (wire[SourceOf(b, d)] # <<>> \/ Ended(SourceOf(b, d)))
    BY <1>4, BridgePlaces DEF Readable
  <2>2. CASE Sender(SourceOf(b, d)) \in parties
    BY <1>1, <2>1, <2>2 DEF Readable, Ended
  <2>3. CASE Sender(SourceOf(b, d)) \notin parties
    <3>1. wire'[SourceOf(b, d)] = wire[SourceOf(b, d)]
      BY <1>1, <1>4, <2>1, <2>3, CloseSpares DEF EndInv
    <3>2. Ended(SourceOf(b, d)) => Ended(SourceOf(b, d))'
      BY <1>1 DEF Ended
    <3> QED
      BY <2>1, <3>1, <3>2 DEF Readable
  <2> QED
    BY <2>2, <2>3
<1>5. Found'
  <2> SUFFICES ASSUME NEW b \in Bridges, NEW d \in Pending(b)'
               PROVE  d \in Readable(b)'
    BY DEF Found
  <2>1. b \notin closed' /\ d \in Pending(b)
    OBVIOUS
  <2>2. d \in Readable(b)
    BY <2>1 DEF EndInv, Found
  <2> QED
    BY <1>4, <2>1, <2>2
<1>6. EndHeard'
  <2>1. <<1, "back">> \in Channel
    BY DEF Channel, Direction
  <2> QED
    BY <1>1, <2>1, CloseSpares DEF EndInv, EndHeard
<1> QED
  BY <1>2, <1>3, <1>5, <1>6 DEF EndInv

\* So does sending by a party that is not closed.
LEMMA PutEnds ==
  ASSUME TypeOK, EndInv, NEW c \in Channel, NEW element \in 1..MaxSent, Put(c, element),
         Sender(c) \notin closed, UNCHANGED <<closed, ended, notified>>,
         \A b \in Bridges : Pending(b)' \subseteq Pending(b)
  PROVE  EndInv'
<1>1. wire \in Wires /\ Reverse(c) \in Channel
  BY TypeParts, Ends DEF WiresFit
<1>2. /\ wire' \in Wires
      /\ Receiver(c) \notin closed => wire' = [wire EXCEPT ![c] = Append(wire[c], element)]
      /\ Receiver(c) \in closed =>
            \A k \in Channel :
              Prefix(wire[k], wire'[k]) /\ (k # Reverse(c) => wire'[k] = wire[k])
  BY <1>1, PutLeaves
<1>3. ASSUME NEW k \in Channel
      PROVE  /\ wire'[k] # wire[k] => k = c \/ (k = Reverse(c) /\ Receiver(c) \in closed)
             /\ Receiver(c) \in closed /\ wire[k] = <<>> => wire'[k] = <<>>
             /\ Receiver(c) \notin closed => wire'[c] # <<>>
  <2>1. CASE Receiver(c) \in closed
    <3>1. Len(wire'[k]) <= Len(wire[k]) /\ (k # Reverse(c) => wire'[k] = wire[k])
      BY <1>2, <2>1 DEF Prefix
    <3>2. wire'[k] \in Seq(1..MaxSent) /\ Len(wire'[k]) \in Nat
      BY <1>2 DEF Wires
    <3>3. wire[k] = <<>> => Len(wire'[k]) = 0
      BY <3>1, <3>2
    <3> QED
      BY <2>1, <3>1, <3>2, <3>3, EmptySeq
  <2>2. CASE Receiver(c) \notin closed
    <3>1. wire'[c] = Append(wire[c], element) /\ (k # c => wire'[k] = wire[k])
      BY <1>1, <1>2, <2>2 DEF Wires
    <3>2. wire[c] \in Seq(1..MaxSent)
      BY <1>1 DEF Wires
    <3>3. Append(wire[c], element) # <<>>
      BY <3>2, AppendProperties
    <3> QED
      BY <2>2, <3>1, <3>3
  <2> QED
    BY <2>1, <2>2
<1>4. Emptied'
  <2> SUFFICES ASSUME NEW k \in Channel, Receiver(k) \in closed
               PROVE  wire'[k] = <<>>
    BY DEF Emptied
  <2>1. wire[k] = <<>>
    BY DEF EndInv, Emptied
  <2>2. k = c => Receiver(c) \in closed
    OBVIOUS
  <2> QED
    BY <1>3, <2>1, <2>2
<1>5. Found'
  <2> SUFFICES ASSUME NEW b \in Bridges, NEW d \in Pending(b)'
               PROVE  d \in Readable(b)'
    BY DEF Found
  <2>1. d \in Readable(b)
    BY DEF EndInv, Found
  <2>2. d \in Direction /\ SourceOf(b, d) \in Channel
        /\ (wire[SourceOf(b, d)] # <<>> \/ Ended(SourceOf(b, d)))
    BY <2>1, BridgePlaces DEF Readable
  <2>3. Ended(SourceOf(b, d))' = Ended(SourceOf(b, d))
    BY DEF Ended
  <2>4. wire[SourceOf(b, d)] # <<>> => wire'[SourceOf(b, d)] # <<>> \/ Ended(SourceOf(b, d))
    <3>1. CASE SourceOf(b, d) = Reverse(c) /\ Receiver(c) \in closed
      BY <3>1, Ends DEF Ended
    <3>2. CASE wire'[SourceOf(b, d)] = wire[SourceOf(b, d)]
      BY <3>2
    <3>3. CASE SourceOf(b, d) = c /\ Receiver(c) \notin closed
      BY <1>3, <3>3, <2>2
    <3>4. CASE SourceOf(b, d) = c /\ Receiver(c) \in closed
      BY <3>4 DEF EndInv, Emptied
    <3> QED
      BY <1>3, <2>2, <3>1, <3>2, <3>3, <3>4
  <2> QED
    BY <2>2, <2>3, <2>4 DEF Readable
<1>6. EndHeard'
  <2>1. <<1, "back">> \in Channel /\ Sender(<<1, "back">>) = 1
    BY DEF Channel, Direction, Sender
  <2> SUFFICES ASSUME 0 \in notified
               PROVE  1 \in closed /\ wire'[<<1, "back">>] = <<>>
    BY DEF EndHeard
  <2>2. 1 \in closed /\ wire[<<1, "back">>] = <<>>
    BY DEF EndInv, EndHeard
  <2>3. c # <<1, "back">>
    BY <2>1, <2>2
  <2> QED
    BY <1>3, <2>1, <2>2, <2>3
<1> QED
  BY <1>4, <1>5, <1>6 DEF EndInv

\* So does receiving by a party that is not closed.
LEMMA TakeEnds ==
  ASSUME TypeOK, EndInv, NEW c \in Channel, Takes(c), UNCHANGED <<closed, ended, notified>>,
         \A b \in Bridges : Pending(b)' \subseteq Pending(b)
                            /\ \A d \in Pending(b)' : SourceOf(b, d) # c
  PROVE  EndInv'
<1>1. \A k \in Channel : k # c => wire'[k] = wire[k]
  BY TypeParts, TakeLeaves DEF WiresFit, Takes
<1>2. wire[c] # <<>> /\ Receiver(c) \notin closed
  BY DEF Takes, EndInv, Emptied
<1>3. Emptied'
  <2> SUFFICES ASSUME NEW k \in Channel, Receiver(k) \in closed
               PROVE  wire'[k] = <<>>
    BY DEF Emptied
  <2> QED
    BY <1>1, <1>2 DEF EndInv, Emptied
<1>4. Found'
  <2> SUFFICES ASSUME NEW b \in Bridges, NEW d \in Pending(b)'
               PROVE  d \in Readable(b)'
    BY DEF Found
  <2>1. d \in Readable(b) /\ SourceOf(b, d) # c
    BY DEF EndInv, Found
  <2>2. d \in Direction /\ SourceOf(b, d) \in Channel
        /\ (wire[SourceOf(b, d)] # <<>> \/ Ended(SourceOf(b, d)))
    BY <2>1, BridgePlaces DEF Readable
  <2>3. wire'[SourceOf(b, d)] = wire[SourceOf(b, d)]
        /\ Ended(SourceOf(b, d))' = Ended(SourceOf(b, d))
    BY <1>1, <2>1, <2>2 DEF Ended
  <2> QED
    BY <2>2, <2>3 DEF Readable
<1>5. EndHeard'
  <2>1. <<1, "back">> \in Channel
    BY DEF Channel, Direction
  <2> QED
    BY <1>1, <1>2, <2>1 DEF EndInv, EndHeard
<1> QED
  BY <1>3, <1>4, <1>5 DEF EndInv

\* A step that leaves channels and parties alone.
LEMMA QuietEnds ==
  ASSUME EndInv, UNCHANGED <<wire, closed, notified>>, ended \subseteq ended',
         \A b \in Bridges : Pending(b)' \subseteq Pending(b) \cup Readable(b)
  PROVE  EndInv'
<1>1. \A b \in Bridges : Readable(b) \subseteq Readable(b)'
  BY DEF Readable, Ended
<1>2. Found'
  BY <1>1 DEF EndInv, Found
<1> QED
  BY <1>2 DEF EndInv, Emptied, EndHeard

\* What a peer does keeps EndInv.
LEMMA PeersKeepEnds ==
  ASSUME TypeOK, TypeOK', EndInv, NEW p \in Peers, PeerStep(p)
  PROVE  EndInv'
<1>0. /\ Speech(p) \in Channel /\ Hearing(p) \in Channel
      /\ Sender(Speech(p)) = p /\ Receiver(Hearing(p)) = p
      /\ Speech(p)[2] \in Direction /\ p \notin Bridges
  BY PeerPlaces DEF Peers, Bridges
<1>1. UNCHANGED bridgeVars => \A b \in Bridges : Pending(b)' = Pending(b)
  BY DEF bridgeVars, Pending, Serving
<1>2. CASE Send(p)
  <2>1. PICK element \in 1..MaxSent : element = sent'[Speech(p)[2]]
    <3>1. sent \in [Direction -> 0..MaxSent] /\ sent[Speech(p)[2]] < MaxSent
      BY <1>0, <1>2 DEF Send, TypeOK
    <3>2. sent'[Speech(p)[2]] = sent[Speech(p)[2]] + 1
      BY <1>0, <1>2, <3>1 DEF Send
    <3>3. sent'[Speech(p)[2]] \in 1..MaxSent
      BY <1>0, <3>1, <3>2, BridgeAssumption
    <3> QED
      BY <3>3
  <2>2. Put(Speech(p), element) /\ p \notin closed /\ UNCHANGED <<closed, ended, notified, bridgeVars>>
    BY <1>2, <2>1 DEF Send
  <2> QED
    BY <1>0, <1>1, <2>2, PutEnds
<1>3. CASE EndsSpeech(p)
  BY <1>1, <1>3, QuietEnds DEF EndsSpeech
<1>4. CASE Leaves(p)
  <2>1. /\ Close({p}) /\ ended' = ended \cup {p} /\ notified' = notified
        /\ closed' = closed \cup {p} /\ UNCHANGED bridgeVars
    BY <1>4 DEF Leaves, Close
  <2>2. \A b \in Bridges : b \in closed' => Pending(b)' = {}
    BY <1>0, <1>1, <2>1 DEF TypeOK, Pending
  <2> QED
    BY <1>1, <2>1, <2>2, CloseEnds
<1>5. CASE Hears(p)
  <2>1. Takes(Hearing(p)) /\ UNCHANGED <<closed, ended, notified, bridgeVars>>
    BY <1>5 DEF Hears, Takes
  <2>2. \A b \in Bridges : \A d \in Pending(b) : SourceOf(b, d) # Hearing(p)
    <3>1. \A b \in Bridges : Pending(b) \subseteq Direction
      BY DEF Pending, TypeOK
    <3> QED
      BY <1>0, <3>1, BridgePlaces
  <2> QED
    BY <1>0, <1>1, <2>1, <2>2, TakeEnds
<1>6. CASE HearsEnd(p)
  <2>1. UNCHANGED <<wire, closed, ended, bridgeVars>> /\ notified' = notified \cup {p}
    BY <1>6 DEF HearsEnd
  <2>2. Found' /\ Emptied' /\ (closed \cap Peers \subseteq ended)'
    BY <1>1, <2>1 DEF EndInv, Found, Emptied, Readable, Ended
  <2>3. CASE p = 0
    <3>1. Hearing(p) = <<1, "back">> /\ Sender(Hearing(p)) = 1
      BY <2>3 DEF Hearing, Speech, Reverse, Opposite, Sender
    <3>2. wire[<<1, "back">>] = <<>> /\ 1 \in closed \cup ended
      BY <1>6, <3>1 DEF HearsEnd, Ended
    <3>3. 1 \notin ended
      BY DEF TypeOK, Peers
    <3> QED
      BY <2>1, <2>2, <3>2, <3>3 DEF EndInv, EndHeard
  <2>4. CASE p # 0
    BY <2>1, <2>2, <2>4 DEF EndInv, EndHeard
  <2> QED
    BY <2>3, <2>4
<1> QED
  BY <1>2, <1>3, <1>4, <1>5, <1>6 DEF PeerStep

\* What a bridge does keeps EndInv.
LEMMA BridgesKeepEnds ==
  ASSUME TypeOK, TypeOK', EndInv, NEW b \in Bridges, BridgeStep(b)
  PROVE  EndInv'
<1>0. PICK e \in Direction : e = Serving(b)
  BY DEF Serving, Direction
<1>1. /\ SourceOf(b, e) \in Channel /\ SinkOf(b, e) \in Channel
      /\ Sender(SinkOf(b, e)) = b /\ Receiver(SourceOf(b, e)) = b
      /\ \A j \in Bridges : Pending(j) \subseteq Direction
      /\ \A j \in Bridges, d \in Direction :
            j # b \/ d # e => SourceOf(j, d) # SourceOf(b, e)
  <2>1. \A j \in Bridges : Pending(j) \subseteq Direction
    BY DEF Pending, TypeOK
  <2>2. \A d \in Direction : d # e => SourceOf(b, d) # SourceOf(b, e)
    BY DEF SourceOf
  <2> QED
    BY <2>1, <2>2, BridgePlaces
<1>2. CASE Select(b)
  <2>1. /\ UNCHANGED <<wire, closed, ended, notified>>
        /\ pc'[b] = "recv" /\ todo'[b] = Readable(b)
        /\ \A j \in Bridges : j # b => pc'[j] = pc[j] /\ todo'[j] = todo[j]
    BY <1>2 DEF Select, peerVars, TypeOK
  <2>2. \A j \in Bridges : Pending(j)' \subseteq Pending(j) \cup Readable(j)
    BY <2>1 DEF Pending, Serving
  <2> QED
    BY <2>1, <2>2, QuietEnds
<1>3. CASE Finish(b)
  <2>1. /\ Close({b}) /\ closed' = closed \cup {b} /\ UNCHANGED <<ended, notified, todo>>
        /\ \A j \in Bridges : pc'[j] = IF j = b THEN "done" ELSE pc[j]
    BY <1>0, <1>3, FinishDrops
  <2>2. \A j \in Bridges : Pending(j)' \subseteq Pending(j)
    BY <2>1 DEF Pending, Serving
  <2>3. \A j \in Bridges : j \in closed' => Pending(j)' = {}
    BY <2>1 DEF TypeOK, Pending
  <2>4. b \notin Peers
    BY DEF Peers, Bridges
  <2> QED
    BY <2>1, <2>2, <2>3, <2>4, CloseEnds
<1>4. CASE Receive(b) /\ wire[SourceOf(b, e)] # <<>>
  <2>1. /\ Takes(SourceOf(b, e)) /\ UNCHANGED <<closed, ended, notified, todo>>
        /\ pc[b] = "recv" /\ pc'[b] = "sendall" /\ \A j \in Bridges : j # b => pc'[j] = pc[j]
    BY <1>0, <1>4 DEF Receive, Takes, peerVars, TypeOK
  <2>2. Pending(b)' = todo[b] \ {e} /\ Pending(b) = todo[b]
        /\ \A j \in Bridges : j # b => Pending(j)' = Pending(j)
    BY <1>0, <2>1 DEF Pending, Serving
  <2>3. \A j \in Bridges : Pending(j)' \subseteq Pending(j)
                           /\ \A d \in Pending(j)' : SourceOf(j, d) # SourceOf(b, e)
    <3> SUFFICES ASSUME NEW j \in Bridges, NEW d \in Pending(j)'
                 PROVE  d \in Pending(j) /\ SourceOf(j, d) # SourceOf(b, e)
      OBVIOUS
    <3>1. d \in Pending(j) /\ (j # b \/ d # e)
      BY <2>2
    <3> QED
      BY <1>1, <3>1
  <2> QED
    BY <1>1, <2>1, <2>3, TakeEnds
<1>5. CASE SendAll(b)
  <2>1. /\ Put(SinkOf(b, e), hand[b]) /\ UNCHANGED <<closed, ended, notified>>
        /\ pc[b] = "sendall" /\ pc'[b] = (IF todo'[b] = {} THEN "select" ELSE "recv")
        /\ todo'[b] = todo[b] \ {e}
        /\ \A j \in Bridges : j # b => pc'[j] = pc[j] /\ todo'[j] = todo[j]
    BY <1>0, <1>5 DEF SendAll, peerVars, TypeOK
  <2>2. PICK element \in 1..MaxSent : element = hand[b]
    BY <2>1 DEF TypeOK
  <2>3. Put(SinkOf(b, e), element) /\ b \notin closed
    BY <2>1, <2>2 DEF TypeOK
  <2>4. \A j \in Bridges : Pending(j)' \subseteq Pending(j)
    BY <1>0, <2>1 DEF Pending, Serving
  <2> QED
    BY <1>1, <2>1, <2>3, <2>4, PutEnds
<1> QED
  BY <1>0, <1>2, <1>3, <1>4, <1>5 DEF BridgeStep, FindsStop, Receive, SendFails

\* Every step keeps EndInv.
LEMMA EndsKept ==
  ASSUME TypeOK, TypeOK', EndInv, [Next]_vars
  PROVE  EndInv'
<1>1. CASE \E p \in Peers : PeerStep(p)
  BY <1>1, PeersKeepEnds
<1>2. CASE \E b \in Bridges : BridgeStep(b)
  BY <1>2, BridgesKeepEnds
<1>3. CASE WorkerDies
  <2>1. /\ Close({0, 1} \ closed) /\ ended' = ended \cup {0} /\ UNCHANGED <<notified, todo>>
        /\ \A j \in Bridges : pc'[j] = IF j = 1 THEN "done" ELSE pc[j]
    BY <1>3 DEF WorkerDies, TypeOK
  <2>2. \A j \in Bridges : Pending(j)' \subseteq Pending(j)
    BY <2>1 DEF Pending, Serving
  <2>3. \A j \in Bridges : j \in closed' => Pending(j)' = {}
    BY DEF TypeOK, Pending
  <2>4. ({0, 1} \ closed) \cap Peers \subseteq ended'
    BY <2>1 DEF Peers
  <2> QED
    BY <2>1, <2>2, <2>3, <2>4, CloseEnds
<1>4. CASE SetStop \/ UNCHANGED vars
  <2>1. UNCHANGED <<wire, closed, notified, ended, bridgeVars>>
    BY <1>4 DEF SetStop, vars, peerVars
  <2>2. \A b \in Bridges : Pending(b)' = Pending(b)
    BY <2>1 DEF bridgeVars, Pending, Serving
  <2> QED
    BY <2>1, <2>2, QuietEnds
<1> QED
  BY <1>1, <1>2, <1>3, <1>4 DEF Next

----------------------------------------------------------------------------
(* The answer.  As long as the client is there, the arena is not being     *)
(* closed and nothing the client said is lost, the relays end one after    *)
(* the other from the side of the target, each with nothing left to do.    *)

NoGain == \A d \in Direction : Loss(d) >= 0

Heard == 0 \notin ended /\ ~stop /\ Loss("out") = 0

Whole ==
  Heard =>
    /\ Loss("back") = 0
    /\ 1 \in closed => 2 \in closed
    /\ 2 \in closed => 3 \in ended

AnswerInv == EndInv /\ NoGain /\ Whole

\* The two directions, place by place.
LEMMA BothWays ==
  /\ "out" \in Direction /\ "back" \in Direction
  /\ \A i \in 1..3 : Chan("out", i) = <<i, "out">> /\ Chan("back", i) = <<4 - i, "back">>
  /\ \A l \in 1..3 : /\ <<l, "out">> \in Channel /\ <<l, "back">> \in Channel
                      /\ Reverse(<<l, "out">>) = <<l, "back">> /\ Reverse(<<l, "back">>) = <<l, "out">>
                      /\ Sender(<<l, "out">>) = l - 1 /\ Receiver(<<l, "out">>) = l
                      /\ Sender(<<l, "back">>) = l /\ Receiver(<<l, "back">>) = l - 1
  /\ Party("back", 1) = 2 /\ Party("back", 2) = 1
BY DEF Direction, Chan, Channel, Reverse, Opposite, Sender, Receiver, Party

\* A channel from which nothing is lost, though its receiver is closed, was empty.
LEMMA NothingCut ==
  ASSUME TypeOK, NEW d \in Direction, NEW i \in 1..3, NEW c, c = Chan(d, i), wire'[c] = <<>>,
         Size(d, i)' = Size(d, i)
  PROVE  wire[c] = <<>>
<1>1. wire[c] \in Seq(1..MaxSent) /\ Len(wire[c]) = Len(wire'[c])
  BY Neighbours DEF TypeOK, Size
<1> QED
  BY <1>1, EmptySeq

\* What stays when sockets are closed and nothing of the answer is cut.
LEMMA AnswerSpared ==
  ASSUME TypeOK, TypeOK', NEW parties, Close(parties),
         UNCHANGED <<sent, got>>,
         \A l \in 1..3 : wire'[<<l, "back">>] = wire[<<l, "back">>],
         \A i \in 1..2 : Held("back", i)' = Held("back", i)
  PROVE  Loss("back")' = Loss("back")
<1>1. \A i \in 1..3 : Size("back", i)' = Size("back", i)
  BY BothWays DEF Size
<1>2. \A i \in 1..2 : Held("back", i)' <= Held("back", i)
  BY BothWays, Numbers
<1> QED
  BY <1>1, <1>2, BothWays, CloseLoses

\* A bridge that ends, while the client is heard, has nothing of the answer left,
\* and ends after what is nearer to the target.
LEMMA FinishWhole ==
  ASSUME TypeOK, TypeOK', AnswerInv, EndInv', NEW b \in Bridges, Heard, Heard', Finish(b),
         FindsStop(b) \/ Receive(b) \/ SendFails(b)
  PROVE  Whole'
<1>0. PICK e \in Direction : e = Serving(b)
  BY DEF Serving, Direction
<1>1. /\ Loss("out") = 0 /\ Loss("out")' = 0 /\ Loss("back") = 0
      /\ (1 \in closed => 2 \in closed) /\ (2 \in closed => 3 \in ended)
      /\ 0 \notin ended /\ 0 \notin closed /\ ~stop /\ Emptied
  BY DEF AnswerInv, Whole, Heard, EndInv, Peers
<1>2. /\ Close({b}) /\ closed' = closed \cup {b} /\ UNCHANGED <<sent, got, ended, stop>>
      /\ \A d \in Direction : \A i \in 1..2 :
           /\ Held(d, i)' = IF Party(d, i) = b THEN 0 ELSE Held(d, i)
           /\ Held(d, i)' <= Held(d, i)
  BY <1>0, FinishDrops
<1>3. /\ \A i \in 1..3 : Size("out", i)' = Size("out", i)
      /\ \A i \in 1..2 : Held("out", i)' = Held("out", i)
  BY <1>1, <1>2, BothWays, CloseLoses
<1>4. pc[b] \in {"recv", "sendall"} /\ b \notin closed /\ b \in 1..2 /\ todo[b] \in SUBSET Direction /\ todo[b] # {}
      /\ ~FindsStop(b)
  BY <1>1 DEF FindsStop, Stopped, Receive, SendFails, TypeOK, Bridges
<1>5. wire[<<b, "out">>] = <<>>
  <2>1. wire'[<<b, "out">>] = <<>>
    BY <1>1, <1>2, <1>4, BothWays, CloseSpares
  <2> QED
    BY <1>3, <1>4, <2>1, BothWays, NothingCut
<1>6. CASE Receive(b)
  <2>1. pc[b] = "recv" /\ wire[SourceOf(b, e)] = <<>>
    <3>1. wire[SourceOf(b, e)] # <<>> => closed' = closed
      BY <1>0, <1>6 DEF Receive
    <3> QED
      BY <1>2, <1>4, <1>6, <3>1 DEF Receive
  <2>2. Sender(SourceOf(b, e)) \in closed \cup ended
    <3>1. e \in Pending(b)
      BY <1>0, <1>4, <2>1 DEF Pending, Serving, Direction
    <3>2. e \in Readable(b)
      BY <3>1 DEF AnswerInv, EndInv, Found
    <3> QED
      BY <2>1, <3>2 DEF Readable, Ended
  <2>3. ended \subseteq {0, 3} /\ closed \subseteq 0..3 /\ closed \cap {0, 3} \subseteq ended
    BY DEF TypeOK, Peers, AnswerInv, EndInv
  <2>4. Held("back", 1) = (IF b = 2 THEN 0 ELSE Held("back", 1))
        /\ Held("back", 2) = (IF b = 1 THEN 0 ELSE Held("back", 2))
    BY <2>1, BothWays DEF Held, Carries
  <2>5. \A i \in 1..2 : Held("back", i)' = Held("back", i)
    <3>1. Held("back", 1)' = Held("back", 1) /\ Held("back", 2)' = Held("back", 2)
      BY <1>2, <2>4, BothWays
    <3>2. \A i \in 1..2 : i = 1 \/ i = 2
      OBVIOUS
    <3> QED
      BY <3>1, <3>2
  <2>6. CASE b = 1
    <3>1. e = "back" /\ SourceOf(b, e) = <<2, "back">> /\ 2 \in closed
      <4>1. CASE e = "out"
        <5>1. Sender(SourceOf(b, e)) = 0
          BY <2>6, <4>1, BothWays DEF SourceOf
        <5> QED
          BY <1>1, <2>2, <5>1
      <4>2. CASE e = "back"
        <5>1. SourceOf(b, e) = <<2, "back">> /\ Sender(SourceOf(b, e)) = 2
          BY <2>6, <4>2, BothWays DEF SourceOf
        <5> QED
          BY <2>2, <2>3, <4>2, <5>1
      <4> QED
        BY <4>1, <4>2 DEF Direction
    <3>2. wire[<<2, "back">>] = <<>> /\ wire[<<3, "back">>] = <<>>
      BY <1>1, <2>1, <3>1, BothWays DEF Emptied
    <3>3. wire'[<<2, "back">>] = wire[<<2, "back">>] /\ wire'[<<3, "back">>] = wire[<<3, "back">>]
      BY <1>1, <1>2, <3>2, BothWays, CloseSpares
    <3>4. wire'[<<1, "back">>] = wire[<<1, "back">>]
      <4>1. /\ <<1, "back">> \in Channel /\ Receiver(<<1, "back">>) = 0
            /\ Reverse(<<1, "back">>) = <<1, "out">>
        BY BothWays
      <4> QED
        BY <1>1, <1>2, <1>5, <2>6, <4>1, CloseSpares
    <3>5. \A l \in 1..3 : wire'[<<l, "back">>] = wire[<<l, "back">>]
      <4>1. \A l \in 1..3 : l = 1 \/ l = 2 \/ l = 3
        OBVIOUS
      <4> QED
        BY <3>3, <3>4, <4>1
    <3>6. Loss("back")' = 0
      BY <1>1, <1>2, <2>5, <3>5, AnswerSpared
    <3> QED
      BY <1>1, <1>2, <2>6, <3>1, <3>6 DEF Whole
  <2>7. CASE b = 2
    <3>1. e = "back" /\ SourceOf(b, e) = <<3, "back">> /\ 3 \in ended
      <4>1. CASE e = "out"
        <5>1. Sender(SourceOf(b, e)) = 1
          BY <2>7, <4>1, BothWays DEF SourceOf
        <5>2. 1 \in closed
          BY <2>2, <2>3, <5>1
        <5> QED
          BY <1>1, <1>4, <2>7, <5>2
      <4>2. CASE e = "back"
        <5>1. SourceOf(b, e) = <<3, "back">> /\ Sender(SourceOf(b, e)) = 3
          BY <2>7, <4>2, BothWays DEF SourceOf
        <5> QED
          BY <2>2, <2>3, <4>2, <5>1
      <4> QED
        BY <4>1, <4>2 DEF Direction
    <3>2. wire'[<<3, "back">>] = wire[<<3, "back">>]
      BY <1>1, <1>2, <2>1, <3>1, BothWays, CloseSpares
    <3>3. wire'[<<2, "back">>] = wire[<<2, "back">>]
      <4>1. /\ <<2, "back">> \in Channel /\ Receiver(<<2, "back">>) = 1
            /\ Reverse(<<2, "back">>) = <<2, "out">>
        BY BothWays
      <4> QED
        BY <1>1, <1>2, <1>5, <2>7, <4>1, CloseSpares
    <3>4. wire'[<<1, "back">>] = wire[<<1, "back">>]
      <4>1. /\ <<1, "back">> \in Channel /\ Receiver(<<1, "back">>) = 0
            /\ Sender(<<1, "back">>) = 1
        BY BothWays
      <4> QED
        BY <1>1, <1>2, <2>7, <4>1, CloseSpares
    <3>5. \A l \in 1..3 : wire'[<<l, "back">>] = wire[<<l, "back">>]
      <4>1. \A l \in 1..3 : l = 1 \/ l = 2 \/ l = 3
        OBVIOUS
      <4> QED
        BY <3>2, <3>3, <3>4, <4>1
    <3>6. Loss("back")' = 0
      BY <1>1, <1>2, <2>5, <3>5, AnswerSpared
    <3> QED
      BY <1>1, <1>2, <2>7, <3>1, <3>6 DEF Whole
  <2> QED
    BY <1>4, <2>6, <2>7
<1>7. CASE SendFails(b)
  <2>1. /\ pc[b] = "sendall"
        /\ Receiver(SinkOf(b, e)) \in closed \/ Receiver(SinkOf(b, e)) = 3
    BY <1>0, <1>7 DEF SendFails
  <2>2. CASE e = "out"
    <3>1. Party("out", b) = b /\ b \in 1..2
      BY <1>4 DEF Party
    <3>2. Held("out", b) = 1 /\ Held("out", b)' = 0
      BY <1>0, <1>2, <2>1, <2>2, <3>1, BothWays DEF Held, Carries
    <3> QED
      BY <1>3, <3>1, <3>2
  <2>3. CASE e = "back"
    <3>1. Receiver(SinkOf(b, e)) = b - 1
      BY <1>4, <2>3, BothWays DEF SinkOf
    <3>2. b - 1 \in closed
      BY <1>4, <2>1, <3>1
    <3> QED
      BY <1>1, <1>4, <3>2
  <2> QED
    BY <2>2, <2>3 DEF Direction
<1> QED
  BY <1>4, <1>6, <1>7

\* The target may leave: if nothing it was told is lost, all it has said goes on.
LEMMA TargetLeavesWhole ==
  ASSUME TypeOK, TypeOK', AnswerInv, Heard, Heard', Leaves(3)
  PROVE  Whole'
<1>1. /\ Loss("out") = 0 /\ Loss("out")' = 0 /\ Loss("back") = 0 /\ Emptied
      /\ (1 \in closed => 2 \in closed)
  BY DEF AnswerInv, Whole, Heard, EndInv
<1>2. /\ Close({3}) /\ closed' = closed \cup {3} /\ 3 \in ended'
      /\ UNCHANGED <<sent, got, pc, todo>>
  BY DEF Leaves, Close, bridgeVars
<1>3. \A d \in Direction : \A i \in 1..2 : Held(d, i)' = Held(d, i) /\ Held(d, i)' <= Held(d, i)
  BY <1>2, Numbers DEF Held, Carries, Serving
<1>4. \A i \in 1..3 : Size("out", i)' = Size("out", i)
  BY <1>1, <1>2, <1>3, BothWays, CloseLoses
<1>5. wire[<<3, "out">>] = <<>>
  <2>1. /\ <<3, "out">> \in Channel /\ Receiver(<<3, "out">>) = 3 /\ Chan("out", 3) = <<3, "out">>
    BY BothWays
  <2>2. wire'[<<3, "out">>] = <<>>
    BY <1>1, <1>2, <2>1, CloseSpares
  <2> QED
    BY <1>4, <2>1, <2>2, BothWays, NothingCut
<1>6. \A l \in 1..3 : wire'[<<l, "back">>] = wire[<<l, "back">>]
  <2> SUFFICES ASSUME NEW l \in 1..3
               PROVE  wire'[<<l, "back">>] = wire[<<l, "back">>]
    OBVIOUS
  <2>1. /\ <<l, "back">> \in Channel /\ Receiver(<<l, "back">>) = l - 1
        /\ Sender(<<l, "back">>) = l /\ Reverse(<<l, "back">>) = <<l, "out">>
    BY BothWays
  <2>2. l = 3 => wire[Reverse(<<l, "back">>)] = <<>>
    BY <1>5, <2>1
  <2>3. Receiver(<<l, "back">>) \notin {3} /\ (l # 3 => Sender(<<l, "back">>) \notin {3})
    BY <2>1
  <2> QED
    BY <1>1, <1>2, <2>1, <2>2, <2>3, CloseSpares
<1>7. Loss("back")' = 0
  BY <1>1, <1>2, <1>3, <1>6, BothWays, AnswerSpared
<1> QED
  BY <1>1, <1>2, <1>7 DEF Whole

\* Every step keeps Whole.
LEMMA WholeKept ==
  ASSUME TypeOK, TypeOK', AnswerInv, EndInv', [Next]_vars
  PROVE  Whole'
<1> SUFFICES ASSUME Heard' PROVE Whole'
  BY DEF Whole
<1>1. Heard
  <2>1. ended \subseteq ended' /\ (stop => stop')
    <3>1. CASE \E p \in Peers : PeerStep(p)
      BY <3>1 DEF PeerStep, Send, EndsSpeech, Leaves, Hears, HearsEnd
    <3>2. CASE \E b \in Bridges : BridgeStep(b)
      <4>1. PICK b \in Bridges : BridgeStep(b)
        BY <3>2
      <4>2. CASE Select(b) \/ SendAll(b)
        BY <4>2 DEF Select, SendAll, peerVars
      <4>3. CASE FindsStop(b) \/ SendFails(b)
        BY <4>3 DEF FindsStop, SendFails, Finish, peerVars
      <4>4. CASE Receive(b)
        BY <4>4 DEF Receive, Finish, peerVars
      <4> QED
        BY <4>1, <4>2, <4>3, <4>4 DEF BridgeStep
    <3>3. CASE WorkerDies
      BY <3>3 DEF WorkerDies
    <3>4. CASE SetStop \/ UNCHANGED vars
      BY <3>4 DEF SetStop, vars, peerVars
    <3> QED
      BY <3>1, <3>2, <3>3, <3>4 DEF Next
  <2>2. Loss("out")' >= Loss("out") /\ Loss("out") >= 0 /\ Loss("out") \in Int
    BY BothWays, LossStays, Numbers DEF AnswerInv, NoGain
  <2>3. Loss("out")' = 0 /\ 0 \notin ended' /\ ~stop'
    BY DEF Heard
  <2>4. Loss("out") = 0
    BY <2>2, <2>3
  <2> QED
    BY <2>1, <2>3, <2>4 DEF Heard
<1>2. /\ Loss("out") = 0 /\ Loss("out")' = 0 /\ Loss("back") = 0
      /\ (1 \in closed => 2 \in closed) /\ (2 \in closed => 3 \in ended)
      /\ 0 \notin closed /\ 0 \notin ended' /\ ~stop'
  BY <1>1 DEF AnswerInv, Whole, Heard, EndInv, Peers
<1>3. ASSUME closed' = closed, ended \subseteq ended', Loss("back")' = Loss("back")
      PROVE  Whole'
  BY <1>2, <1>3 DEF Whole
<1>4. ASSUME UNCHANGED <<wire, closed, sent, got, pc, todo>>, ended \subseteq ended'
      PROVE  Whole'
  <2>1. Loss("back")' = Loss("back")
    BY <1>4, BothWays, SameLosesNothing DEF Carries, Serving
  <2> QED
    BY <1>3, <1>4, <2>1
<1>5. ASSUME NEW p \in Peers, PeerStep(p)
      PROVE  Whole'
  <2>1. CASE Send(p)
    <3>1. Receiver(Speech(p)) \notin closed
      <4>1. CASE p = 0
        <5>1. Speech(p)[2] = "out" /\ "out" \in Direction
          BY <4>1, BothWays DEF Speech
        <5>2. Receiver(Speech(p)) \in closed => Loss("out")' > Loss("out")
          BY <2>1, <5>1, SendLoses
        <5> QED
          BY <1>2, <5>2
      <4>2. CASE p = 3
        <5>1. Receiver(Speech(p)) = 2 /\ 3 \notin ended
          BY <2>1, <4>2, BothWays DEF Speech, Send
        <5> QED
          BY <1>2, <5>1
      <4> QED
        BY <4>1, <4>2 DEF Peers
    <3>2. Loss("back")' = Loss("back")
      BY <2>1, <3>1, BothWays, SendLoses
    <3>3. closed' = closed /\ ended' = ended
      BY <2>1 DEF Send
    <3> QED
      BY <1>3, <3>2, <3>3
  <2>2. CASE EndsSpeech(p) \/ HearsEnd(p)
    BY <1>4, <2>2 DEF EndsSpeech, HearsEnd, bridgeVars
  <2>3. CASE Leaves(p)
    <3>1. p = 3
      BY <1>2, <2>3 DEF Leaves, Peers
    <3> QED
      BY <1>1, <2>3, <3>1, TargetLeavesWhole
  <2>4. CASE Hears(p)
    <3>1. Loss("back")' = Loss("back")
      BY <2>4, BothWays, HearsLoses
    <3>2. closed' = closed /\ ended' = ended
      BY <2>4 DEF Hears
    <3> QED
      BY <1>3, <3>1, <3>2
  <2> QED
    BY <1>5, <2>1, <2>2, <2>3, <2>4 DEF PeerStep
<1>6. ASSUME NEW b \in Bridges, BridgeStep(b)
      PROVE  Whole'
  <2>0. PICK e \in Direction : e = Serving(b)
    BY DEF Serving, Direction
  <2>1. CASE Select(b)
    <3>1. UNCHANGED <<wire, closed, sent, got, ended>> /\ pc[b] = "select" /\ pc'[b] = "recv"
          /\ \A j \in Bridges : j # b => pc'[j] = pc[j] /\ todo'[j] = todo[j]
      BY <2>1 DEF Select, peerVars, TypeOK
    <3>2. \A i \in 1..2 : Carries(Party("back", i), "back")' = Carries(Party("back", i), "back")
      <4>1. \A i \in 1..2 : Party("back", i) \in Bridges
        BY DEF Party, Bridges
      <4> QED
        BY <3>1, <4>1 DEF Carries, Serving
    <3>3. Loss("back")' = Loss("back")
      BY <3>1, <3>2, BothWays, SameLosesNothing
    <3> QED
      BY <1>3, <3>1, <3>3
  <2>2. CASE Finish(b)
    <3>1. FindsStop(b) \/ Receive(b) \/ SendFails(b)
      BY <1>6, <2>2 DEF BridgeStep, Select, SendAll, Finish, TypeOK
    <3> QED
      BY <1>1, <2>2, <3>1, FinishWhole
  <2>3. CASE Receive(b) /\ wire[SourceOf(b, e)] # <<>>
    <3>1. Loss("back")' = Loss("back")
      BY <2>0, <2>3, BothWays, ReceiveLoses
    <3>2. closed' = closed /\ ended' = ended
      BY <2>0, <2>3 DEF Receive, peerVars
    <3> QED
      BY <1>3, <3>1, <3>2
  <2>4. CASE SendAll(b)
    <3>1. closed' = closed /\ ended' = ended /\ b \notin closed /\ b \in 1..2
      BY <2>4 DEF SendAll, peerVars, TypeOK, Bridges
    <3>2. Receiver(SinkOf(b, e)) \notin closed
      <4>1. CASE e = "out"
        <5>1. Receiver(SinkOf(b, e)) \in closed => Loss("out")' > Loss("out")
          BY <2>0, <2>4, <4>1, BothWays, SendAllLoses
        <5> QED
          BY <1>2, <5>1
      <4>2. CASE e = "back"
        <5>1. Receiver(SinkOf(b, e)) = b - 1
          BY <3>1, <4>2, BothWays DEF SinkOf
        <5> QED
          BY <1>2, <3>1, <5>1
      <4> QED
        BY <4>1, <4>2 DEF Direction
    <3>3. Loss("back")' = Loss("back")
      BY <2>0, <2>4, <3>2, BothWays, SendAllLoses
    <3> QED
      BY <1>3, <3>1, <3>3
  <2> QED
    BY <1>6, <2>0, <2>1, <2>2, <2>3, <2>4 DEF BridgeStep, FindsStop, Receive, SendFails
<1>7. CASE WorkerDies \/ SetStop
  BY <1>2, <1>7 DEF WorkerDies, SetStop
<1>8. CASE UNCHANGED vars
  BY <1>4, <1>8 DEF vars, peerVars, bridgeVars
<1> QED
  BY <1>5, <1>6, <1>7, <1>8 DEF Next

\* AnswerInv, for every capacity and every number of elements.
THEOREM AnswerInvariant == Spec => []AnswerInv
<1>1. Init => AnswerInv
  <2> SUFFICES ASSUME Init PROVE AnswerInv
    OBVIOUS
  <2>1. /\ \A c \in Channel : wire[c] = <<>> /\ Len(wire[c]) = 0
        /\ closed = {} /\ notified = {}
        /\ \A b \in Bridges : pc[b] = "select"
        /\ \A d \in Direction : sent[d] = 0 /\ Len(got[d]) = 0
    BY DEF Init
  <2>2. EndInv
    BY <2>1 DEF EndInv, Emptied, Found, Pending, EndHeard
  <2>3. \A d \in Direction : Loss(d) = 0
    <3> SUFFICES ASSUME NEW d \in Direction PROVE Loss(d) = 0
      OBVIOUS
    <3>1. Size(d, 1) = 0 /\ Size(d, 2) = 0 /\ Size(d, 3) = 0
      BY <2>1, Neighbours DEF Size
    <3>2. Held(d, 1) = 0 /\ Held(d, 2) = 0
      <4>1. Party(d, 1) \in Bridges /\ Party(d, 2) \in Bridges
        BY DEF Party, Bridges
      <4> QED
        BY <2>1, <4>1 DEF Held, Carries
    <3> QED
      BY <2>1, <3>1, <3>2 DEF Loss, UnderWay
  <2>4. NoGain /\ Whole
    BY <2>1, <2>3, BothWays DEF NoGain, Whole
  <2> QED
    BY <2>2, <2>4 DEF AnswerInv
<1>2. ASSUME TypeOK, TypeOK', AnswerInv, [Next]_vars
      PROVE  AnswerInv'
  <2>1. EndInv'
    BY <1>2, EndsKept DEF AnswerInv
  <2>2. NoGain'
    <3> SUFFICES ASSUME NEW d \in Direction PROVE Loss(d)' >= 0
      BY DEF NoGain
    <3>1. Loss(d)' >= Loss(d) /\ Loss(d) >= 0 /\ Loss(d) \in Int /\ Loss(d)' \in Int
      BY <1>2, LossStays, Numbers, NumbersThen DEF AnswerInv, NoGain
    <3> QED
      BY <3>1
  <2>3. Whole'
    BY <1>2, <2>1, WholeKept
  <2> QED
    BY <2>1, <2>2, <2>3 DEF AnswerInv
<1> QED
  BY <1>1, <1>2, BridgeTyped, PTL DEF Spec

\* AnswerIsWhole: a client that has been heard in full, did not end its own
\* direction and was not cut off by the end of the arena has the whole answer when
\* it receives the end of it.
THEOREM AnswersWhole == Spec => []AnswerIsWhole
<1>1. ASSUME TypeOK, AnswerInv
      PROVE  AnswerIsWhole
  <2> SUFFICES ASSUME 0 \in notified, 0 \notin ended, ~stop, Len(got["out"]) = sent["out"]
               PROVE  Len(got["back"]) = sent["back"]
    BY DEF AnswerIsWhole
  <2>1. Loss("out") = 0
    <3>1. /\ Size("out", 1) \in Nat /\ Size("out", 2) \in Nat /\ Size("out", 3) \in Nat
          /\ Held("out", 1) \in Nat /\ Held("out", 2) \in Nat /\ sent["out"] \in Nat
      BY <1>1, BothWays, Numbers
    <3>2. UnderWay("out") >= 0 /\ UnderWay("out") \in Nat
      BY <3>1 DEF UnderWay
    <3>3. Loss("out") = sent["out"] - (sent["out"] + UnderWay("out")) /\ Loss("out") >= 0
      BY <1>1, BothWays DEF Loss, AnswerInv, NoGain
    <3> QED
      BY <3>1, <3>2, <3>3
  <2>2. /\ Loss("back") = 0 /\ 1 \in closed /\ 2 \in closed
        /\ wire[<<1, "back">>] = <<>> /\ Emptied
    BY <1>1, <2>1 DEF AnswerInv, Whole, Heard, EndInv, EndHeard
  <2>3. \A l \in 1..3 : wire[<<l, "back">>] = <<>>
    <3> SUFFICES ASSUME NEW l \in 2..3 PROVE wire[<<l, "back">>] = <<>>
      <4>1. \A l \in 1..3 : l = 1 \/ l \in 2..3
        OBVIOUS
      <4> QED
        BY <2>2, <4>1
    <3>1. l \in 1..3 /\ l - 1 \in {1, 2}
      OBVIOUS
    <3>2. <<l, "back">> \in Channel /\ Receiver(<<l, "back">>) \in closed
      BY <2>2, <3>1, BothWays
    <3> QED
      BY <2>2, <3>2 DEF Emptied
  <2>4. Size("back", 1) = 0 /\ Size("back", 2) = 0 /\ Size("back", 3) = 0
    <3>1. /\ Chan("back", 1) = <<3, "back">> /\ Chan("back", 2) = <<2, "back">>
          /\ Chan("back", 3) = <<1, "back">>
      BY BothWays
    <3> QED
      BY <2>3, <3>1 DEF Size
  <2>5. Held("back", 1) = 0 /\ Held("back", 2) = 0
    BY <1>1, <2>2, BothWays DEF Held, Carries, TypeOK, Bridges
  <2>6. Loss("back") = sent["back"] - (Len(got["back"]) + (0 + 0 + 0 + 0 + 0))
    BY <2>4, <2>5 DEF Loss, UnderWay
  <2>7. sent["back"] \in Nat /\ Len(got["back"]) \in Nat
    BY <1>1, BothWays, Numbers
  <2> QED
    BY <2>2, <2>6, <2>7
<1> QED
  BY <1>1, BridgeTyped, AnswerInvariant, PTL

----------------------------------------------------------------------------
(* The way of a connection to its end: a number that every step makes      *)
(* smaller, whoever takes it.                                              *)

\* Every element is still to be sent, to be received by one of the relays, in its
\* hand, or to be heard; each of these costs what the steps that follow it need.
DirectionLeft(d) ==
  8 * (MaxSent - sent[d]) + 7 * Size(d, 1) + 6 * Held(d, 1)
    + 4 * Size(d, 2) + 3 * Held(d, 2) + Size(d, 3)

\* A bridge between two rounds may begin one more.
BridgeLeft(b) == IF pc[b] = "done" THEN 0 ELSE IF pc[b] = "select" THEN 2 ELSE 1

\* A peer may still shut down its direction, leave, and hear the end.
PeerLeft(p) ==
  (IF p \in ended THEN 0 ELSE 1) + (IF p \in closed THEN 0 ELSE 1)
    + (IF p \in notified THEN 0 ELSE 1)

StopLeft == IF stop THEN 0 ELSE 1

PartiesLeft == BridgeLeft(1) + BridgeLeft(2) + PeerLeft(0) + PeerLeft(3) + StopLeft

\* The steps a connection has left at most.
StepsLeft == DirectionLeft("out") + DirectionLeft("back") + PartiesLeft

\* Each step of a connection brings it nearer to its end, whoever takes it: no relay
\* goes round its loop for nothing.
ConnectionDrawsNear == [][StepsLeft' < StepsLeft]_vars

\* What a direction has left is a number.
LEMMA DirectionCounts ==
  ASSUME TypeOK, NEW d \in Direction
  PROVE  DirectionLeft(d) \in Nat
<1> DEFINE s == MaxSent - sent[d]
           a1 == Size(d, 1)  a2 == Held(d, 1)  a3 == Size(d, 2)  a4 == Held(d, 2)  a5 == Size(d, 3)
<1>1. /\ a1 \in Nat /\ a2 \in Nat /\ a3 \in Nat /\ a4 \in Nat /\ a5 \in Nat
  BY Numbers
<1>2. s \in Nat
  BY BridgeAssumption DEF TypeOK
<1>3. DirectionLeft(d) = 8 * s + 7 * a1 + 6 * a2 + 4 * a3 + 3 * a4 + a5
  BY DEF DirectionLeft
<1> HIDE DEF s, a1, a2, a3, a4, a5
<1> QED
  BY ONLY <1>1, <1>2, <1>3

\* The account of a step: how much nearer its end a direction is for what was sent
\* and for what each place on the path has more than before.
LEMMA DirectionAccount ==
  ASSUME TypeOK, TypeOK', NEW d \in Direction
  PROVE  /\ DirectionLeft(d) \in Nat /\ DirectionLeft(d)' \in Nat
         /\ DirectionLeft(d)' - DirectionLeft(d) =
              7 * (Size(d, 1)' - Size(d, 1)) + 6 * (Held(d, 1)' - Held(d, 1))
              + 4 * (Size(d, 2)' - Size(d, 2)) + 3 * (Held(d, 2)' - Held(d, 2))
              + (Size(d, 3)' - Size(d, 3)) - 8 * (sent'[d] - sent[d])
<1> DEFINE before == DirectionLeft(d)  after == DirectionLeft(d)'  s1 == sent[d]  s2 == sent'[d]
           a1 == Size(d, 1)  a2 == Held(d, 1)  a3 == Size(d, 2)  a4 == Held(d, 2)  a5 == Size(d, 3)
           b1 == Size(d, 1)'  b2 == Held(d, 1)'  b3 == Size(d, 2)'  b4 == Held(d, 2)'  b5 == Size(d, 3)'
<1>1. /\ a1 \in Nat /\ a2 \in Nat /\ a3 \in Nat /\ a4 \in Nat /\ a5 \in Nat
      /\ s1 \in Nat /\ before \in Nat
  BY Numbers, DirectionCounts
<1>2. /\ b1 \in Nat /\ b2 \in Nat /\ b3 \in Nat /\ b4 \in Nat /\ b5 \in Nat /\ s2 \in Nat
  BY NumbersThen
<1>3. after \in Nat
  <2>1. MaxSent - s2 \in Nat
    BY BridgeAssumption DEF TypeOK
  <2>2. after = 8 * (MaxSent - s2) + 7 * b1 + 6 * b2 + 4 * b3 + 3 * b4 + b5
    BY DEF DirectionLeft
  <2> HIDE DEF s2, b1, b2, b3, b4, b5, after
  <2> QED
    BY ONLY <1>2, <2>1, <2>2
<1>4. before = 8 * (MaxSent - s1) + 7 * a1 + 6 * a2 + 4 * a3 + 3 * a4 + a5
  BY DEF DirectionLeft
<1>5. after = 8 * (MaxSent - s2) + 7 * b1 + 6 * b2 + 4 * b3 + 3 * b4 + b5
  BY DEF DirectionLeft
<1>6. MaxSent \in Nat
  BY BridgeAssumption
<1> HIDE DEF before, after, s1, s2, a1, a2, a3, a4, a5, b1, b2, b3, b4, b5
<1>7. after - before = 7 * (b1 - a1) + 6 * (b2 - a2) + 4 * (b3 - a3) + 3 * (b4 - a4)
                         + (b5 - a5) - 8 * (s2 - s1)
  BY ONLY <1>1, <1>2, <1>3, <1>4, <1>5, <1>6
<1> QED
  BY ONLY <1>1, <1>3, <1>7 DEF before, after, s1, s2, a1, a2, a3, a4, a5, b1, b2, b3, b4, b5

\* Where nothing is sent and no place has more than before, nothing is added.
LEMMA DirectionFalls ==
  ASSUME TypeOK, TypeOK', NEW d \in Direction, sent'[d] = sent[d],
         \A i \in 1..3 : Size(d, i)' <= Size(d, i),
         \A i \in 1..2 : Held(d, i)' <= Held(d, i)
  PROVE  DirectionLeft(d)' <= DirectionLeft(d)
<1> DEFINE before == DirectionLeft(d)  after == DirectionLeft(d)'
           a1 == Size(d, 1)  a2 == Held(d, 1)  a3 == Size(d, 2)  a4 == Held(d, 2)  a5 == Size(d, 3)
           b1 == Size(d, 1)'  b2 == Held(d, 1)'  b3 == Size(d, 2)'  b4 == Held(d, 2)'  b5 == Size(d, 3)'
<1>1. /\ a1 \in Nat /\ a2 \in Nat /\ a3 \in Nat /\ a4 \in Nat /\ a5 \in Nat
      /\ b1 \in Nat /\ b2 \in Nat /\ b3 \in Nat /\ b4 \in Nat /\ b5 \in Nat
  BY Numbers, NumbersThen
<1>2. b1 <= a1 /\ b2 <= a2 /\ b3 <= a3 /\ b4 <= a4 /\ b5 <= a5
  OBVIOUS
<1>3. sent[d] \in Nat /\ sent'[d] - sent[d] = 0
  BY Numbers
<1>4. /\ before \in Nat /\ after \in Nat
      /\ after - before = 7 * (b1 - a1) + 6 * (b2 - a2) + 4 * (b3 - a3) + 3 * (b4 - a4)
                           + (b5 - a5) - 8 * 0
  BY <1>3, DirectionAccount
<1> HIDE DEF before, after, a1, a2, a3, a4, a5, b1, b2, b3, b4, b5
<1>5. after <= before
  BY ONLY <1>1, <1>2, <1>4
<1> QED
  BY <1>5 DEF before, after

\* Nor where a direction is left alone.
LEMMA DirectionStays ==
  ASSUME TypeOK, TypeOK', NEW d \in Direction, sent'[d] = sent[d],
         \A c \in Channel : c[2] = d => wire'[c] = wire[c],
         \A i \in 1..2 : Carries(Party(d, i), d)' = Carries(Party(d, i), d)
  PROVE  DirectionLeft(d)' <= DirectionLeft(d)
<1>1. \A i \in 1..3 : Size(d, i)' <= Size(d, i)
  <2>1. \A i \in 1..3 : Size(d, i)' = Size(d, i) /\ Size(d, i) \in Nat
    BY Neighbours, Numbers DEF Size
  <2> QED
    BY <2>1
<1>2. \A i \in 1..2 : Held(d, i)' <= Held(d, i)
  <2>1. \A i \in 1..2 : Held(d, i)' = Held(d, i) /\ Held(d, i) \in 0..1
    BY Numbers DEF Held
  <2> QED
    BY <2>1
<1> QED
  BY <1>1, <1>2, DirectionFalls

\* Closing adds nothing to a direction.
LEMMA CloseFalls ==
  ASSUME TypeOK, TypeOK', NEW parties, Close(parties), NEW d \in Direction,
         sent'[d] = sent[d], \A i \in 1..2 : Held(d, i)' <= Held(d, i)
  PROVE  DirectionLeft(d)' <= DirectionLeft(d)
<1>1. \A i \in 1..3 : Size(d, i)' <= Size(d, i)
  BY TypeParts, Neighbours, CloseLeaves DEF WiresFit, Prefix, Size
<1> QED
  BY <1>1, DirectionFalls

\* A peer that sends costs its direction one step more than the element has to go.
LEMMA SendNears ==
  ASSUME TypeOK, TypeOK', NEW p \in Peers, Send(p), NEW d \in Direction
  PROVE  IF d = Speech(p)[2] THEN DirectionLeft(d)' < DirectionLeft(d)
         ELSE DirectionLeft(d)' <= DirectionLeft(d)
<1> DEFINE e == Speech(p)[2]  element == sent'[e]
<1>0. e \in Direction /\ Speech(p) = Chan(e, 1)
  BY PeerPlaces
<1>1. sent[e] \in Nat /\ sent[d] \in Nat
  BY <1>0, Numbers
<1>2. /\ element = sent[e] + 1 /\ element \in 1..MaxSent /\ Put(Chan(e, 1), element)
      /\ UNCHANGED bridgeVars /\ (d # e => sent'[d] = sent[d])
  <2>1. sent \in [Direction -> 0..MaxSent] /\ sent[e] < MaxSent
    BY <1>0 DEF Send, TypeOK
  <2>2. sent' = [sent EXCEPT ![e] = sent[e] + 1]
    BY DEF Send
  <2>3. element = sent[e] + 1 /\ (d # e => sent'[d] = sent[d])
    BY <1>0, <2>1, <2>2
  <2>4. element \in 1..MaxSent
    BY <1>0, <2>1, <2>3, BridgeAssumption
  <2> QED
    BY <1>0, <2>3, <2>4 DEF Send
<1> HIDE DEF element
<1>3. /\ Size(e, 1)' - Size(e, 1) = 1 \/ Size(e, 1)' - Size(e, 1) = 0
      /\ \A c \in Channel : c # Chan(e, 1) =>
              /\ Len(wire'[c]) <= Len(wire[c])
              /\ c # Reverse(Chan(e, 1)) => wire'[c] = wire[c]
  BY <1>0, <1>2, PutSizes
<1>4. \A i \in 1..2 : Carries(Party(d, i), d)' = Carries(Party(d, i), d)
  BY <1>2 DEF Carries, Serving, bridgeVars
<1>5. CASE d = e
  <2>1. wire'[Chan(d, 2)] = wire[Chan(d, 2)] /\ wire'[Chan(d, 3)] = wire[Chan(d, 3)]
    BY <1>0, <1>3, <1>5, Apart, Neighbours
  <2>2. Size(d, 2)' - Size(d, 2) = 0 /\ Size(d, 3)' - Size(d, 3) = 0
    BY <2>1, Alone
  <2>3. Held(d, 1)' - Held(d, 1) = 0 /\ Held(d, 2)' - Held(d, 2) = 0
    BY <1>4, Alone
  <2>4. sent'[d] - sent[d] = 1
    BY <1>1, <1>2, <1>5 DEF element
  <2>5. /\ DirectionLeft(d) \in Nat /\ DirectionLeft(d)' \in Nat
        /\ DirectionLeft(d)' - DirectionLeft(d) =
             7 * (Size(d, 1)' - Size(d, 1)) + 6 * 0 + 4 * 0 + 3 * 0 + 0 - 8 * 1
    BY <2>2, <2>3, <2>4, DirectionAccount
  <2>6. Size(d, 1)' - Size(d, 1) = 1 \/ Size(d, 1)' - Size(d, 1) = 0
    BY <1>3, <1>5
  <2>7. DirectionLeft(d)' < DirectionLeft(d)
    BY ONLY <2>5, <2>6
  <2> QED
    BY <1>5, <2>7
<1>6. CASE d # e
  <2>1. \A i \in 1..3 : Chan(d, i) \in Channel /\ Chan(d, i) # Chan(e, 1)
    BY <1>0, <1>6, Apart, Neighbours
  <2>2. \A i \in 1..3 : Size(d, i)' <= Size(d, i)
    BY <1>3, <2>1 DEF Size
  <2>3. \A i \in 1..2 : Held(d, i)' = Held(d, i) /\ Held(d, i) \in 0..1
    BY <1>4, Numbers DEF Held
  <2>4. \A i \in 1..2 : Held(d, i)' <= Held(d, i)
    BY <2>3
  <2> QED
    BY <1>2, <1>6, <2>2, <2>4, DirectionFalls
<1> QED
  BY <1>5, <1>6

\* So does a peer that receives.
LEMMA HearsNears ==
  ASSUME TypeOK, TypeOK', NEW p \in Peers, Hears(p), NEW d \in Direction
  PROVE  IF d = Hearing(p)[2] THEN DirectionLeft(d)' < DirectionLeft(d)
         ELSE DirectionLeft(d)' <= DirectionLeft(d)
<1> DEFINE e == Hearing(p)[2]
<1>0. e \in Direction /\ Hearing(p) = Chan(e, 3)
  BY PeerPlaces
<1>1. sent[d] \in Nat
  BY Numbers
<1>2. Takes(Chan(e, 3)) /\ sent' = sent /\ UNCHANGED bridgeVars
  BY <1>0 DEF Hears, Takes
<1>3. /\ Size(e, 3)' - Size(e, 3) = -1
      /\ \A c \in Channel : c # Chan(e, 3) => wire'[c] = wire[c]
  BY <1>0, <1>2, TakeSizes
<1>4. \A i \in 1..2 : Carries(Party(d, i), d)' = Carries(Party(d, i), d)
  BY <1>2 DEF Carries, Serving, bridgeVars
<1>5. CASE d = e
  <2>1. wire'[Chan(d, 1)] = wire[Chan(d, 1)] /\ wire'[Chan(d, 2)] = wire[Chan(d, 2)]
    BY <1>0, <1>3, <1>5, Apart, Neighbours
  <2>2. Size(d, 1)' - Size(d, 1) = 0 /\ Size(d, 2)' - Size(d, 2) = 0
    BY <2>1, Alone
  <2>3. Held(d, 1)' - Held(d, 1) = 0 /\ Held(d, 2)' - Held(d, 2) = 0
    BY <1>4, Alone
  <2>4. sent'[d] - sent[d] = 0 /\ Size(d, 3)' - Size(d, 3) = -1
    BY <1>1, <1>2, <1>3, <1>5
  <2>5. /\ DirectionLeft(d) \in Nat /\ DirectionLeft(d)' \in Nat
        /\ DirectionLeft(d)' - DirectionLeft(d) = 7 * 0 + 6 * 0 + 4 * 0 + 3 * 0 + (-1) - 8 * 0
    BY <2>2, <2>3, <2>4, DirectionAccount
  <2>6. DirectionLeft(d)' < DirectionLeft(d)
    BY ONLY <2>5
  <2> QED
    BY <1>5, <2>6
<1>6. CASE d # e
  <2>1. \A c \in Channel : c[2] = d => wire'[c] = wire[c]
    BY <1>0, <1>3, <1>6, Neighbours
  <2> QED
    BY <1>2, <1>4, <1>6, <2>1, DirectionStays
<1> QED
  BY <1>5, <1>6

\* A bridge that receives data moves it on.
LEMMA ReceiveNears ==
  ASSUME TypeOK, TypeOK', NEW b \in Bridges, NEW e \in Direction, e = Serving(b),
         Receive(b), wire[SourceOf(b, e)] # <<>>, NEW d \in Direction
  PROVE  IF d = e THEN DirectionLeft(d)' < DirectionLeft(d)
         ELSE DirectionLeft(d)' <= DirectionLeft(d)
<1> DEFINE i == Party(e, b)
<1>0. i \in 1..2 /\ Party(e, i) = b /\ SourceOf(b, e) = Chan(e, i)
  BY BridgePlaces
<1>1. sent[d] \in Nat
  BY Numbers
<1> HIDE DEF i
<1>2. /\ Takes(Chan(e, i)) /\ sent' = sent /\ todo' = todo
      /\ pc[b] = "recv" /\ pc'[b] = "sendall" /\ \A j \in Bridges : j # b => pc'[j] = pc[j]
  BY <1>0 DEF Receive, Takes, peerVars, TypeOK
<1>3. /\ Size(e, i)' - Size(e, i) = -1
      /\ \A c \in Channel : c # Chan(e, i) => wire'[c] = wire[c]
  BY <1>0, <1>2, TakeSizes
<1>4. \A j \in 1..2 : Party(d, j) \in Bridges /\ (d # e \/ j # i =>
        Carries(Party(d, j), d)' = Carries(Party(d, j), d))
  <2>1. \A j \in 1..2 : Party(d, j) \in Bridges /\ (d = e /\ j # i => Party(d, j) # b)
    BY <1>0 DEF Party, Bridges
  <2> QED
    BY <1>2, <2>1 DEF Carries, Serving
<1>5. CASE d = e
  <2>1. Held(d, i)' - Held(d, i) = 1 /\ Size(d, i)' - Size(d, i) = -1 /\ sent'[d] - sent[d] = 0
    BY <1>0, <1>1, <1>2, <1>3, <1>5 DEF Held, Carries, Serving
  <2>2. \A j \in 1..3 : j # i => wire'[Chan(d, j)] = wire[Chan(d, j)]
    BY <1>0, <1>3, <1>5, Apart, Neighbours
  <2>3. DirectionLeft(d) \in Nat /\ DirectionLeft(d)' \in Nat
    BY DirectionAccount
  <2>4. CASE i = 1
    <3>1. Size(d, 2)' - Size(d, 2) = 0 /\ Size(d, 3)' - Size(d, 3) = 0
          /\ Held(d, 2)' - Held(d, 2) = 0
      BY <1>4, <2>2, <2>4, Alone
    <3>2. DirectionLeft(d)' - DirectionLeft(d) = 7 * (-1) + 6 * 1 + 4 * 0 + 3 * 0 + 0 - 8 * 0
      BY <2>1, <2>4, <3>1, DirectionAccount
    <3> QED
      BY ONLY <2>3, <3>2
  <2>5. CASE i = 2
    <3>1. Size(d, 1)' - Size(d, 1) = 0 /\ Size(d, 3)' - Size(d, 3) = 0
          /\ Held(d, 1)' - Held(d, 1) = 0
      BY <1>4, <2>2, <2>5, Alone
    <3>2. DirectionLeft(d)' - DirectionLeft(d) = 7 * 0 + 6 * 0 + 4 * (-1) + 3 * 1 + 0 - 8 * 0
      BY <2>1, <2>5, <3>1, DirectionAccount
    <3> QED
      BY ONLY <2>3, <3>2
  <2> QED
    BY <1>0, <2>4, <2>5
<1>6. CASE d # e
  <2>1. \A c \in Channel : c[2] = d => wire'[c] = wire[c]
    BY <1>0, <1>3, <1>6, Neighbours
  <2> QED
    BY <1>2, <1>4, <1>6, <2>1, DirectionStays
<1> QED
  BY <1>5, <1>6

\* A bridge that hands data on moves it by two steps, one for itself and one for
\* the round it may have ended.
LEMMA SendAllNears ==
  ASSUME TypeOK, TypeOK', NEW b \in Bridges, NEW e \in Direction, e = Serving(b),
         SendAll(b), NEW d \in Direction
  PROVE  IF d = e THEN DirectionLeft(d)' + 1 < DirectionLeft(d)
         ELSE DirectionLeft(d)' <= DirectionLeft(d)
<1> DEFINE i == Party(e, b)
<1>0. i \in 1..2 /\ Party(e, i) = b /\ SinkOf(b, e) = Chan(e, i + 1) /\ i + 1 \in 1..3
  BY BridgePlaces
<1>1. sent[d] \in Nat
  BY Numbers
<1> HIDE DEF i
<1>2. /\ Put(Chan(e, i + 1), hand[b]) /\ hand[b] \in 1..MaxSent /\ sent' = sent
      /\ pc[b] = "sendall" /\ pc'[b] # "sendall"
      /\ \A j \in Bridges : j # b => pc'[j] = pc[j] /\ todo'[j] = todo[j]
  BY <1>0 DEF SendAll, peerVars, TypeOK
<1>3. /\ Size(e, i + 1)' - Size(e, i + 1) = 1 \/ Size(e, i + 1)' - Size(e, i + 1) = 0
      /\ \A c \in Channel : c # Chan(e, i + 1) =>
              /\ Len(wire'[c]) <= Len(wire[c])
              /\ c # Reverse(Chan(e, i + 1)) => wire'[c] = wire[c]
  <2>1. PICK element \in 1..MaxSent : element = hand[b]
    BY <1>2
  <2>2. Put(Chan(e, i + 1), element)
    BY <1>2, <2>1
  <2> QED
    BY <1>0, <2>2, PutSizes
<1>4. \A j \in 1..2 : Party(d, j) \in Bridges /\ (d # e \/ j # i =>
        Carries(Party(d, j), d)' = Carries(Party(d, j), d))
  <2>1. \A j \in 1..2 : Party(d, j) \in Bridges /\ (d = e /\ j # i => Party(d, j) # b)
    BY <1>0 DEF Party, Bridges
  <2> QED
    BY <1>2, <2>1 DEF Carries, Serving
<1>5. CASE d = e
  <2>1. Held(d, i)' - Held(d, i) = -1
    BY <1>0, <1>2, <1>5 DEF Held, Carries
  <2>2. \A j \in 1..3 : j # i + 1 => wire'[Chan(d, j)] = wire[Chan(d, j)]
    BY <1>0, <1>3, <1>5, Apart, Neighbours
  <2>3. sent'[d] - sent[d] = 0
    BY <1>1, <1>2
  <2>4. DirectionLeft(d) \in Nat /\ DirectionLeft(d)' \in Nat
    BY DirectionAccount
  <2>5. CASE i = 1
    <3>1. Size(d, 1)' - Size(d, 1) = 0 /\ Size(d, 3)' - Size(d, 3) = 0
          /\ Held(d, 2)' - Held(d, 2) = 0 /\ i + 1 = 2
      BY <1>4, <2>2, <2>5, Alone
    <3>2. Size(d, 2)' - Size(d, 2) = 1 \/ Size(d, 2)' - Size(d, 2) = 0
      BY <1>3, <1>5, <3>1
    <3>3. DirectionLeft(d)' - DirectionLeft(d) =
            7 * 0 + 6 * (-1) + 4 * (Size(d, 2)' - Size(d, 2)) + 3 * 0 + 0 - 8 * 0
      BY <2>1, <2>3, <2>5, <3>1, DirectionAccount
    <3> QED
      BY ONLY <2>4, <3>2, <3>3
  <2>6. CASE i = 2
    <3>1. Size(d, 1)' - Size(d, 1) = 0 /\ Size(d, 2)' - Size(d, 2) = 0
          /\ Held(d, 1)' - Held(d, 1) = 0 /\ i + 1 = 3
      BY <1>4, <2>2, <2>6, Alone
    <3>2. Size(d, 3)' - Size(d, 3) = 1 \/ Size(d, 3)' - Size(d, 3) = 0
      BY <1>3, <1>5, <3>1
    <3>3. DirectionLeft(d)' - DirectionLeft(d) =
            7 * 0 + 6 * 0 + 4 * 0 + 3 * (-1) + (Size(d, 3)' - Size(d, 3)) - 8 * 0
      BY <2>1, <2>3, <2>6, <3>1, DirectionAccount
    <3> QED
      BY ONLY <2>4, <3>2, <3>3
  <2> QED
    BY <1>0, <2>5, <2>6
<1>6. CASE d # e
  <2>1. \A j \in 1..3 : Chan(d, j) \in Channel /\ Chan(d, j) # Chan(e, i + 1)
    BY <1>0, <1>6, Apart, Neighbours
  <2>2. \A j \in 1..3 : Size(d, j)' <= Size(d, j)
    BY <1>3, <2>1 DEF Size
  <2>3. \A j \in 1..2 : Held(d, j)' = Held(d, j) /\ Held(d, j) \in 0..1
    BY <1>4, <1>6, Numbers DEF Held
  <2>4. \A j \in 1..2 : Held(d, j)' <= Held(d, j)
    BY <2>3
  <2> QED
    BY <1>2, <1>6, <2>2, <2>4, DirectionFalls
<1> QED
  BY <1>5, <1>6

----------------------------------------------------------------------------
(* Every step of the connection.                                           *)

\* What the parties have left is a number, and small.
LEMMA PartiesCount ==
  /\ \A b \in Bridges : BridgeLeft(b) \in 0..2 /\ BridgeLeft(b)' \in 0..2
  /\ \A p \in Peers : PeerLeft(p) \in 0..3 /\ PeerLeft(p)' \in 0..3
  /\ StopLeft \in 0..1 /\ StopLeft' \in 0..1
  /\ PartiesLeft \in 0..11 /\ PartiesLeft' \in 0..11
<1>1. \A b \in Bridges : BridgeLeft(b) \in 0..2 /\ BridgeLeft(b)' \in 0..2
  BY DEF BridgeLeft
<1>2. \A p \in Peers : PeerLeft(p) \in 0..3 /\ PeerLeft(p)' \in 0..3
  BY DEF PeerLeft
<1>3. StopLeft \in 0..1 /\ StopLeft' \in 0..1
  BY DEF StopLeft
<1>4. /\ BridgeLeft(1) \in 0..2 /\ BridgeLeft(2) \in 0..2
      /\ PeerLeft(0) \in 0..3 /\ PeerLeft(3) \in 0..3
  BY <1>1, <1>2 DEF Bridges, Peers
<1>5. /\ BridgeLeft(1)' \in 0..2 /\ BridgeLeft(2)' \in 0..2
      /\ PeerLeft(0)' \in 0..3 /\ PeerLeft(3)' \in 0..3
  BY <1>1, <1>2 DEF Bridges, Peers
<1>6. PartiesLeft \in 0..11
  BY ONLY <1>3, <1>4 DEF PartiesLeft
<1>7. PartiesLeft' \in 0..11
  BY ONLY <1>3, <1>5 DEF PartiesLeft
<1> QED
  BY <1>1, <1>2, <1>3, <1>6, <1>7

\* Where one party has less left and none more, so do all together.
LEMMA OnePartyNears ==
  ASSUME \A b \in Bridges : BridgeLeft(b)' <= BridgeLeft(b),
         \A p \in Peers : PeerLeft(p)' <= PeerLeft(p),
         StopLeft' <= StopLeft
  PROVE  /\ PartiesLeft' <= PartiesLeft
         /\ \/ \E b \in Bridges : BridgeLeft(b)' < BridgeLeft(b)
            \/ \E p \in Peers : PeerLeft(p)' < PeerLeft(p)
            \/ StopLeft' < StopLeft
            => PartiesLeft' < PartiesLeft
<1> DEFINE before == PartiesLeft  after == PartiesLeft'
           a1 == BridgeLeft(1)  a2 == BridgeLeft(2)  a3 == PeerLeft(0)  a4 == PeerLeft(3)  a5 == StopLeft
           b1 == BridgeLeft(1)'  b2 == BridgeLeft(2)'  b3 == PeerLeft(0)'  b4 == PeerLeft(3)'  b5 == StopLeft'
<1>1. /\ a1 \in 0..2 /\ a2 \in 0..2 /\ a3 \in 0..3 /\ a4 \in 0..3 /\ a5 \in 0..1
      /\ b1 \in 0..2 /\ b2 \in 0..2 /\ b3 \in 0..3 /\ b4 \in 0..3 /\ b5 \in 0..1
  BY PartiesCount DEF Bridges, Peers
<1>2. b1 <= a1 /\ b2 <= a2 /\ b3 <= a3 /\ b4 <= a4 /\ b5 <= a5
  BY DEF Bridges, Peers
<1>3. before = a1 + a2 + a3 + a4 + a5
  BY DEF PartiesLeft
<1>4. after = b1 + b2 + b3 + b4 + b5
  BY DEF PartiesLeft
<1>5. /\ (\E b \in Bridges : BridgeLeft(b)' < BridgeLeft(b)) => b1 < a1 \/ b2 < a2
      /\ (\E p \in Peers : PeerLeft(p)' < PeerLeft(p)) => b3 < a3 \/ b4 < a4
  BY DEF Bridges, Peers
<1>6. StopLeft' < StopLeft => b5 < a5
  OBVIOUS
<1> HIDE DEF before, after, a1, a2, a3, a4, a5, b1, b2, b3, b4, b5
<1>7. /\ after <= before
      /\ b1 < a1 \/ b2 < a2 \/ b3 < a3 \/ b4 < a4 \/ b5 < a5 => after < before
  BY ONLY <1>1, <1>2, <1>3, <1>4
<1>8. before = PartiesLeft /\ after = PartiesLeft'
  BY DEF before, after
<1> QED
  BY ONLY <1>5, <1>6, <1>7, <1>8

\* The two directions and the parties together.
LEMMA StepsAccount ==
  ASSUME TypeOK, TypeOK', NEW e \in Direction,
         \A d \in Direction \ {e} : DirectionLeft(d)' <= DirectionLeft(d),
         \/ DirectionLeft(e)' < DirectionLeft(e) /\ PartiesLeft' <= PartiesLeft
         \/ DirectionLeft(e)' <= DirectionLeft(e) /\ PartiesLeft' < PartiesLeft
         \/ DirectionLeft(e)' + 1 < DirectionLeft(e) /\ PartiesLeft' <= PartiesLeft + 1
  PROVE  StepsLeft' < StepsLeft
<1> DEFINE before == StepsLeft  after == StepsLeft'  other == Opposite(e)
           a1 == DirectionLeft(e)  a2 == DirectionLeft(other)  a3 == PartiesLeft
           b1 == DirectionLeft(e)'  b2 == DirectionLeft(other)'  b3 == PartiesLeft'
<1>1. /\ other \in Direction \ {e} /\ other \in Direction
      /\ \/ e = "out" /\ other = "back"
         \/ e = "back" /\ other = "out"
  BY DEF Direction, Opposite
<1>2. a1 \in Nat /\ a2 \in Nat /\ a3 \in Nat /\ b1 \in Nat /\ b2 \in Nat /\ b3 \in Nat
  BY <1>1, DirectionAccount, PartiesCount
<1>3. b2 <= a2
  BY <1>1
<1>4. before = DirectionLeft("out") + DirectionLeft("back") + PartiesLeft
  BY DEF StepsLeft
<1>5. after = DirectionLeft("out")' + DirectionLeft("back")' + PartiesLeft'
  BY DEF StepsLeft
<1>6. \/ before = a1 + a2 + a3 /\ after = b1 + b2 + b3
      \/ before = a2 + a1 + a3 /\ after = b2 + b1 + b3
  BY <1>1, <1>4, <1>5
<1>7. \/ b1 < a1 /\ b3 <= a3
      \/ b1 <= a1 /\ b3 < a3
      \/ b1 + 1 < a1 /\ b3 <= a3 + 1
  OBVIOUS
<1> HIDE DEF before, after, other, a1, a2, a3, b1, b2, b3
<1>8. after < before
  BY ONLY <1>2, <1>3, <1>6, <1>7
<1> QED
  BY <1>8 DEF before, after

\* A step that leaves the directions alone, or only takes from them, and brings a
\* party on.
LEMMA PartyNears ==
  ASSUME TypeOK, TypeOK', \A d \in Direction : DirectionLeft(d)' <= DirectionLeft(d),
         PartiesLeft' < PartiesLeft
  PROVE  StepsLeft' < StepsLeft
<1>1. "out" \in Direction
  BY DEF Direction
<1> QED
  BY <1>1, StepsAccount

\* A step of a peer.
LEMMA PeerNears ==
  ASSUME TypeOK, TypeOK', NEW p \in Peers, PeerStep(p)
  PROVE  StepsLeft' < StepsLeft
<1>1. UNCHANGED bridgeVars /\ UNCHANGED stop
  BY DEF PeerStep, Send, EndsSpeech, Leaves, Hears, HearsEnd
<1>2. /\ \A b \in Bridges : BridgeLeft(b)' <= BridgeLeft(b)
      /\ StopLeft' <= StopLeft
  <2>1. /\ \A b \in Bridges : BridgeLeft(b)' = BridgeLeft(b) /\ BridgeLeft(b) \in 0..2
        /\ StopLeft' = StopLeft /\ StopLeft \in 0..1
    BY <1>1, PartiesCount DEF bridgeVars, BridgeLeft, StopLeft
  <2> QED
    BY ONLY <2>1
<1>3. ended \subseteq ended' /\ closed \subseteq closed' /\ notified \subseteq notified'
  BY DEF PeerStep, Send, EndsSpeech, Leaves, Hears, HearsEnd, Close
<1>4. \A q \in Peers : PeerLeft(q)' <= PeerLeft(q)
  BY <1>3 DEF PeerLeft
<1>5. PartiesLeft' <= PartiesLeft
  BY <1>2, <1>4, OnePartyNears
<1>6. PeerLeft(p)' < PeerLeft(p) => PartiesLeft' < PartiesLeft
  BY <1>2, <1>4, OnePartyNears
<1>7. CASE Send(p)
  <2>1. Speech(p)[2] \in Direction
    BY PeerPlaces
  <2>2. \A d \in Direction : IF d = Speech(p)[2] THEN DirectionLeft(d)' < DirectionLeft(d)
                              ELSE DirectionLeft(d)' <= DirectionLeft(d)
    BY <1>7, SendNears
  <2> QED
    BY <1>5, <2>1, <2>2, StepsAccount
<1>8. CASE Hears(p)
  <2>1. Hearing(p)[2] \in Direction
    BY PeerPlaces
  <2>2. \A d \in Direction : IF d = Hearing(p)[2] THEN DirectionLeft(d)' < DirectionLeft(d)
                              ELSE DirectionLeft(d)' <= DirectionLeft(d)
    BY <1>8, HearsNears
  <2> QED
    BY <1>5, <2>1, <2>2, StepsAccount
<1>9. CASE EndsSpeech(p) \/ HearsEnd(p)
  <2>1. UNCHANGED <<wire, sent>>
    BY <1>9 DEF EndsSpeech, HearsEnd
  <2>2. \A d \in Direction : \A i \in 1..2 :
          Carries(Party(d, i), d)' = Carries(Party(d, i), d)
    BY <1>1 DEF bridgeVars, Carries, Serving
  <2>3. \A d \in Direction : DirectionLeft(d)' <= DirectionLeft(d)
    BY <2>1, <2>2, DirectionStays
  <2>4. \/ p \notin ended /\ p \in ended'
        \/ p \notin notified /\ p \in notified'
    BY <1>9 DEF EndsSpeech, HearsEnd
  <2>5. PeerLeft(p)' < PeerLeft(p)
    BY <1>3, <2>4 DEF PeerLeft
  <2> QED
    BY <1>6, <2>3, <2>5, PartyNears
<1>10. CASE Leaves(p)
  <2>1. Close({p}) /\ UNCHANGED <<sent, pc, todo>> /\ p \notin closed /\ p \in closed'
    BY <1>10 DEF Leaves, Close, bridgeVars
  <2>2. \A d \in Direction : \A i \in 1..2 : Held(d, i)' <= Held(d, i)
    BY <2>1 DEF Held, Carries, Serving
  <2>3. \A d \in Direction : DirectionLeft(d)' <= DirectionLeft(d)
    BY <2>1, <2>2, CloseFalls
  <2>4. PeerLeft(p)' < PeerLeft(p)
    BY <1>3, <2>1 DEF PeerLeft
  <2> QED
    BY <1>6, <2>3, <2>4, PartyNears
<1> QED
  BY <1>7, <1>8, <1>9, <1>10 DEF PeerStep

\* A bridge that finishes.
LEMMA FinishNears ==
  ASSUME TypeOK, TypeOK', NEW b \in Bridges, Finish(b)
  PROVE  StepsLeft' < StepsLeft
<1>1. \A d \in Direction :
        /\ Close({b}) /\ sent'[d] = sent[d]
        /\ \A i \in 1..2 : Held(d, i)' <= Held(d, i)
  BY FinishDrops
<1>2. \A d \in Direction : DirectionLeft(d)' <= DirectionLeft(d)
  BY <1>1, CloseFalls
<1>3. /\ UNCHANGED <<ended, notified, stop>> /\ closed' = closed \cup {b} /\ b \notin closed
      /\ \A j \in Bridges : pc'[j] = IF j = b THEN "done" ELSE pc[j]
  BY DEF Finish, Close, TypeOK, peerVars
<1>4. pc[b] # "done" /\ b \notin Peers
  BY <1>3 DEF TypeOK, Peers, Bridges
<1>5. BridgeLeft(b)' < BridgeLeft(b) /\ \A j \in Bridges : BridgeLeft(j)' <= BridgeLeft(j)
  BY <1>3, <1>4 DEF BridgeLeft
<1>6. \A p \in Peers : PeerLeft(p)' <= PeerLeft(p)
  BY <1>3 DEF PeerLeft
<1>7. StopLeft' <= StopLeft
  BY <1>3 DEF StopLeft
<1> QED
  BY <1>2, <1>5, <1>6, <1>7, OnePartyNears, PartyNears

\* A step of a bridge.
LEMMA BridgeNears ==
  ASSUME TypeOK, TypeOK', NEW b \in Bridges, BridgeStep(b)
  PROVE  StepsLeft' < StepsLeft
<1>0. PICK e \in Direction : e = Serving(b)
  BY DEF Serving, Direction
<1>1. CASE FindsStop(b) \/ SendFails(b)
  BY <1>1, FinishNears DEF FindsStop, SendFails
<1>2. CASE Receive(b) /\ wire[SourceOf(b, e)] = <<>>
  BY <1>0, <1>2, FinishNears DEF Receive
<1>3. ASSUME UNCHANGED <<closed, peerVars, stop>>
      PROVE  /\ \A p \in Peers : PeerLeft(p)' <= PeerLeft(p)
             /\ StopLeft' <= StopLeft
  <2>1. /\ \A p \in Peers : PeerLeft(p)' = PeerLeft(p) /\ PeerLeft(p) \in 0..3
        /\ StopLeft' = StopLeft /\ StopLeft \in 0..1
    BY <1>3, PartiesCount DEF peerVars, PeerLeft, StopLeft
  <2> QED
    BY ONLY <2>1
<1>4. CASE Select(b)
  <2>1. /\ UNCHANGED <<wire, closed, peerVars, stop>> /\ pc[b] = "select" /\ pc'[b] = "recv"
        /\ \A j \in Bridges : j # b => pc'[j] = pc[j] /\ todo'[j] = todo[j]
    BY <1>4 DEF Select, TypeOK
  <2>2. \A d \in Direction : \A i \in 1..2 :
          Carries(Party(d, i), d)' = Carries(Party(d, i), d)
    <3>1. \A d \in Direction : \A i \in 1..2 : Party(d, i) \in Bridges
      BY DEF Party, Bridges
    <3> QED
      BY <2>1, <3>1 DEF Carries, Serving
  <2>3. \A d \in Direction : DirectionLeft(d)' <= DirectionLeft(d)
    BY <2>1, <2>2, DirectionStays DEF peerVars
  <2>4. BridgeLeft(b)' < BridgeLeft(b) /\ \A j \in Bridges : BridgeLeft(j)' <= BridgeLeft(j)
    BY <2>1 DEF BridgeLeft
  <2> QED
    BY <1>3, <2>1, <2>3, <2>4, OnePartyNears, PartyNears
<1>5. CASE Receive(b) /\ wire[SourceOf(b, e)] # <<>>
  <2>1. /\ UNCHANGED <<closed, peerVars, stop>> /\ pc[b] = "recv" /\ pc'[b] = "sendall"
        /\ \A j \in Bridges : j # b => pc'[j] = pc[j]
    BY <1>0, <1>5 DEF Receive, TypeOK
  <2>2. \A j \in Bridges : BridgeLeft(j)' <= BridgeLeft(j)
    BY <2>1 DEF BridgeLeft
  <2>3. \A d \in Direction : IF d = e THEN DirectionLeft(d)' < DirectionLeft(d)
                              ELSE DirectionLeft(d)' <= DirectionLeft(d)
    BY <1>0, <1>5, ReceiveNears
  <2>4. PartiesLeft' <= PartiesLeft
    BY <1>3, <2>1, <2>2, OnePartyNears
  <2> QED
    BY <2>3, <2>4, StepsAccount
<1>6. CASE SendAll(b)
  <2>1. /\ UNCHANGED <<closed, peerVars, stop>> /\ pc[b] = "sendall"
        /\ \A j \in Bridges : j # b => pc'[j] = pc[j]
    BY <1>6 DEF SendAll, TypeOK
  <2>2. \A d \in Direction : IF d = e THEN DirectionLeft(d)' + 1 < DirectionLeft(d)
                              ELSE DirectionLeft(d)' <= DirectionLeft(d)
    BY <1>0, <1>6, SendAllNears
  <2>3. BridgeLeft(b) = 1
    BY <2>1 DEF BridgeLeft
  <2>4. \A j \in Bridges : j # b => BridgeLeft(j)' = BridgeLeft(j)
    BY <2>1 DEF BridgeLeft
  <2>5. (\A p \in Peers : PeerLeft(p)' = PeerLeft(p)) /\ StopLeft' = StopLeft
    BY <2>1 DEF peerVars, PeerLeft, StopLeft
  <2>6. PartiesLeft' <= PartiesLeft + 1
    <3>1. /\ PartiesLeft = BridgeLeft(1) + BridgeLeft(2) + PeerLeft(0) + PeerLeft(3) + StopLeft
          /\ PartiesLeft' = BridgeLeft(1)' + BridgeLeft(2)' + PeerLeft(0) + PeerLeft(3) + StopLeft
      BY <2>5 DEF PartiesLeft, Peers
    <3>2. /\ BridgeLeft(1) \in 0..2 /\ BridgeLeft(2) \in 0..2 /\ BridgeLeft(1)' \in 0..2
          /\ BridgeLeft(2)' \in 0..2 /\ PeerLeft(0) \in 0..3 /\ PeerLeft(3) \in 0..3
          /\ StopLeft \in 0..1
      BY PartiesCount DEF Bridges, Peers
    <3>3. \/ BridgeLeft(1) = 1 /\ BridgeLeft(2)' = BridgeLeft(2)
          \/ BridgeLeft(2) = 1 /\ BridgeLeft(1)' = BridgeLeft(1)
      BY <2>3, <2>4 DEF Bridges
    <3> QED
      BY ONLY <3>1, <3>2, <3>3
  <2> QED
    BY <2>2, <2>6, StepsAccount
<1> QED
  BY <1>1, <1>2, <1>4, <1>5, <1>6 DEF BridgeStep

\* The death of the worker ends the forwarder and its client.
LEMMA WorkerDiesNears ==
  ASSUME TypeOK, TypeOK', WorkerDies
  PROVE  StepsLeft' < StepsLeft
<1>1. /\ Close({0, 1} \ closed) /\ UNCHANGED <<sent, todo, notified, stop>>
      /\ closed \subseteq closed' /\ ended \subseteq ended' /\ pc[1] # "done"
      /\ \A j \in Bridges : pc'[j] = IF j = 1 THEN "done" ELSE pc[j]
  BY DEF WorkerDies, Close, TypeOK
<1>2. \A d \in Direction : \A i \in 1..2 : Held(d, i)' <= Held(d, i)
  <2>1. \A d \in Direction : \A i \in 1..2 : Party(d, i) \in Bridges
    BY DEF Party, Bridges
  <2> QED
    BY <1>1, <2>1 DEF Held, Carries, Serving
<1>3. \A d \in Direction : DirectionLeft(d)' <= DirectionLeft(d)
  BY <1>1, <1>2, CloseFalls
<1>4. 1 \in Bridges /\ BridgeLeft(1)' < BridgeLeft(1)
      /\ \A j \in Bridges : BridgeLeft(j)' <= BridgeLeft(j)
  BY <1>1 DEF BridgeLeft, Bridges
<1>5. \A p \in Peers : PeerLeft(p)' <= PeerLeft(p)
  BY <1>1 DEF PeerLeft
<1>6. StopLeft' <= StopLeft
  BY <1>1 DEF StopLeft
<1> QED
  BY <1>3, <1>4, <1>5, <1>6, OnePartyNears, PartyNears

\* ConnectionDrawsNear: whichever of the peers, the two relays, the end of the
\* worker and RemoteRelaySet.close takes a step, fewer steps are left.
THEOREM ConnectionIsNearer == Spec => ConnectionDrawsNear
<1>1. ASSUME TypeOK, TypeOK', Next
      PROVE  StepsLeft' < StepsLeft
  <2>1. CASE \E p \in Peers : PeerStep(p)
    BY <1>1, <2>1, PeerNears
  <2>2. CASE \E b \in Bridges : BridgeStep(b)
    BY <1>1, <2>2, BridgeNears
  <2>3. CASE WorkerDies
    BY <1>1, <2>3, WorkerDiesNears
  <2>4. CASE SetStop
    <3>1. UNCHANGED <<wire, closed, peerVars, bridgeVars>> /\ ~stop /\ stop'
      BY <2>4 DEF SetStop
    <3>2. \A d \in Direction : sent'[d] = sent[d] /\ \A i \in 1..2 :
            Carries(Party(d, i), d)' = Carries(Party(d, i), d)
      BY <3>1 DEF peerVars, bridgeVars, Carries, Serving
    <3>3. \A d \in Direction : DirectionLeft(d)' <= DirectionLeft(d)
      BY <1>1, <3>1, <3>2, DirectionStays
    <3>4. StopLeft' < StopLeft
      BY <3>1 DEF StopLeft
    <3>5. /\ \A b \in Bridges : BridgeLeft(b)' = BridgeLeft(b) /\ BridgeLeft(b) \in 0..2
          /\ \A p \in Peers : PeerLeft(p)' = PeerLeft(p) /\ PeerLeft(p) \in 0..3
          /\ StopLeft \in 0..1 /\ StopLeft' \in 0..1
      BY <3>1, PartiesCount DEF bridgeVars, peerVars, BridgeLeft, PeerLeft
    <3>6. /\ \A b \in Bridges : BridgeLeft(b)' <= BridgeLeft(b)
          /\ \A p \in Peers : PeerLeft(p)' <= PeerLeft(p)
          /\ StopLeft' <= StopLeft
      BY ONLY <3>4, <3>5
    <3> QED
      BY <1>1, <3>3, <3>4, <3>6, OnePartyNears, PartyNears
  <2> QED
    BY <1>1, <2>1, <2>2, <2>3, <2>4 DEF Next
<1>2. TypeOK /\ TypeOK' /\ [Next]_vars => [StepsLeft' < StepsLeft]_vars
  BY <1>1
<1> QED
  BY <1>2, BridgeTyped, PTL DEF Spec, ConnectionDrawsNear

\* What is left is a number that only what the two peers say can make great: a
\* connection takes a bounded number of steps in all.
THEOREM ConnectionIsBounded == Spec => [](StepsLeft \in 0..(16 * MaxSent + 11))
<1> DEFINE Bounded == StepsLeft \in 0..(16 * MaxSent + 11)
<1>0. MaxSent \in Nat
  BY BridgeAssumption
<1>1. Init => Bounded
  <2> SUFFICES ASSUME Init PROVE Bounded
    OBVIOUS
  <2>1. \A d \in Direction : /\ sent[d] = 0
                             /\ \A i \in 1..3 : Size(d, i) = 0
                             /\ \A i \in 1..2 : Held(d, i) = 0
    <3>1. \A d \in Direction, i \in 1..2 : Party(d, i) \in Bridges
      BY DEF Party, Bridges
    <3>2. \A d \in Direction, i \in 1..3 : Chan(d, i) \in Channel
      BY Neighbours
    <3> QED
      BY <3>1, <3>2 DEF Init, Size, Held, Carries
  <2>2. \A d \in Direction : DirectionLeft(d) = 8 * MaxSent
    <3> SUFFICES ASSUME NEW d \in Direction PROVE DirectionLeft(d) = 8 * MaxSent
      OBVIOUS
    <3>1. DirectionLeft(d) = 8 * (MaxSent - 0) + 7 * 0 + 6 * 0 + 4 * 0 + 3 * 0 + 0
      BY <2>1 DEF DirectionLeft
    <3> QED
      BY ONLY <1>0, <3>1
  <2>3. "out" \in Direction /\ "back" \in Direction
    BY DEF Direction
  <2>4. StepsLeft = 8 * MaxSent + 8 * MaxSent + PartiesLeft
    BY <2>2, <2>3 DEF StepsLeft
  <2>5. PartiesLeft \in 0..11
    BY PartiesCount
  <2> QED
    BY ONLY <1>0, <2>4, <2>5
<1>2. TypeOK /\ TypeOK' => StepsLeft' \in Nat
  <2> SUFFICES ASSUME TypeOK, TypeOK' PROVE StepsLeft' \in Nat
    OBVIOUS
  <2>1. /\ DirectionLeft("out")' \in Nat /\ DirectionLeft("back")' \in Nat
        /\ PartiesLeft' \in 0..11
    BY DirectionAccount, PartiesCount DEF Direction
  <2> QED
    BY ONLY <2>1 DEF StepsLeft
<1>3. Bounded /\ TypeOK /\ TypeOK' /\ [StepsLeft' < StepsLeft]_vars => Bounded'
  <2> SUFFICES ASSUME Bounded, TypeOK, TypeOK', [StepsLeft' < StepsLeft]_vars PROVE Bounded'
    OBVIOUS
  <2>1. StepsLeft \in Nat /\ StepsLeft <= 16 * MaxSent + 11 /\ StepsLeft' \in Nat
    BY <1>0, <1>2
  <2>2. StepsLeft' < StepsLeft \/ StepsLeft' = StepsLeft
    <3>1. vars' = vars => StepsLeft' = StepsLeft
      BY DEF vars, peerVars, bridgeVars, StepsLeft, DirectionLeft, PartiesLeft, BridgeLeft,
             PeerLeft, StopLeft, Size, Held, Carries, Serving
    <3> QED
      BY <3>1
  <2>3. StepsLeft' <= 16 * MaxSent + 11
    BY ONLY <1>0, <2>1, <2>2
  <2> QED
    BY <1>0, <2>1, <2>3
<1> QED
  BY <1>1, <1>3, BridgeTyped, ConnectionIsNearer, PTL DEF Spec, ConnectionDrawsNear

=============================================================================
