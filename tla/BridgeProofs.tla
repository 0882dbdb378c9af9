---------------------------- MODULE BridgeProofs ----------------------------
(***************************************************************************)
(* Proofs about Bridge: for every size of the buffers and every number of  *)
(* elements, what one connection through the two relays is worth.          *)
(***************************************************************************)
EXTENDS Bridge, SequenceTheorems, TLAPS

----------------------------------------------------------------------------
(* The path of a direction: the channels and the parties in the order data *)
(* takes them, whichever way it goes.                                      *)

Chan(d, i) == IF d = "out" THEN <<i, d>> ELSE <<4 - i, d>>
Party(d, i) == IF d = "out" THEN i ELSE 3 - i

\* Every channel is a place on the path of its direction.
LEMMA Places ==
  \A c \in Channel : \E i \in 1..3 : c = Chan(c[2], i) /\ c[2] \in Direction
BY DEF Channel, Direction, Chan

\* The i-th channel joins the parties before and after it.
LEMMA Neighbours ==
  ASSUME NEW d \in Direction, NEW i \in 1..3
  PROVE  /\ Chan(d, i) \in Channel
         /\ Chan(d, i)[2] = d
         /\ Sender(Chan(d, i)) = Party(d, i - 1)
         /\ Receiver(Chan(d, i)) = Party(d, i)
         /\ Reverse(Chan(d, i)) = Chan(Opposite(d), 4 - i)
         /\ \A j \in 1..3, e \in Direction : Chan(d, i) = Chan(e, j) => e = d /\ j = i
BY DEF Channel, Direction, Chan, Party, Sender, Receiver, Reverse, Opposite

\* A bridge receives from the channel before it and sends to the one after it.
LEMMA BridgePlaces ==
  ASSUME NEW d \in Direction, NEW b \in Bridges
  PROVE  /\ Party(d, b) \in 1..2
         /\ Party(d, Party(d, b)) = b
         /\ SourceOf(b, d) = Chan(d, Party(d, b))
         /\ SinkOf(b, d) = Chan(d, Party(d, b) + 1)
         /\ SourceOf(b, d) \in Channel /\ SinkOf(b, d) \in Channel
         /\ Receiver(SourceOf(b, d)) = b /\ Sender(SinkOf(b, d)) = b
         /\ Receiver(SinkOf(b, d)) \in 0..3
BY DEF Channel, Direction, Bridges, Chan, Party, Sender, Receiver, Reverse, Opposite,
       SourceOf, SinkOf

\* A peer speaks into the first channel of a direction and hears the last one of
\* the other.
LEMMA PeerPlaces ==
  ASSUME NEW p \in Peers
  PROVE  /\ Speech(p) \in Channel /\ Hearing(p) \in Channel
         /\ Speech(p)[2] \in Direction /\ Hearing(p)[2] \in Direction
         /\ Speech(p) = Chan(Speech(p)[2], 1) /\ Hearing(p) = Chan(Hearing(p)[2], 3)
         /\ Sender(Speech(p)) = p /\ Receiver(Hearing(p)) = p
         /\ Hearing(p)[2] = Opposite(Speech(p)[2])
BY DEF Channel, Direction, Peers, Chan, Sender, Receiver, Reverse, Opposite, Speech, Hearing

\* Every channel has a sender and a receiver among the parties.
LEMMA Ends ==
  ASSUME NEW c \in Channel
  PROVE  /\ Sender(c) \in 0..3 /\ Receiver(c) \in 0..3 /\ Sender(c) # Receiver(c)
         /\ Reverse(c) \in Channel /\ Reverse(c) # c /\ Reverse(Reverse(c)) = c
         /\ Sender(Reverse(c)) = Receiver(c) /\ Receiver(Reverse(c)) = Sender(c)
BY DEF Channel, Direction, Sender, Receiver, Reverse, Opposite

----------------------------------------------------------------------------
(* What the operations on sockets do to a channel.                         *)

Wires == [Channel -> Seq(1..MaxSent)]

\* What is left of a channel is a beginning of what was on its way.
Prefix(old, new) ==
  Len(new) <= Len(old) /\ \A n \in 1..Len(new) : new[n] = old[n]

\* A beginning of a sequence is one, and the whole is the longest.
LEMMA Beginning ==
  ASSUME NEW S, NEW s \in Seq(S), NEW n \in 0..Len(s)
  PROVE  /\ SubSeq(s, 1, n) \in Seq(S)
         /\ Len(SubSeq(s, 1, n)) = n
         /\ Prefix(s, SubSeq(s, 1, n))
         /\ n = Len(s) => SubSeq(s, 1, n) = s
<1>1. SubSeq(s, 1, n) \in Seq(S) /\ Len(SubSeq(s, 1, n)) = n
      /\ \A k \in 1..n : SubSeq(s, 1, n)[k] = s[k]
  BY SubSeqProperties
<1>2. n = Len(s) => SubSeq(s, 1, n) = s
  BY <1>1, SeqEqual
<1> QED
  BY <1>1, <1>2 DEF Prefix

\* Closing sockets leaves a beginning of every channel: nothing where the
\* receiver is gone, all of it where neither end was closed, or where the end
\* that was closed had read everything.
LEMMA CloseLeaves ==
  ASSUME wire \in Wires, NEW parties, Close(parties)
  PROVE  /\ wire' \in Wires
         /\ closed' = closed \cup parties
         /\ \A c \in Channel :
              /\ Prefix(wire[c], wire'[c])
              /\ Receiver(c) \in closed' => wire'[c] = <<>>
              /\ Receiver(c) \notin closed' /\ Sender(c) \notin parties => wire'[c] = wire[c]
              /\ Receiver(c) \notin closed' /\ wire[Reverse(c)] = <<>> => wire'[c] = wire[c]
<1>1. PICK kept \in [{c \in Channel : Sender(c) \in parties} -> 0..Capacity] :
        /\ \A c \in DOMAIN kept : kept[c] \in Kept(c)
        /\ wire' = [c \in Channel |->
             IF Receiver(c) \in closed' THEN <<>>
             ELSE IF Sender(c) \in parties THEN SubSeq(wire[c], 1, kept[c])
             ELSE wire[c]]
  BY DEF Close
<1>2. ASSUME NEW c \in Channel
      PROVE  /\ wire'[c] \in Seq(1..MaxSent)
             /\ Prefix(wire[c], wire'[c])
             /\ Receiver(c) \in closed' => wire'[c] = <<>>
             /\ Receiver(c) \notin closed' /\ Sender(c) \notin parties => wire'[c] = wire[c]
             /\ Receiver(c) \notin closed' /\ wire[Reverse(c)] = <<>> => wire'[c] = wire[c]
  <2>1. wire[c] \in Seq(1..MaxSent) /\ Len(wire[c]) \in Nat
    BY DEF Wires
  <2>2. CASE Receiver(c) \in closed'
    <3>1. wire'[c] = <<>>
      BY <1>1, <2>2
    <3> QED
      BY <2>1, <2>2, <3>1 DEF Prefix
  <2>3. CASE Receiver(c) \notin closed' /\ Sender(c) \notin parties
    <3>1. wire'[c] = wire[c]
      BY <1>1, <2>3
    <3> QED
      BY <2>1, <2>3, <3>1 DEF Prefix
  <2>4. CASE Receiver(c) \notin closed' /\ Sender(c) \in parties
    <3>1. wire'[c] = SubSeq(wire[c], 1, kept[c]) /\ kept[c] \in Kept(c)
      BY <1>1, <2>4
    <3>2. kept[c] \in 0..Len(wire[c])
          /\ (wire[Reverse(c)] = <<>> => kept[c] = Len(wire[c]))
      BY <2>1, <3>1 DEF Kept
    <3>3. /\ SubSeq(wire[c], 1, kept[c]) \in Seq(1..MaxSent)
          /\ Prefix(wire[c], SubSeq(wire[c], 1, kept[c]))
          /\ kept[c] = Len(wire[c]) => SubSeq(wire[c], 1, kept[c]) = wire[c]
      BY <2>1, <3>2, Beginning
    <3> QED
      BY <2>4, <3>1, <3>2, <3>3
  <2> QED
    BY <2>2, <2>3, <2>4
<1>3. wire' \in Wires
  BY <1>1, <1>2 DEF Wires
<1>4. closed' = closed \cup parties
  BY DEF Close
<1> QED
  BY <1>2, <1>3, <1>4

\* Sending appends to a channel whose receiver is there; otherwise it shortens
\* at most the way back, whose sender is gone.
LEMMA PutLeaves ==
  ASSUME wire \in Wires, NEW c \in Channel, NEW element \in 1..MaxSent, Put(c, element)
  PROVE  /\ wire' \in Wires
         /\ Receiver(c) \notin closed => wire' = [wire EXCEPT ![c] = Append(wire[c], element)]
         /\ Receiver(c) \in closed =>
              \A k \in Channel :
                Prefix(wire[k], wire'[k]) /\ (k # Reverse(c) => wire'[k] = wire[k])
<1>1. Reverse(c) \in Channel
  BY Ends
<1>2. CASE Receiver(c) \in closed
  <2>1. PICK n \in 0..Len(wire[Reverse(c)]) :
          wire' = [wire EXCEPT ![Reverse(c)] = SubSeq(wire[Reverse(c)], 1, n)]
    BY <1>2 DEF Put
  <2>2. wire[Reverse(c)] \in Seq(1..MaxSent)
    BY <1>1 DEF Wires
  <2>3. SubSeq(wire[Reverse(c)], 1, n) \in Seq(1..MaxSent)
        /\ Prefix(wire[Reverse(c)], SubSeq(wire[Reverse(c)], 1, n))
    BY <2>2, Beginning
  <2>4. \A k \in Channel : Len(wire[k]) \in Nat /\ Prefix(wire[k], wire[k])
    BY DEF Wires, Prefix
  <2> QED
    BY <1>1, <1>2, <2>1, <2>3, <2>4 DEF Wires
<1>3. CASE Receiver(c) \notin closed
  <2>1. wire' = [wire EXCEPT ![c] = Append(wire[c], element)]
    BY <1>3 DEF Put
  <2>2. Append(wire[c], element) \in Seq(1..MaxSent)
    BY DEF Wires
  <2> QED
    BY <1>3, <2>1, <2>2 DEF Wires
<1> QED
  BY <1>2, <1>3

\* Receiving takes the first element.
LEMMA TakeLeaves ==
  ASSUME wire \in Wires, NEW c \in Channel, wire[c] # <<>>,
         wire' = [wire EXCEPT ![c] = Tail(wire[c])]
  PROVE  /\ wire' \in Wires
         /\ Head(wire[c]) = wire[c][1] /\ Head(wire[c]) \in 1..MaxSent
         /\ Len(wire[c]) >= 1
         /\ Len(wire'[c]) = Len(wire[c]) - 1
         /\ \A n \in 1..Len(wire'[c]) : wire'[c][n] = wire[c][n + 1]
         /\ \A k \in Channel : k # c => wire'[k] = wire[k]
<1>1. wire[c] \in Seq(1..MaxSent)
  BY DEF Wires
<1> DEFINE s == wire[c]
<1> HIDE DEF s
<1>a. s \in Seq(1..MaxSent) /\ s # <<>>
  BY <1>1 DEF s
<1>b. Len(s) \in Nat /\ Len(s) # 0
  BY <1>a, EmptySeq
<1>c. Head(s) = s[1]
  BY <1>a, <1>b
<1>d. Head(s) \in 1..MaxSent
  BY <1>a, HeadTailProperties
<1>2. Len(wire[c]) >= 1 /\ wire[c][1] \in 1..MaxSent /\ Head(wire[c]) = wire[c][1]
  BY <1>b, <1>c, <1>d DEF s
<1>3. Tail(wire[c]) \in Seq(1..MaxSent) /\ Len(Tail(wire[c])) = Len(wire[c]) - 1
  BY <1>1, HeadTailProperties
<1>4. \A n \in 1..Len(Tail(wire[c])) : Tail(wire[c])[n] = wire[c][n + 1]
  BY <1>1, HeadTailProperties
<1>5. wire'[c] = Tail(wire[c]) /\ \A k \in Channel : k # c => wire'[k] = wire[k]
  BY DEF Wires
<1>6. wire' \in Wires
  BY <1>3 DEF Wires
<1> QED
  BY <1>2, <1>3, <1>4, <1>5, <1>6

----------------------------------------------------------------------------
(* Types.                                                                  *)

\* The channels within their capacity.
WiresFit == wire \in Wires /\ \A c \in Channel : Len(wire[c]) <= Capacity

\* Closing keeps the channels within their capacity.
LEMMA CloseFits ==
  ASSUME WiresFit, NEW parties, Close(parties)
  PROVE  WiresFit' /\ closed' = closed \cup parties
<1>1. wire \in Wires /\ \A c \in Channel : Len(wire[c]) \in Nat /\ Len(wire[c]) <= Capacity
  BY DEF WiresFit, Wires
<1>2. wire' \in Wires /\ closed' = closed \cup parties
      /\ \A c \in Channel : Len(wire'[c]) <= Len(wire[c])
  BY <1>1, CloseLeaves DEF Prefix
<1>3. \A c \in Channel : Len(wire'[c]) \in Nat
  BY <1>2 DEF Wires
<1> QED
  BY <1>1, <1>2, <1>3, BridgeAssumption DEF WiresFit

\* So does sending where there is room, or nobody to receive.
LEMMA PutFits ==
  ASSUME WiresFit, NEW c \in Channel, NEW element \in 1..MaxSent, Put(c, element),
         HasRoom(c) \/ Receiver(c) \in closed
  PROVE  WiresFit'
<1>1. wire \in Wires /\ \A k \in Channel : Len(wire[k]) \in Nat /\ Len(wire[k]) <= Capacity
  BY DEF WiresFit, Wires
<1>2. wire' \in Wires
  BY <1>1, PutLeaves
<1>3. ASSUME NEW k \in Channel
      PROVE  Len(wire'[k]) <= Capacity
  <2>1. CASE Receiver(c) \in closed
    <3>1. Len(wire'[k]) <= Len(wire[k])
      BY <1>1, <2>1, PutLeaves DEF Prefix
    <3>2. Len(wire'[k]) \in Nat
      BY <1>2 DEF Wires
    <3> QED
      BY <1>1, <3>1, <3>2, BridgeAssumption
  <2>2. CASE Receiver(c) \notin closed
    <3>1. wire' = [wire EXCEPT ![c] = Append(wire[c], element)] /\ Len(wire[c]) < Capacity
      BY <1>1, <2>2, PutLeaves DEF HasRoom
    <3>2. Len(Append(wire[c], element)) = Len(wire[c]) + 1
      BY <1>1 DEF Wires
    <3>3. wire'[k] = IF k = c THEN Append(wire[c], element) ELSE wire[k]
      BY <1>1, <3>1 DEF Wires
    <3> QED
      BY <1>1, <3>1, <3>2, <3>3, BridgeAssumption
  <2> QED
    BY <2>1, <2>2
<1> QED
  BY <1>2, <1>3 DEF WiresFit

\* So does receiving.
LEMMA TakeFits ==
  ASSUME WiresFit, NEW c \in Channel, wire[c] # <<>>,
         wire' = [wire EXCEPT ![c] = Tail(wire[c])]
  PROVE  WiresFit'
<1>1. wire \in Wires /\ \A k \in Channel : Len(wire[k]) \in Nat /\ Len(wire[k]) <= Capacity
  BY DEF WiresFit, Wires
<1>2. wire' \in Wires /\ Len(wire'[c]) = Len(wire[c]) - 1
      /\ \A k \in Channel : k # c => wire'[k] = wire[k]
  BY <1>1, TakeLeaves
<1>3. \A k \in Channel : Len(wire'[k]) <= Capacity
  BY <1>1, <1>2, BridgeAssumption
<1> QED
  BY <1>2, <1>3 DEF WiresFit

\* The type invariant but for the channels, in two parts.
PeersTyped ==
  /\ ended \subseteq Peers /\ notified \subseteq Peers
  /\ sent \in [Direction -> 0..MaxSent]
  /\ got \in [Direction -> Seq(1..MaxSent)]
  /\ stop \in BOOLEAN

BridgesTyped ==
  /\ closed \subseteq 0..3
  /\ todo \in [Bridges -> SUBSET Direction]
  /\ hand \in [Bridges -> 0..MaxSent]
  /\ pc \in [Bridges -> {"select", "recv", "sendall", "done"}]
  /\ \A b \in Bridges :
       /\ pc[b] \in {"recv", "sendall"} => todo[b] # {}
       /\ pc[b] = "sendall" => hand[b] \in 1..MaxSent
       /\ pc[b] = "done" <=> b \in closed

\* They make up TypeOK, now and after a step.
LEMMA TypeParts == TypeOK => WiresFit /\ PeersTyped /\ BridgesTyped
BY DEF TypeOK, WiresFit, Wires, PeersTyped, BridgesTyped

\* The converse, after a step.
LEMMA TypeMade == WiresFit' /\ PeersTyped' /\ BridgesTyped' => TypeOK'
BY DEF TypeOK, WiresFit, Wires, PeersTyped, BridgesTyped

\* A bridge that finishes closes both its sockets.
LEMMA FinishTyped ==
  ASSUME TypeOK, NEW b \in Bridges, pc[b] # "done", Finish(b)
  PROVE  TypeOK'
<1>1. WiresFit' /\ closed' = closed \cup {b}
  BY TypeParts, CloseFits DEF Finish
<1>2. PeersTyped'
  BY TypeParts DEF Finish, PeersTyped, peerVars
<1>3. BridgesTyped'
  BY <1>1, TypeParts DEF Finish, BridgesTyped, Bridges
<1> QED
  BY <1>1, <1>2, <1>3, TypeMade

\* What a peer does keeps the types.
LEMMA PeersKeepTypes ==
  ASSUME TypeOK, NEW p \in Peers, PeerStep(p)
  PROVE  TypeOK'
<1> DEFINE speech == Speech(p)  hearing == Hearing(p)
<1>0. /\ speech \in Channel /\ hearing \in Channel
      /\ speech[2] \in Direction /\ hearing[2] \in Direction /\ p \in 0..3 /\ p \notin Bridges
  BY PeerPlaces DEF Peers, Bridges
<1>1. CASE Send(p)
  <2>1. sent' \in [Direction -> 0..MaxSent] /\ sent'[speech[2]] \in 1..MaxSent
    BY <1>0, <1>1, TypeParts, BridgeAssumption DEF Send, PeersTyped
  <2>2. WiresFit'
    BY <1>0, <1>1, <2>1, TypeParts, PutFits DEF Send
  <2>3. PeersTyped'
    BY <1>1, <2>1, TypeParts DEF Send, PeersTyped
  <2>4. BridgesTyped'
    BY <1>1, TypeParts DEF Send, BridgesTyped, bridgeVars
  <2> QED
    BY <2>2, <2>3, <2>4, TypeMade
<1>2. CASE EndsSpeech(p) \/ HearsEnd(p)
  <2>1. UNCHANGED <<wire, closed, sent, got, bridgeVars, stop>>
        /\ ended' \subseteq Peers /\ notified' \subseteq Peers
    BY <1>2, TypeParts DEF EndsSpeech, HearsEnd, PeersTyped
  <2> QED
    BY <2>1, TypeParts, TypeMade DEF WiresFit, PeersTyped, BridgesTyped, bridgeVars, Wires
<1>3. CASE Leaves(p)
  <2>1. WiresFit' /\ closed' = closed \cup {p}
    BY <1>3, TypeParts, CloseFits DEF Leaves
  <2>2. PeersTyped'
    BY <1>3, TypeParts DEF Leaves, PeersTyped
  <2>3. BridgesTyped'
    BY <1>0, <1>3, <2>1, TypeParts DEF Leaves, BridgesTyped, bridgeVars
  <2> QED
    BY <2>1, <2>2, <2>3, TypeMade
<1>4. CASE Hears(p)
  <2>1. WiresFit'
    BY <1>0, <1>4, TypeParts, TakeFits DEF Hears
  <2>2. Head(wire[hearing]) \in 1..MaxSent
    BY <1>0, <1>4, TypeParts, TakeLeaves DEF Hears, WiresFit
  <2>3. got' \in [Direction -> Seq(1..MaxSent)]
    <3>1. got[hearing[2]] \in Seq(1..MaxSent)
      BY <1>0, TypeParts DEF PeersTyped
    <3>2. Append(got[hearing[2]], Head(wire[hearing])) \in Seq(1..MaxSent)
      BY <2>2, <3>1, AppendProperties
    <3> QED
      BY <1>0, <1>4, <3>2, TypeParts DEF Hears, PeersTyped
  <2>4. PeersTyped'
    BY <1>4, <2>3, TypeParts DEF Hears, PeersTyped
  <2>5. BridgesTyped'
    BY <1>4, TypeParts DEF Hears, BridgesTyped, bridgeVars
  <2> QED
    BY <2>1, <2>4, <2>5, TypeMade
<1> QED
  BY <1>1, <1>2, <1>3, <1>4 DEF PeerStep

\* What a bridging thread does keeps the types.
LEMMA BridgesKeepTypes ==
  ASSUME TypeOK, NEW b \in Bridges, BridgeStep(b)
  PROVE  TypeOK'
<1>0. Serving(b) \in Direction /\ pc[b] \in {"select", "recv", "sendall", "done"}
  BY TypeParts DEF Serving, Direction, BridgesTyped
<1> DEFINE source == SourceOf(b, Serving(b))  sink == SinkOf(b, Serving(b))
<1>1. source \in Channel /\ sink \in Channel
  BY <1>0, BridgePlaces
<1>2. CASE Select(b)
  <2>1. Readable(b) \in SUBSET Direction
    BY DEF Readable
  <2>2. WiresFit' /\ PeersTyped'
    BY <1>2, TypeParts DEF Select, WiresFit, PeersTyped, peerVars, Wires
  <2>3. BridgesTyped'
    BY <1>2, <2>1, TypeParts DEF Select, BridgesTyped
  <2> QED
    BY <2>2, <2>3, TypeMade
<1>3. CASE FindsStop(b)
  BY <1>3, FinishTyped DEF FindsStop
<1>4. CASE Receive(b)
  <2>1. CASE wire[source] = <<>>
    BY <1>4, <2>1, FinishTyped DEF Receive
  <2>2. CASE wire[source] # <<>>
    <3>1. WiresFit'
      BY <1>1, <1>4, <2>2, TypeParts, TakeFits DEF Receive
    <3>2. Head(wire[source]) \in 1..MaxSent
      BY <1>1, <2>2, TypeParts, TakeLeaves, <1>4 DEF Receive, WiresFit
    <3>3. PeersTyped'
      BY <1>4, <2>2, TypeParts DEF Receive, PeersTyped, peerVars
    <3>4. BridgesTyped'
      <4>1. /\ pc[b] = "recv" /\ pc' = [pc EXCEPT ![b] = "sendall"]
            /\ hand' = [hand EXCEPT ![b] = Head(wire[source])]
            /\ closed' = closed /\ todo' = todo
        BY <1>4, <2>2 DEF Receive
      <4>2. Head(wire[source]) \in 0..MaxSent
        BY <3>2
      <4> HIDE DEF source
      <4>3. /\ hand' \in [Bridges -> 0..MaxSent]
            /\ pc' \in [Bridges -> {"select", "recv", "sendall", "done"}]
        BY <4>1, <4>2, TypeParts DEF BridgesTyped
      <4>4. ASSUME NEW other \in Bridges
            PROVE  /\ pc'[other] \in {"recv", "sendall"} => todo'[other] # {}
                   /\ pc'[other] = "sendall" => hand'[other] \in 1..MaxSent
                   /\ pc'[other] = "done" <=> other \in closed'
        <5>1. CASE other = b
          BY <3>2, <4>1, <5>1, TypeParts DEF BridgesTyped
        <5>2. CASE other # b
          BY <4>1, <5>2, TypeParts DEF BridgesTyped
        <5> QED
          BY <5>1, <5>2
      <4> QED
        BY <4>1, <4>3, <4>4, TypeParts DEF BridgesTyped
    <3> QED
      BY <3>1, <3>3, <3>4, TypeMade
  <2> QED
    BY <2>1, <2>2
<1>5. CASE SendAll(b)
  <2>1. hand[b] \in 1..MaxSent
    BY <1>5, TypeParts DEF SendAll, BridgesTyped
  <2>2. WiresFit'
    BY <1>1, <1>5, <2>1, TypeParts, PutFits DEF SendAll
  <2>3. PeersTyped'
    BY <1>5, TypeParts DEF SendAll, PeersTyped, peerVars
  <2>4. BridgesTyped'
    BY <1>5, TypeParts, BridgeAssumption DEF SendAll, BridgesTyped, Nothing
  <2> QED
    BY <2>2, <2>3, <2>4, TypeMade
<1>6. CASE SendFails(b)
  BY <1>6, FinishTyped DEF SendFails
<1> QED
  BY <1>2, <1>3, <1>4, <1>5, <1>6 DEF BridgeStep

\* TypeOK, for every capacity and every number of elements.
THEOREM BridgeTyped == Spec => []TypeOK
<1>1. Init => TypeOK
  <2> SUFFICES ASSUME Init PROVE TypeOK
    OBVIOUS
  <2>1. <<>> \in Seq(1..MaxSent) /\ Len(<<>>) = 0
    BY EmptySeq
  <2>2. wire \in [Channel -> Seq(1..MaxSent)] /\ \A c \in Channel : Len(wire[c]) <= Capacity
    BY <2>1, BridgeAssumption DEF Init
  <2>3. got \in [Direction -> Seq(1..MaxSent)] /\ sent \in [Direction -> 0..MaxSent]
    BY <2>1, BridgeAssumption DEF Init
  <2>4. /\ todo \in [Bridges -> SUBSET Direction] /\ hand \in [Bridges -> 0..MaxSent]
        /\ pc \in [Bridges -> {"select", "recv", "sendall", "done"}]
        /\ \A b \in Bridges : pc[b] = "select" /\ b \notin closed
    BY BridgeAssumption DEF Init, Nothing
  <2> QED
    BY <2>2, <2>3, <2>4 DEF Init, TypeOK
<1>2. ASSUME TypeOK, [Next]_vars
      PROVE  TypeOK'
  <2>1. CASE \E p \in Peers : PeerStep(p)
    BY <1>2, <2>1, PeersKeepTypes
  <2>2. CASE \E b \in Bridges : BridgeStep(b)
    BY <1>2, <2>2, BridgesKeepTypes
  <2>3. CASE WorkerDies
    <3>1. WiresFit' /\ closed' = closed \cup ({0, 1} \ closed)
      BY <1>2, <2>3, TypeParts, CloseFits DEF WorkerDies
    <3>2. PeersTyped'
      BY <1>2, <2>3, TypeParts DEF WorkerDies, PeersTyped, Peers
    <3>3. BridgesTyped'
      BY <1>2, <2>3, <3>1, TypeParts DEF WorkerDies, BridgesTyped, Bridges
    <3> QED
      BY <3>1, <3>2, <3>3, TypeMade
  <2>4. CASE SetStop
    BY <1>2, <2>4, TypeParts, TypeMade
    DEF SetStop, WiresFit, PeersTyped, BridgesTyped, peerVars, bridgeVars, Wires
  <2>5. CASE UNCHANGED vars
    BY <1>2, <2>5, TypeParts, TypeMade
    DEF vars, WiresFit, PeersTyped, BridgesTyped, peerVars, bridgeVars, Wires
  <2> QED
    BY <1>2, <2>1, <2>2, <2>3, <2>4, <2>5 DEF Next
<1> QED
  BY <1>1, <1>2, PTL DEF Spec

----------------------------------------------------------------------------
(* How far a direction has come.  r[i] counts what the i-th party on its   *)
(* path has received, s[i] what it has handed on; once a party is closed,  *)
(* what it had received and not handed on is lost, and the next channel    *)
(* may have lost its end.                                                  *)

Carries(b, d) == pc[b] = "sendall" /\ Serving(b) = d

\* A channel holds the next elements of its direction, in order.
ChannelHolds(d, i, r, s) ==
  LET c == Chan(d, i) IN
  /\ \A n \in 1..Len(wire[c]) : wire[c][n] = r[i] + n
  /\ r[i] + Len(wire[c]) <= s[i - 1]
  /\ Party(d, i - 1) \notin closed /\ Party(d, i) \notin closed =>
       r[i] + Len(wire[c]) = s[i - 1]

\* A bridge has handed on all it received, but for what is in its hand.
BridgeHolds(d, i, r, s) ==
  LET b == Party(d, i) IN
  /\ s[i] <= r[i]
  /\ b \notin closed =>
       IF Carries(b, d) THEN hand[b] = r[i] /\ s[i] = r[i] - 1 ELSE s[i] = r[i]

Flows(d, r, s) ==
  /\ s[0] = sent[d]
  /\ r[3] = Len(got[d])
  /\ \A i \in 1..3 : ChannelHolds(d, i, r, s)
  /\ \A i \in 1..2 : BridgeHolds(d, i, r, s)

Counts == [1..3 -> Nat] \X [0..2 -> Nat]

FlowInv ==
  \A d \in Direction :
    /\ got[d] = [i \in 1..Len(got[d]) |-> i]
    /\ \E k \in Counts : Flows(d, k[1], k[2])

\* Where a direction moves nothing on and loses no more than the end of a channel
\* one of whose parties is closed, it has come as far as before.
LEMMA FlowsOn ==
  ASSUME NEW d \in Direction, NEW r \in [1..3 -> Nat], NEW s \in [0..2 -> Nat],
         wire \in Wires, wire' \in Wires, Flows(d, r, s),
         closed \subseteq closed', sent'[d] = sent[d], got'[d] = got[d],
         \A i \in 1..3 : LET c == Chan(d, i) IN
           /\ Prefix(wire[c], wire'[c])
           /\ Party(d, i - 1) \notin closed' /\ Party(d, i) \notin closed' => wire'[c] = wire[c],
         \A i \in 1..2 : LET b == Party(d, i) IN
           b \notin closed' =>
             /\ Carries(b, d)' = Carries(b, d)
             /\ Carries(b, d) => hand'[b] = hand[b]
  PROVE  Flows(d, r, s)'
<1>1. ASSUME NEW i \in 1..3
      PROVE  ChannelHolds(d, i, r, s)'
  <2> DEFINE c == Chan(d, i)
  <2>1. c \in Channel
    BY Neighbours
  <2>2. Len(wire[c]) \in Nat /\ Len(wire'[c]) \in Nat /\ r[i] \in Nat /\ s[i - 1] \in Nat
    BY <2>1 DEF Wires
  <2>3. ChannelHolds(d, i, r, s)
    BY DEF Flows
  <2>4. Len(wire'[c]) <= Len(wire[c]) /\ \A n \in 1..Len(wire'[c]) : wire'[c][n] = wire[c][n]
    BY DEF Prefix
  <2>5. Party(d, i - 1) \notin closed' /\ Party(d, i) \notin closed' =>
          wire'[c] = wire[c] /\ Party(d, i - 1) \notin closed /\ Party(d, i) \notin closed
    OBVIOUS
  <2>6. /\ \A n \in 1..Len(wire[c]) : wire[c][n] = r[i] + n
        /\ r[i] + Len(wire[c]) <= s[i - 1]
        /\ Party(d, i - 1) \notin closed /\ Party(d, i) \notin closed =>
             r[i] + Len(wire[c]) = s[i - 1]
    BY <2>3 DEF ChannelHolds
  <2> HIDE DEF c
  <2>7. \A n \in 1..Len(wire'[c]) : n \in 1..Len(wire[c])
    <3> DEFINE before == Len(wire[c])  after == Len(wire'[c])
    <3>1. before \in Nat /\ after \in Nat /\ after <= before
      BY <2>2, <2>4
    <3> HIDE DEF before, after
    <3>2. \A n \in 1..after : n \in 1..before
      BY ONLY <3>1
    <3> QED
      BY <3>2 DEF before, after
  <2>8. \A n \in 1..Len(wire'[c]) : wire'[c][n] = r[i] + n
    BY <2>4, <2>6, <2>7
  <2>9. r[i] + Len(wire'[c]) <= s[i - 1]
    <3>1. Len(wire'[c]) <= Len(wire[c])
      BY <2>4
    <3>2. r[i] + Len(wire[c]) <= s[i - 1]
      BY <2>6
    <3> DEFINE before == Len(wire[c])
               after == Len(wire'[c])
               base == r[i]
               top == s[i - 1]
    <3>3. before \in Nat /\ after \in Nat /\ base \in Nat /\ top \in Nat
      BY <2>2
    <3>4. after <= before /\ base + before <= top
      BY <3>1, <3>2
    <3> HIDE DEF before, after, base, top
    <3>5. base + after <= top
      BY <3>3, <3>4
    <3> QED
      BY <3>5 DEF after, base, top
  <2>10. Party(d, i - 1) \notin closed' /\ Party(d, i) \notin closed' =>
           r[i] + Len(wire'[c]) = s[i - 1]
    BY <2>5, <2>6
  <2> QED
    BY <2>8, <2>9, <2>10 DEF ChannelHolds, c
<1>2. ASSUME NEW i \in 1..2
      PROVE  BridgeHolds(d, i, r, s)'
  <2>1. BridgeHolds(d, i, r, s)
    BY DEF Flows
  <2>2. Party(d, i) \notin closed' => Party(d, i) \notin closed
    OBVIOUS
  <2> QED
    BY <2>1, <2>2 DEF BridgeHolds
<1> QED
  BY <1>1, <1>2 DEF Flows

\* What moves an element of direction d is the speech of its first party, the
\* ear of its last, or a bridge that serves it.
Still(d) ==
  /\ sent'[d] = sent[d]
  /\ got'[d] = got[d]
  /\ \A i \in 1..2 : LET b == Party(d, i) IN
       b \notin closed' =>
         /\ Carries(b, d)' = Carries(b, d)
         /\ Carries(b, d) => hand'[b] = hand[b]

\* A direction that stands still while sockets are closed.
LEMMA CloseFlowsOn ==
  ASSUME TypeOK, NEW d \in Direction, NEW parties, Close(parties), Still(d),
         \E k \in Counts : Flows(d, k[1], k[2])
  PROVE  \E k \in Counts : Flows(d, k[1], k[2])'
<1>1. PICK k \in Counts : Flows(d, k[1], k[2])
  OBVIOUS
<1>2. wire \in Wires
  BY TypeParts DEF WiresFit
<1>3. /\ wire' \in Wires /\ closed \subseteq closed' /\ parties \subseteq closed'
      /\ \A c \in Channel :
              /\ Prefix(wire[c], wire'[c])
              /\ Receiver(c) \notin closed' /\ Sender(c) \notin parties => wire'[c] = wire[c]
  BY <1>2, CloseLeaves
<1>4. ASSUME NEW i \in 1..3
      PROVE  LET c == Chan(d, i) IN
             /\ Prefix(wire[c], wire'[c])
             /\ Party(d, i - 1) \notin closed' /\ Party(d, i) \notin closed' => wire'[c] = wire[c]
  BY <1>3, Neighbours
<1>5. k[1] \in [1..3 -> Nat] /\ k[2] \in [0..2 -> Nat]
  BY <1>1 DEF Counts
<1>6. Flows(d, k[1], k[2])'
  BY <1>1, <1>2, <1>3, <1>4, <1>5, FlowsOn DEF Still
<1> QED
  BY <1>1, <1>6

\* A direction that stands still while an element is sent in the other one.
LEMMA PutFlowsOn ==
  ASSUME TypeOK, NEW d \in Direction, NEW c \in Channel, NEW element \in 1..MaxSent,
         Put(c, element), c[2] # d, closed' = closed, Still(d),
         \E k \in Counts : Flows(d, k[1], k[2])
  PROVE  \E k \in Counts : Flows(d, k[1], k[2])'
<1>1. PICK k \in Counts : Flows(d, k[1], k[2])
  OBVIOUS
<1>2. wire \in Wires
  BY TypeParts DEF WiresFit
<1>3. wire' \in Wires
      /\ (Receiver(c) \notin closed => wire' = [wire EXCEPT ![c] = Append(wire[c], element)])
      /\ (Receiver(c) \in closed =>
            \A j \in Channel :
              Prefix(wire[j], wire'[j]) /\ (j # Reverse(c) => wire'[j] = wire[j]))
  BY <1>2, PutLeaves
<1>4. ASSUME NEW i \in 1..3
      PROVE  LET j == Chan(d, i) IN
             /\ Prefix(wire[j], wire'[j])
             /\ Party(d, i - 1) \notin closed' /\ Party(d, i) \notin closed' => wire'[j] = wire[j]
  <2> DEFINE j == Chan(d, i)
  <2>1. /\ j \in Channel /\ j # c /\ Sender(j) = Party(d, i - 1)
        /\ Sender(Reverse(c)) = Receiver(c)
    BY Neighbours, Ends
  <2>2. CASE Receiver(c) \notin closed
    <3>1. wire'[j] = wire[j] /\ Len(wire[j]) \in Nat
      BY <1>2, <1>3, <2>1, <2>2 DEF Wires
    <3> QED
      BY <3>1 DEF Prefix
  <2>3. CASE Receiver(c) \in closed
    BY <1>3, <2>1, <2>3
  <2> QED
    BY <2>2, <2>3
<1>5. k[1] \in [1..3 -> Nat] /\ k[2] \in [0..2 -> Nat]
  BY <1>1 DEF Counts
<1>6. Flows(d, k[1], k[2])'
  BY <1>1, <1>2, <1>3, <1>4, <1>5, FlowsOn DEF Still
<1> QED
  BY <1>1, <1>6

\* A direction whose channels are left alone.
LEMMA SameFlowsOn ==
  ASSUME TypeOK, NEW d \in Direction, wire' \in Wires,
         \A c \in Channel : c[2] = d => wire'[c] = wire[c], closed' = closed, Still(d),
         \E k \in Counts : Flows(d, k[1], k[2])
  PROVE  \E k \in Counts : Flows(d, k[1], k[2])'
<1>1. PICK k \in Counts : Flows(d, k[1], k[2])
  OBVIOUS
<1>2. wire \in Wires
  BY TypeParts DEF WiresFit
<1>3. ASSUME NEW i \in 1..3
      PROVE  LET c == Chan(d, i) IN Prefix(wire[c], wire'[c]) /\ wire'[c] = wire[c]
  <2>1. Chan(d, i) \in Channel /\ Chan(d, i)[2] = d
    BY Neighbours
  <2>2. wire'[Chan(d, i)] = wire[Chan(d, i)] /\ Len(wire[Chan(d, i)]) \in Nat
    BY <1>2, <2>1 DEF Wires
  <2> QED
    BY <2>2 DEF Prefix
<1>4. k[1] \in [1..3 -> Nat] /\ k[2] \in [0..2 -> Nat]
  BY <1>1 DEF Counts
<1>5. Flows(d, k[1], k[2])'
  BY <1>1, <1>2, <1>3, <1>4, FlowsOn DEF Still
<1> QED
  BY <1>1, <1>5

\* A channel that is left alone, whatever else is counted.
LEMMA ChannelKept ==
  ASSUME NEW d \in Direction, NEW i \in 1..3, NEW r, NEW s, NEW t, NEW u,
         ChannelHolds(d, i, r, s), t[i] = r[i], u[i - 1] = s[i - 1],
         wire'[Chan(d, i)] = wire[Chan(d, i)], closed' = closed
  PROVE  ChannelHolds(d, i, t, u)'
BY DEF ChannelHolds

\* A bridge that is left alone.
LEMMA BridgeKept ==
  ASSUME NEW d \in Direction, NEW i \in 1..2, NEW r, NEW s, NEW t, NEW u,
         BridgeHolds(d, i, r, s), t[i] = r[i], u[i] = s[i], closed' = closed,
         Carries(Party(d, i), d)' = Carries(Party(d, i), d),
         hand'[Party(d, i)] = hand[Party(d, i)]
  PROVE  BridgeHolds(d, i, t, u)'
BY DEF BridgeHolds

\* What stands where in a sequence that has grown by one element.
LEMMA AppendedAt ==
  ASSUME NEW seq \in Seq(1..MaxSent), NEW x \in 1..MaxSent
  PROVE  /\ Len(Append(seq, x)) = Len(seq) + 1
         /\ \A n \in 1..Len(Append(seq, x)) :
              Append(seq, x)[n] = IF n <= Len(seq) THEN seq[n] ELSE x
OBVIOUS

\* The next element is sent into a channel.
LEMMA ChannelGrows ==
  ASSUME NEW d \in Direction, NEW i \in 1..3, NEW r \in [1..3 -> Nat], NEW s \in [0..2 -> Nat],
         NEW u, NEW c, c = Chan(d, i), NEW element \in 1..MaxSent,
         ChannelHolds(d, i, r, s), wire \in Wires, Put(c, element), closed' = closed,
         Party(d, i - 1) \notin closed, element = s[i - 1] + 1, u[i - 1] = element
  PROVE  ChannelHolds(d, i, r, u)'
<1>1. /\ c \in Channel /\ Receiver(c) = Party(d, i) /\ c # Reverse(c)
  BY Neighbours, Ends
<1>2. /\ Receiver(c) \notin closed => wire' = [wire EXCEPT ![c] = Append(wire[c], element)]
      /\ Receiver(c) \in closed =>
            \A j \in Channel :
              Prefix(wire[j], wire'[j]) /\ (j # Reverse(c) => wire'[j] = wire[j])
  BY <1>1, PutLeaves
<1>3. /\ \A n \in 1..Len(wire[c]) : wire[c][n] = r[i] + n
      /\ r[i] + Len(wire[c]) <= s[i - 1]
      /\ Receiver(c) \notin closed => r[i] + Len(wire[c]) = s[i - 1]
  BY <1>1 DEF ChannelHolds
<1>4. wire[c] \in Seq(1..MaxSent) /\ Len(wire[c]) \in Nat /\ r[i] \in Nat /\ s[i - 1] \in Nat
  BY <1>1 DEF Wires
<1>5. CASE Receiver(c) \in closed
  <2>1. wire'[c] = wire[c]
    BY <1>1, <1>2, <1>5
  <2>2. r[i] + Len(wire[c]) <= u[i - 1]
    BY <1>3, <1>4
  <2>3. /\ \A n \in 1..Len(wire'[c]) : wire'[c][n] = r[i] + n
        /\ r[i] + Len(wire'[c]) <= u[i - 1]
    BY <1>3, <2>1, <2>2
  <2>4. Party(d, i) \in closed'
    BY <1>1, <1>5
  <2> QED
    BY <2>3, <2>4 DEF ChannelHolds
<1>6. CASE Receiver(c) \notin closed
  <2>1. wire'[c] = Append(wire[c], element)
    BY <1>1, <1>2, <1>6 DEF Wires
  <2>2. Len(wire'[c]) = Len(wire[c]) + 1
        /\ \A n \in 1..Len(wire'[c]) :
             wire'[c][n] = IF n <= Len(wire[c]) THEN wire[c][n] ELSE element
    <3>1. wire[c] \in Seq(1..MaxSent) /\ element \in 1..MaxSent
      BY ONLY <1>4, element \in 1..MaxSent
    <3>2. /\ Len(Append(wire[c], element)) = Len(wire[c]) + 1
          /\ \A n \in 1..Len(Append(wire[c], element)) : Append(wire[c], element)[n] =
               IF n <= Len(wire[c]) THEN wire[c][n] ELSE element
      BY ONLY <3>1, AppendedAt
    <3> QED
      BY ONLY <2>1, <3>2
  <2> DEFINE old == wire[c]  new == wire'[c]  base == r[i]
  <2>3. /\ Len(old) \in Nat /\ base \in Nat /\ Len(new) = Len(old) + 1
        /\ element = base + Len(old) + 1
        /\ \A n \in 1..Len(old) : old[n] = base + n
        /\ \A n \in 1..Len(new) : new[n] = IF n <= Len(old) THEN old[n] ELSE element
    BY <1>3, <1>4, <1>6, <2>2
  <2> HIDE DEF old, new, base
  <2>4. \A n \in 1..Len(new) : new[n] = base + n
    <3> SUFFICES ASSUME NEW n \in 1..Len(new) PROVE new[n] = base + n
      OBVIOUS
    <3>1. n \in 1..Len(old) \/ n = Len(old) + 1
      BY <2>3
    <3>2. CASE n \in 1..Len(old)
      <4>1. n <= Len(old) /\ old[n] = base + n
        BY <2>3, <3>2
      <4>2. new[n] = old[n]
        BY <2>3, <4>1
      <4> QED
        BY <4>1, <4>2
    <3>3. CASE n = Len(old) + 1
      <4>1. ~(n <= Len(old)) /\ element = base + n
        BY <2>3, <3>3
      <4>2. new[n] = element
        BY <2>3, <4>1
      <4> QED
        BY <4>1, <4>2
    <3> QED
      BY <3>1, <3>2, <3>3
  <2>5. base + Len(new) = u[i - 1]
    BY <2>3
  <2>6. base + Len(new) <= u[i - 1]
    BY <2>3
  <2> QED
    BY <1>1, <2>4, <2>5, <2>6 DEF ChannelHolds, old, new, base
<1> QED
  BY <1>5, <1>6

\* An element is taken from a channel.
Takes(c) == wire[c] # <<>> /\ wire' = [wire EXCEPT ![c] = Tail(wire[c])]

\* The next element is received from a channel.
LEMMA ChannelYields ==
  ASSUME NEW d \in Direction, NEW i \in 1..3, NEW r \in [1..3 -> Nat], NEW s \in [0..2 -> Nat],
         NEW t, NEW c, c = Chan(d, i), wire \in Wires, Takes(c),
         ChannelHolds(d, i, r, s), closed' = closed, t[i] = r[i] + 1
  PROVE  /\ ChannelHolds(d, i, t, s)'
         /\ Head(wire[c]) = r[i] + 1
         /\ \A j \in Channel : j # c => wire'[j] = wire[j]
<1>1. c \in Channel
  BY Neighbours
<1>2. /\ Head(wire[c]) = wire[c][1] /\ Len(wire[c]) >= 1
      /\ Len(wire'[c]) = Len(wire[c]) - 1
      /\ \A n \in 1..Len(wire'[c]) : wire'[c][n] = wire[c][n + 1]
      /\ \A j \in Channel : j # c => wire'[j] = wire[j]
  BY <1>1, TakeLeaves DEF Takes
<1>3. /\ \A n \in 1..Len(wire[c]) : wire[c][n] = r[i] + n
      /\ r[i] + Len(wire[c]) <= s[i - 1]
      /\ Party(d, i - 1) \notin closed /\ Party(d, i) \notin closed =>
            r[i] + Len(wire[c]) = s[i - 1]
  BY DEF ChannelHolds
<1>4. Len(wire[c]) \in Nat /\ r[i] \in Nat /\ s[i - 1] \in Nat
  BY <1>1 DEF Wires
<1>5. ASSUME NEW n \in 1..Len(wire'[c])
      PROVE  wire'[c][n] = t[i] + n
  <2>0. Len(wire[c]) \in Nat /\ Len(wire'[c]) = Len(wire[c]) - 1
        /\ wire'[c][n] = wire[c][n + 1]
    BY ONLY <1>2, <1>4, n \in 1..Len(wire'[c])
  <2>1. n + 1 \in 1..Len(wire[c])
    BY ONLY <2>0, n \in 1..Len(wire'[c])
  <2>2. wire[c][n + 1] = r[i] + (n + 1)
    BY <1>3, <2>1
  <2>3. r[i] + (n + 1) = t[i] + n
    BY <1>4
  <2> QED
    BY <2>0, <2>2, <2>3
<1>6. t[i] + Len(wire'[c]) = r[i] + Len(wire[c])
  <2> DEFINE old == Len(wire[c])  new == Len(wire'[c])  base == r[i]  next == t[i]
  <2>1. new = old - 1 /\ old \in Nat /\ base \in Nat /\ next = base + 1
    BY <1>2, <1>4
  <2> HIDE DEF old, new, base, next
  <2>2. next + new = base + old
    BY <2>1
  <2> QED
    BY <2>2 DEF old, new, base, next
<1>7. ChannelHolds(d, i, t, s)'
  <2>1. \A n \in 1..Len(wire'[c]) : wire'[c][n] = t[i] + n
    BY <1>5
  <2>2. t[i] + Len(wire'[c]) <= s[i - 1]
    BY <1>3, <1>6
  <2>3. Party(d, i - 1) \notin closed' /\ Party(d, i) \notin closed' =>
          t[i] + Len(wire'[c]) = s[i - 1]
    BY <1>3, <1>6
  <2> QED
    BY <2>1, <2>2, <2>3 DEF ChannelHolds
<1>8. Head(wire[c]) = r[i] + 1
  <2>1. 1 \in 1..Len(wire[c])
    BY <1>2, <1>4
  <2> QED
    BY <1>2, <1>3, <2>1
<1> QED
  BY <1>2, <1>7, <1>8

\* A peer sends the next element of its direction.
LEMMA SendFlows ==
  ASSUME TypeOK, NEW p \in Peers, Send(p),
         \E k \in Counts : Flows(Speech(p)[2], k[1], k[2])
  PROVE  \E k \in Counts : Flows(Speech(p)[2], k[1], k[2])'
<1> DEFINE c == Speech(p)  d == Speech(p)[2]
<1>0. /\ d \in Direction /\ c \in Channel /\ c = Chan(d, 1)
      /\ Sender(c) = p /\ Sender(c) = Party(d, 0) /\ Receiver(c) = Party(d, 1)
      /\ Reverse(c)[2] # d /\ \A i \in 1..3 : i # 1 => Chan(d, i) # c
      /\ \A i \in 1..3 : Chan(d, i) \in Channel /\ Chan(d, i)[2] = d
  BY PeerPlaces, Neighbours DEF Reverse, Opposite, Direction
<1>1. PICK k \in Counts : Flows(d, k[1], k[2])
  OBVIOUS
<1> DEFINE r == k[1]  s == k[2]  u == [k[2] EXCEPT ![0] = k[2][0] + 1]
           element == sent[d] + 1
<1>2. r \in [1..3 -> Nat] /\ s \in [0..2 -> Nat] /\ <<r, u>> \in Counts
      /\ u[0] = s[0] + 1 /\ \A i \in 1..2 : u[i] = s[i]
  BY <1>1 DEF Counts
<1>3. wire \in Wires /\ Len(wire[c]) \in Nat
  BY <1>0, TypeParts DEF WiresFit, Wires
<1>4. /\ p \notin closed /\ closed' = closed /\ UNCHANGED bridgeVars
      /\ sent'[d] = element /\ got' = got /\ Put(c, element) /\ element \in 1..MaxSent
  <2>1. sent \in [Direction -> 0..MaxSent] /\ sent[d] < MaxSent
    BY <1>0, TypeParts DEF Send, PeersTyped
  <2>2. sent'[d] = element
    BY <1>0, <2>1 DEF Send
  <2>3. element \in 1..MaxSent
    BY <1>0, <2>1, BridgeAssumption
  <2> QED
    BY <2>2, <2>3 DEF Send
<1>5. s[0] = sent[d] /\ ChannelHolds(d, 1, r, s) /\ Flows(d, r, s)
  BY <1>1 DEF Flows
<1> HIDE DEF c, d, r, s, u, element
<1>6. (Receiver(c) \notin closed => wire' = [wire EXCEPT ![c] = Append(wire[c], element)])
      /\ (Receiver(c) \in closed =>
            \A j \in Channel :
              Prefix(wire[j], wire'[j]) /\ (j # Reverse(c) => wire'[j] = wire[j]))
  BY <1>0, <1>3, <1>4, PutLeaves
<1>7. \A i \in 2..3 : wire'[Chan(d, i)] = wire[Chan(d, i)]
  BY <1>0, <1>3, <1>6 DEF Wires
<1>8. ChannelHolds(d, 1, r, u)'
  <2>1. element = s[1 - 1] + 1 /\ u[1 - 1] = element /\ Party(d, 1 - 1) \notin closed
        /\ c = Chan(d, 1)
    BY <1>0, <1>2, <1>4, <1>5 DEF element
  <2> QED
    BY <1>0, <1>2, <1>3, <1>4, <1>5, <2>1, ChannelGrows
<1>9. ASSUME NEW i \in 2..3
      PROVE  ChannelHolds(d, i, r, u)'
  <2>1. ChannelHolds(d, i, r, s) /\ u[i - 1] = s[i - 1]
    BY <1>5, <1>2 DEF Flows
  <2>2. i \in 1..3
    OBVIOUS
  <2> QED
    BY <1>0, <1>2, <1>4, <1>7, <2>1, <2>2, ChannelKept
<1>10. ASSUME NEW i \in 1..2
       PROVE  BridgeHolds(d, i, r, u)'
  <2>1. BridgeHolds(d, i, r, s) /\ u[i] = s[i]
    BY <1>5, <1>2 DEF Flows
  <2>2. Carries(Party(d, i), d)' = Carries(Party(d, i), d)
        /\ hand'[Party(d, i)] = hand[Party(d, i)]
    BY <1>4 DEF bridgeVars, Carries, Serving
  <2> QED
    BY <1>0, <1>4, <2>1, <2>2, BridgeKept
<1>11. Flows(d, r, u)'
  <2>1. u[0] = sent'[d] /\ r[3] = Len(got'[d])
    BY <1>2, <1>4, <1>5 DEF Flows, element
  <2>2. \A i \in 1..3 : i = 1 \/ i \in 2..3
    OBVIOUS
  <2> QED
    BY <1>8, <1>9, <1>10, <2>1, <2>2 DEF Flows
<1> QED
  BY <1>2, <1>11 DEF d

\* A peer receives the next element of the other direction.
LEMMA HearsFlows ==
  ASSUME TypeOK, NEW p \in Peers, Hears(p),
         \E k \in Counts : Flows(Hearing(p)[2], k[1], k[2])
  PROVE  /\ \E k \in Counts : Flows(Hearing(p)[2], k[1], k[2])'
         /\ got'[Hearing(p)[2]] =
              Append(got[Hearing(p)[2]], Len(got[Hearing(p)[2]]) + 1)
<1> DEFINE c == Hearing(p)  d == Hearing(p)[2]
<1>0. /\ d \in Direction /\ c \in Channel /\ c = Chan(d, 3)
      /\ \A i \in 1..3 : i # 3 => Chan(d, i) # c
      /\ \A i \in 1..3 : Chan(d, i) \in Channel
  BY PeerPlaces, Neighbours
<1>1. PICK k \in Counts : Flows(d, k[1], k[2])
  OBVIOUS
<1> DEFINE r == k[1]  s == k[2]  t == [k[1] EXCEPT ![3] = k[1][3] + 1]
<1>2. r \in [1..3 -> Nat] /\ s \in [0..2 -> Nat] /\ <<t, s>> \in Counts
      /\ t[3] = r[3] + 1 /\ \A i \in 1..2 : t[i] = r[i]
  BY <1>1 DEF Counts
<1>3. wire \in Wires /\ got[d] \in Seq(1..MaxSent) /\ Len(got[d]) \in Nat
  BY <1>0, TypeParts DEF WiresFit, PeersTyped
<1>4. /\ closed' = closed /\ UNCHANGED bridgeVars /\ sent' = sent
      /\ wire[c] # <<>> /\ wire' = [wire EXCEPT ![c] = Tail(wire[c])]
      /\ got'[d] = Append(got[d], Head(wire[c]))
  BY <1>0, TypeParts DEF Hears, PeersTyped
<1>5. s[0] = sent[d] /\ r[3] = Len(got[d]) /\ ChannelHolds(d, 3, r, s) /\ Flows(d, r, s)
  BY <1>1 DEF Flows
<1> HIDE DEF c, d, r, s, t
<1>6. /\ ChannelHolds(d, 3, t, s)' /\ Head(wire[c]) = r[3] + 1
      /\ \A j \in Channel : j # c => wire'[j] = wire[j]
  <2>1. 3 \in 1..3
    OBVIOUS
  <2>2. Takes(c)
    BY <1>4 DEF Takes
  <2>3. d \in Direction /\ c = Chan(d, 3) /\ ChannelHolds(d, 3, r, s) /\ closed' = closed
    BY <1>0, <1>4, <1>5
  <2>4. wire \in Wires /\ t[3] = r[3] + 1 /\ r \in [1..3 -> Nat] /\ s \in [0..2 -> Nat]
    BY <1>2, <1>3
  <2> QED
    BY <2>1, <2>2, <2>3, <2>4, ChannelYields
<1>7. got'[d] = Append(got[d], Len(got[d]) + 1) /\ Len(got'[d]) = t[3]
  BY <1>2, <1>3, <1>4, <1>5, <1>6
<1>8. ASSUME NEW i \in 1..2
      PROVE  ChannelHolds(d, i, t, s)' /\ BridgeHolds(d, i, t, s)'
  <2>1. ChannelHolds(d, i, r, s) /\ BridgeHolds(d, i, r, s) /\ t[i] = r[i]
    BY <1>2, <1>5 DEF Flows
  <2>2. /\ Carries(Party(d, i), d)' = Carries(Party(d, i), d)
        /\ hand'[Party(d, i)] = hand[Party(d, i)]
        /\ wire'[Chan(d, i)] = wire[Chan(d, i)]
    BY <1>0, <1>4, <1>6 DEF bridgeVars, Carries, Serving
  <2>3. i \in 1..3
    OBVIOUS
  <2> QED
    BY <1>0, <1>4, <2>1, <2>2, <2>3, BridgeKept, ChannelKept
<1>9. Flows(d, t, s)'
  <2>1. s[0] = sent'[d] /\ \A i \in 1..3 : i = 3 \/ i \in 1..2
    BY <1>4, <1>5
  <2> QED
    BY <1>6, <1>7, <1>8, <2>1 DEF Flows
<1> QED
  BY <1>2, <1>7, <1>9 DEF d

\* A bridge receives the next element of the direction it serves.
LEMMA ReceiveFlows ==
  ASSUME TypeOK, NEW b \in Bridges, NEW d \in Direction, d = Serving(b),
         Receive(b), wire[SourceOf(b, d)] # <<>>,
         \E k \in Counts : Flows(d, k[1], k[2])
  PROVE  \E k \in Counts : Flows(d, k[1], k[2])'
<1> DEFINE c == SourceOf(b, d)  i == Party(d, b)
<1>0. d \in Direction
  OBVIOUS
<1>a. /\ i \in 1..2 /\ Party(d, i) = b /\ c = Chan(d, i) /\ c \in Channel
      /\ \A j \in 1..3 : Chan(d, j) \in Channel /\ (j # i => Chan(d, j) # c)
      /\ \A j \in 1..2 : j # i => Party(d, j) # b /\ Party(d, j) \in Bridges
  BY <1>0, BridgePlaces, Neighbours DEF Party, Bridges
<1>1. PICK k \in Counts : Flows(d, k[1], k[2])
  OBVIOUS
<1> DEFINE r == k[1]  s == k[2]  t == [k[1] EXCEPT ![i] = k[1][i] + 1]
<1>2. r \in [1..3 -> Nat] /\ s \in [0..2 -> Nat] /\ <<t, s>> \in Counts
      /\ t[i] = r[i] + 1 /\ \A j \in 1..3 : j # i => t[j] = r[j]
  <2>1. r \in [1..3 -> Nat] /\ s \in [0..2 -> Nat]
    BY DEF Counts
  <2>2. i \in 1..3 /\ r[i] \in Nat /\ r[i] + 1 \in Nat
    BY <1>a, <2>1
  <2>3. t \in [1..3 -> Nat] /\ t[i] = r[i] + 1 /\ \A j \in 1..3 : j # i => t[j] = r[j]
    BY <2>1, <2>2
  <2> QED
    BY <2>1, <2>3 DEF Counts
<1>3. wire \in Wires /\ b \notin closed
  BY TypeParts DEF WiresFit, BridgesTyped, Receive
<1>4. /\ closed' = closed /\ sent' = sent /\ got' = got
      /\ wire[c] # <<>> /\ wire' = [wire EXCEPT ![c] = Tail(wire[c])]
      /\ hand'[b] = Head(wire[c]) /\ \A j \in Bridges : j # b => hand'[j] = hand[j]
      /\ ~Carries(b, d) /\ Carries(b, d)'
      /\ \A j \in Bridges : j # b => Carries(j, d)' = Carries(j, d)
  BY TypeParts DEF Receive, BridgesTyped, Carries, Serving, peerVars
<1>5. s[0] = sent[d] /\ r[3] = Len(got[d]) /\ ChannelHolds(d, i, r, s) /\ Flows(d, r, s)
  BY <1>1, <1>a DEF Flows
<1> HIDE DEF c, i, r, s, t
<1>6. /\ ChannelHolds(d, i, t, s)' /\ Head(wire[c]) = r[i] + 1
      /\ \A j \in Channel : j # c => wire'[j] = wire[j]
  <2>1. i \in 1..3 /\ d \in Direction
    BY <1>a
  <2>2. Takes(c) /\ closed' = closed
    BY <1>4 DEF Takes
  <2>3. /\ c = Chan(d, i) /\ ChannelHolds(d, i, r, s) /\ wire \in Wires
        /\ t[i] = r[i] + 1 /\ r \in [1..3 -> Nat] /\ s \in [0..2 -> Nat]
    BY <1>a, <1>2, <1>3, <1>5
  <2> QED
    BY <2>1, <2>2, <2>3, ChannelYields
<1>7. BridgeHolds(d, i, t, s)'
  <2>1. s[i] = r[i] /\ r[i] \in Nat
    BY <1>a, <1>2, <1>3, <1>4, <1>5 DEF Flows, BridgeHolds
  <2>2. hand'[b] = t[i] /\ t[i] = r[i] + 1
    BY <1>2, <1>4, <1>6
  <2>3. s[i] <= t[i] /\ s[i] = t[i] - 1
    BY <2>1, <2>2
  <2> QED
    BY <1>a, <1>4, <2>2, <2>3 DEF BridgeHolds
<1>8. ASSUME NEW j \in 1..3, j # i
      PROVE  ChannelHolds(d, j, t, s)'
  <2>1. ChannelHolds(d, j, r, s) /\ t[j] = r[j] /\ wire'[Chan(d, j)] = wire[Chan(d, j)]
    BY <1>a, <1>2, <1>5, <1>6, <1>8 DEF Flows
  <2> QED
    BY <1>0, <1>4, <2>1, ChannelKept
<1>9. ASSUME NEW j \in 1..2, j # i
      PROVE  BridgeHolds(d, j, t, s)'
  <2>1. BridgeHolds(d, j, r, s) /\ t[j] = r[j]
        /\ Carries(Party(d, j), d)' = Carries(Party(d, j), d)
        /\ hand'[Party(d, j)] = hand[Party(d, j)]
    BY <1>a, <1>2, <1>4, <1>5, <1>9 DEF Flows
  <2> QED
    BY <1>0, <1>4, <2>1, BridgeKept
<1>10. Flows(d, t, s)'
  <2>1. s[0] = sent'[d] /\ t[3] = Len(got'[d])
    BY <1>a, <1>2, <1>4, <1>5
  <2> QED
    BY <1>6, <1>7, <1>8, <1>9, <2>1 DEF Flows
<1> QED
  BY <1>2, <1>10

\* A bridge hands on the element it holds.
LEMMA SendAllFlows ==
  ASSUME TypeOK, NEW b \in Bridges, NEW d \in Direction, d = Serving(b), SendAll(b),
         \E k \in Counts : Flows(d, k[1], k[2])
  PROVE  \E k \in Counts : Flows(d, k[1], k[2])'
<1> DEFINE c == SinkOf(b, d)  i == Party(d, b)
<1>0. d \in Direction
  OBVIOUS
<1>a. /\ i \in 1..2 /\ Party(d, i) = b /\ c = Chan(d, i + 1) /\ c \in Channel
      /\ Reverse(c)[2] # d
      /\ \A j \in 1..3 : Chan(d, j) \in Channel /\ Chan(d, j)[2] = d /\ (j # i + 1 => Chan(d, j) # c)
      /\ \A j \in 1..2 : j # i => Party(d, j) # b /\ Party(d, j) \in Bridges
  BY <1>0, BridgePlaces, Neighbours DEF Party, Bridges, Reverse, Opposite, Direction
<1>1. PICK k \in Counts : Flows(d, k[1], k[2])
  OBVIOUS
<1> DEFINE r == k[1]  s == k[2]  u == [k[2] EXCEPT ![i] = k[2][i] + 1]
<1>2. r \in [1..3 -> Nat] /\ s \in [0..2 -> Nat] /\ <<r, u>> \in Counts
      /\ u[i] = s[i] + 1 /\ \A j \in 0..2 : j # i => u[j] = s[j]
  BY <1>a, <1>1 DEF Counts
<1>3. wire \in Wires /\ b \notin closed /\ hand[b] \in 1..MaxSent
  BY TypeParts DEF WiresFit, BridgesTyped, SendAll
<1>4. /\ closed' = closed /\ sent' = sent /\ got' = got /\ Put(c, hand[b])
      /\ \A j \in Bridges : j # b => hand'[j] = hand[j]
      /\ Carries(b, d) /\ ~Carries(b, d)'
      /\ \A j \in Bridges : j # b => Carries(j, d)' = Carries(j, d)
  BY TypeParts DEF SendAll, BridgesTyped, Carries, Serving, peerVars
<1>5. s[0] = sent[d] /\ r[3] = Len(got[d]) /\ Flows(d, r, s)
      /\ ChannelHolds(d, i + 1, r, s) /\ BridgeHolds(d, i, r, s)
  BY <1>1, <1>a DEF Flows
<1> HIDE DEF c, i, r, s, u
<1>6. hand[b] = r[i] /\ s[i] = r[i] - 1 /\ r[i] \in Nat /\ s[i] \in Nat
  BY <1>a, <1>2, <1>3, <1>4, <1>5 DEF BridgeHolds
<1>7. \A j \in Channel : j[2] = d /\ j # c => wire'[j] = wire[j]
  <2>1. /\ Receiver(c) \notin closed => wire' = [wire EXCEPT ![c] = Append(wire[c], hand[b])]
        /\ Receiver(c) \in closed =>
              \A j \in Channel :
                Prefix(wire[j], wire'[j]) /\ (j # Reverse(c) => wire'[j] = wire[j])
    BY <1>a, <1>3, <1>4, PutLeaves
  <2> QED
    BY <1>a, <1>3, <2>1 DEF Wires
<1>8. ChannelHolds(d, i + 1, r, u)'
  <2>1. i + 1 \in 1..3 /\ (i + 1) - 1 = i
    BY <1>a
  <2>2. /\ hand[b] = s[(i + 1) - 1] + 1 /\ u[(i + 1) - 1] = hand[b]
        /\ Party(d, (i + 1) - 1) \notin closed
    BY <1>a, <1>2, <1>3, <1>6, <2>1
  <2> QED
    BY <1>0, <1>a, <1>2, <1>3, <1>4, <1>5, <2>1, <2>2, ChannelGrows
<1>9. BridgeHolds(d, i, r, u)'
  <2>1. u[i] = r[i]
    BY <1>2, <1>6
  <2>2. u[i] <= r[i]
    BY <1>6, <2>1
  <2> QED
    BY <1>a, <1>4, <2>1, <2>2 DEF BridgeHolds
<1>10. ASSUME NEW j \in 1..3, j # i + 1
       PROVE  ChannelHolds(d, j, r, u)'
  <2>1. j - 1 \in 0..2 /\ j - 1 # i
    BY <1>a, <1>10
  <2>2. ChannelHolds(d, j, r, s) /\ u[j - 1] = s[j - 1] /\ wire'[Chan(d, j)] = wire[Chan(d, j)]
    BY <1>a, <1>2, <1>5, <1>7, <1>10, <2>1 DEF Flows
  <2> QED
    BY <1>0, <1>4, <2>2, ChannelKept
<1>11. ASSUME NEW j \in 1..2, j # i
       PROVE  BridgeHolds(d, j, r, u)'
  <2>1. BridgeHolds(d, j, r, s) /\ u[j] = s[j]
        /\ Carries(Party(d, j), d)' = Carries(Party(d, j), d)
        /\ hand'[Party(d, j)] = hand[Party(d, j)]
    BY <1>a, <1>2, <1>4, <1>5, <1>11 DEF Flows
  <2> QED
    BY <1>0, <1>4, <2>1, BridgeKept
<1>12. Flows(d, r, u)'
  <2>1. u[0] = sent'[d] /\ r[3] = Len(got'[d])
    BY <1>a, <1>2, <1>4, <1>5
  <2> QED
    BY <1>8, <1>9, <1>10, <1>11, <2>1 DEF Flows
<1> QED
  BY <1>2, <1>12

----------------------------------------------------------------------------
(* The invariant.                                                          *)

\* The channels a bridge uses for one direction are none of the other.
LEMMA OtherWay ==
  ASSUME NEW d \in Direction, NEW e \in Direction, e # d, NEW b \in Bridges
  PROVE  SourceOf(b, e)[2] # d /\ SinkOf(b, e)[2] # d
BY DEF SourceOf, SinkOf

\* One more in a sequence that counts.
LEMMA CountsOn ==
  ASSUME NEW S, NEW q \in Seq(S), q = [i \in 1..Len(q) |-> i],
         NEW t, t = Append(q, Len(q) + 1)
  PROVE  t = [i \in 1..Len(t) |-> i]
<1>1. Len(q) \in Nat
  OBVIOUS
<1>2. Len(t) = Len(q) + 1 /\ t \in Seq(S \cup {Len(q) + 1})
  BY AppendProperties
<1>3. \A i \in 1..Len(t) : t[i] = i
  <2> SUFFICES ASSUME NEW i \in 1..Len(t) PROVE t[i] = i
    OBVIOUS
  <2>1. CASE i \in 1..Len(q)
    BY <2>1, <1>1, <1>2
  <2>2. CASE i = Len(q) + 1
    BY <2>2, <1>1, <1>2
  <2> QED
    BY <1>1, <1>2, <2>1, <2>2
<1>4. t = [i \in 1..Len(t) |-> t[i]]
  BY <1>2
<1> QED
  BY <1>3, <1>4

Flowing(d) == \E k \in Counts : Flows(d, k[1], k[2])

\* What a peer does keeps a direction flowing.
LEMMA PeersKeepFlows ==
  ASSUME TypeOK, TypeOK', NEW p \in Peers, PeerStep(p), NEW d \in Direction, Flowing(d),
         got[d] = [i \in 1..Len(got[d]) |-> i]
  PROVE  Flowing(d)' /\ got'[d] = [i \in 1..Len(got'[d]) |-> i]
<1>0. /\ Speech(p) \in Channel /\ Hearing(p) \in Channel
      /\ Speech(p)[2] \in Direction /\ Hearing(p)[2] \in Direction
  BY PeerPlaces
<1>a. wire \in Wires /\ wire' \in Wires /\ sent \in [Direction -> 0..MaxSent]
      /\ got \in [Direction -> Seq(1..MaxSent)]
  BY TypeParts DEF TypeOK, Wires
<1>1. CASE Send(p)
  <2>1. got'[d] = got[d]
    BY <1>1 DEF Send
  <2>2. CASE d = Speech(p)[2]
    BY <1>1, <2>1, <2>2, SendFlows DEF Flowing
  <2>3. CASE d # Speech(p)[2]
    <3> DEFINE element == sent'[Speech(p)[2]]
    <3>1. element \in 1..MaxSent /\ sent'[d] = sent[d]
      BY <1>0, <1>1, <1>a, <2>3, BridgeAssumption DEF Send
    <3>2. Put(Speech(p), element) /\ closed' = closed /\ UNCHANGED bridgeVars
      BY <1>1 DEF Send
    <3>3. Still(d)
      BY <2>1, <3>1, <3>2 DEF Still, Carries, Serving, bridgeVars
    <3> HIDE DEF element
    <3> QED
      BY <1>0, <2>1, <2>3, <3>1, <3>2, <3>3, PutFlowsOn DEF Flowing
  <2> QED
    BY <2>2, <2>3
<1>2. CASE EndsSpeech(p) \/ HearsEnd(p)
  <2>1. UNCHANGED <<wire, closed, sent, got, bridgeVars>>
    BY <1>2 DEF EndsSpeech, HearsEnd
  <2>2. Still(d)
    BY <2>1 DEF Still, Carries, Serving, bridgeVars
  <2> QED
    BY <1>a, <2>1, <2>2, SameFlowsOn DEF Flowing
<1>3. CASE Leaves(p)
  <2>1. UNCHANGED <<sent, got, bridgeVars>> /\ Close({p})
    BY <1>3 DEF Leaves
  <2>2. Still(d)
    BY <2>1 DEF Still, Carries, Serving, bridgeVars
  <2> QED
    BY <2>1, <2>2, CloseFlowsOn DEF Flowing
<1>4. CASE Hears(p)
  <2>1. CASE d = Hearing(p)[2]
    <3>1. Flowing(d)' /\ got'[d] = Append(got[d], Len(got[d]) + 1)
      BY <1>4, <2>1, HearsFlows DEF Flowing
    <3>2. got[d] \in Seq(1..MaxSent)
      BY <1>a
    <3> QED
      BY <3>1, <3>2, CountsOn
  <2>2. CASE d # Hearing(p)[2]
    <3>1. got'[d] = got[d] /\ sent'[d] = sent[d] /\ closed' = closed /\ UNCHANGED bridgeVars
          /\ \A c \in Channel : c[2] = d => wire'[c] = wire[c]
      BY <1>0, <1>4, <1>a, <2>2 DEF Hears, Wires
    <3>2. Still(d)
      BY <3>1 DEF Still, Carries, Serving, bridgeVars
    <3> QED
      BY <1>a, <3>1, <3>2, SameFlowsOn DEF Flowing
  <2> QED
    BY <2>1, <2>2
<1> QED
  BY <1>1, <1>2, <1>3, <1>4 DEF PeerStep

\* A bridge that finishes moves nothing on.
LEMMA FinishFlows ==
  ASSUME TypeOK, NEW b \in Bridges, Finish(b), NEW d \in Direction, Flowing(d)
  PROVE  Flowing(d)' /\ got'[d] = got[d]
<1>1. /\ Close({b}) /\ b \in closed' /\ UNCHANGED <<sent, got, todo, hand>>
      /\ \A j \in Bridges : j # b => pc'[j] = pc[j]
  BY TypeParts DEF Finish, Close, BridgesTyped, peerVars
<1>2. \A i \in 1..2 : Party(d, i) \in Bridges
  BY DEF Party, Bridges
<1>3. Still(d)
  BY <1>1, <1>2 DEF Still, Carries, Serving
<1> QED
  BY <1>1, <1>3, CloseFlowsOn DEF Flowing

\* What a bridge does keeps a direction flowing.
LEMMA BridgesKeepFlows ==
  ASSUME TypeOK, TypeOK', NEW b \in Bridges, BridgeStep(b), NEW d \in Direction, Flowing(d)
  PROVE  Flowing(d)' /\ got'[d] = got[d]
<1>a. wire \in Wires /\ wire' \in Wires /\ pc \in [Bridges -> {"select", "recv", "sendall", "done"}]
      /\ todo \in [Bridges -> SUBSET Direction] /\ hand \in [Bridges -> 0..MaxSent]
      /\ \A i \in 1..2 : Party(d, i) \in Bridges
  BY DEF TypeOK, Wires, Party, Bridges
<1>0. PICK e \in Direction : e = Serving(b)
  BY DEF Serving, Direction
<1>b. SourceOf(b, e) \in Channel /\ SinkOf(b, e) \in Channel
  BY BridgePlaces
<1>1. CASE Select(b)
  <2>1. UNCHANGED <<wire, closed, sent, got, hand>> /\ pc[b] = "select" /\ pc'[b] = "recv"
        /\ \A j \in Bridges : j # b => pc'[j] = pc[j] /\ todo'[j] = todo[j]
    BY <1>1, <1>a DEF Select, peerVars
  <2>2. Still(d)
    BY <1>a, <2>1 DEF Still, Carries, Serving
  <2> QED
    BY <1>a, <2>1, <2>2, SameFlowsOn DEF Flowing
<1>2. CASE FindsStop(b)
  BY <1>2, FinishFlows DEF FindsStop
<1>3. CASE Receive(b)
  <2>1. CASE wire[SourceOf(b, e)] = <<>>
    BY <1>0, <1>3, <2>1, FinishFlows DEF Receive
  <2>2. CASE wire[SourceOf(b, e)] # <<>> /\ d = e
    <3>1. got' = got
      BY <1>0, <1>3, <2>2 DEF Receive, peerVars
    <3> QED
      BY <1>0, <1>3, <2>2, <3>1, ReceiveFlows DEF Flowing
  <2>3. CASE wire[SourceOf(b, e)] # <<>> /\ d # e
    <3>1. /\ UNCHANGED <<closed, sent, got, todo>>
          /\ pc[b] = "recv" /\ Serving(b) # d
          /\ \A j \in Bridges : j # b => pc'[j] = pc[j] /\ hand'[j] = hand[j]
      BY <1>0, <1>3, <1>a, <2>3 DEF Receive, peerVars
    <3>2. wire' = [wire EXCEPT ![SourceOf(b, e)] = Tail(@)]
      BY <1>0, <1>3, <2>3 DEF Receive
    <3>3. \A c \in Channel : c[2] = d => wire'[c] = wire[c]
      BY <1>a, <1>b, <2>3, <3>2, OtherWay DEF Wires
    <3>4. Still(d)
      BY <1>a, <3>1 DEF Still, Carries, Serving
    <3> QED
      BY <1>a, <3>1, <3>3, <3>4, SameFlowsOn DEF Flowing
  <2> QED
    BY <2>1, <2>2, <2>3
<1>4. CASE SendAll(b)
  <2>1. /\ UNCHANGED <<closed, sent, got>> /\ Put(SinkOf(b, e), hand[b])
        /\ pc[b] = "sendall" /\ pc'[b] # "sendall"
        /\ \A j \in Bridges : j # b => pc'[j] = pc[j] /\ hand'[j] = hand[j] /\ todo'[j] = todo[j]
    BY <1>0, <1>4, <1>a DEF SendAll, peerVars
  <2>2. CASE d = e
    BY <1>0, <1>4, <2>1, <2>2, SendAllFlows DEF Flowing
  <2>3. CASE d # e
    <3>1. PICK element \in 1..MaxSent : element = hand[b]
      BY <2>1 DEF TypeOK
    <3>2. Still(d)
      BY <1>0, <1>a, <2>1, <2>3 DEF Still, Carries, Serving
    <3>3. SinkOf(b, e)[2] # d /\ Put(SinkOf(b, e), element) /\ closed' = closed
      BY <2>1, <2>3, <3>1, OtherWay
    <3> QED
      BY <1>b, <2>1, <3>2, <3>3, PutFlowsOn DEF Flowing
  <2> QED
    BY <2>2, <2>3
<1>5. CASE SendFails(b)
  BY <1>5, FinishFlows DEF SendFails
<1> QED
  BY <1>1, <1>2, <1>3, <1>4, <1>5 DEF BridgeStep

\* FlowInv, for every capacity and every number of elements.
THEOREM BridgeFlows == Spec => []FlowInv
<1>1. Init => FlowInv
  <2> SUFFICES ASSUME Init, NEW d \in Direction
               PROVE  Flowing(d) /\ got[d] = [i \in 1..Len(got[d]) |-> i]
    BY DEF FlowInv, Flowing
  <2> DEFINE r == [i \in 1..3 |-> 0]  s == [i \in 0..2 |-> 0]
  <2>1. <<r, s>> \in Counts
    BY DEF Counts
  <2>2. /\ sent[d] = 0 /\ got[d] = <<>> /\ Len(got[d]) = 0
        /\ \A i \in 1..3 : wire[Chan(d, i)] = <<>> /\ Len(wire[Chan(d, i)]) = 0
        /\ \A i \in 1..2 : Party(d, i) \in Bridges /\ pc[Party(d, i)] = "select"
    BY Neighbours DEF Init, Party, Bridges
  <2>3. \A i \in 1..3 : r[i] = 0 /\ s[i - 1] = 0
    OBVIOUS
  <2>4. s[0] = 0 /\ r[3] = 0 /\ \A i \in 1..2 : r[i] = 0 /\ s[i] = 0
    OBVIOUS
  <2> HIDE DEF r, s
  <2>5. \A i \in 1..3 : ChannelHolds(d, i, r, s)
    BY <2>2, <2>3 DEF ChannelHolds
  <2>6. \A i \in 1..2 : BridgeHolds(d, i, r, s)
    BY <2>2, <2>4 DEF BridgeHolds, Carries
  <2>7. Flows(d, r, s)
    BY <2>2, <2>4, <2>5, <2>6 DEF Flows
  <2>8. got[d] = [i \in 1..Len(got[d]) |-> i]
    BY <2>2
  <2> QED
    BY <2>1, <2>7, <2>8 DEF Flowing
<1>2. ASSUME TypeOK, TypeOK', FlowInv, [Next]_vars
      PROVE  FlowInv'
  <2> SUFFICES ASSUME NEW d \in Direction
               PROVE  Flowing(d)' /\ got'[d] = [i \in 1..Len(got'[d]) |-> i]
    BY DEF FlowInv, Flowing
  <2>0. Flowing(d) /\ got[d] = [i \in 1..Len(got[d]) |-> i] /\ wire' \in Wires
    BY <1>2 DEF FlowInv, Flowing, TypeOK, Wires
  <2>1. CASE \E p \in Peers : PeerStep(p)
    BY <1>2, <2>0, <2>1, PeersKeepFlows
  <2>2. CASE \E b \in Bridges : BridgeStep(b)
    <3>1. Flowing(d)' /\ got'[d] = got[d]
      BY <1>2, <2>0, <2>2, BridgesKeepFlows
    <3> QED
      BY <2>0, <3>1
  <2>3. CASE WorkerDies
    <3>1. /\ Close({0, 1} \ closed) /\ 1 \in closed' /\ UNCHANGED <<sent, got, todo, hand>>
          /\ pc'[2] = pc[2]
      <4>1. Close({0, 1} \ closed) /\ UNCHANGED <<sent, got, todo, hand>>
            /\ pc' = [pc EXCEPT ![1] = "done"]
        BY <2>3 DEF WorkerDies
      <4>2. closed' = closed \cup ({0, 1} \ closed)
        BY <4>1 DEF Close
      <4>3. pc \in [Bridges -> {"select", "recv", "sendall", "done"}] /\ 2 \in Bridges
        BY <1>2 DEF TypeOK, Bridges
      <4>4. pc'[2] = pc[2]
        BY <4>1, <4>3
      <4> QED
        BY <4>1, <4>2, <4>4
    <3>2. \A i \in 1..2 : Party(d, i) \in {1, 2}
      BY DEF Party
    <3>3. Still(d)
      BY <3>1, <3>2 DEF Still, Carries, Serving
    <3>4. Flowing(d)'
      BY <1>2, <2>0, <3>1, <3>3, CloseFlowsOn DEF Flowing
    <3> QED
      BY <2>0, <3>1, <3>4
  <2>4. CASE SetStop \/ UNCHANGED vars
    <3>1. UNCHANGED <<wire, closed, sent, got, pc, todo, hand>>
      BY <2>4 DEF SetStop, vars, peerVars, bridgeVars
    <3>2. Still(d)
      BY <3>1 DEF Still, Carries, Serving
    <3>3. Flowing(d)'
      BY <1>2, <2>0, <3>1, <3>2, SameFlowsOn DEF Flowing
    <3> QED
      BY <2>0, <3>1, <3>3
  <2> QED
    BY <1>2, <2>1, <2>2, <2>3, <2>4 DEF Next
<1> QED
  BY <1>1, <1>2, BridgeTyped, PTL DEF Spec

\* InOrder: a peer has got a beginning of what the other sent, in order, however
\* large the buffers are and wherever the connection was cut.
THEOREM BridgeInOrder == Spec => []InOrder
<1>1. ASSUME TypeOK, FlowInv
      PROVE  InOrder
  <2> SUFFICES ASSUME NEW d \in Direction
               PROVE  got[d] = [i \in 1..Len(got[d]) |-> i] /\ Len(got[d]) <= sent[d]
    BY DEF InOrder
  <2>1. PICK k \in Counts : Flows(d, k[1], k[2])
    BY <1>1 DEF FlowInv
  <2> DEFINE r == k[1]  s == k[2]
  <2>2. r \in [1..3 -> Nat] /\ s \in [0..2 -> Nat]
    BY DEF Counts
  <2>3. ASSUME NEW i \in 1..3
        PROVE  r[i] <= s[i - 1]
    <3>1. r[i] + Len(wire[Chan(d, i)]) <= s[i - 1]
      BY <2>1 DEF Flows, ChannelHolds
    <3>2. Len(wire[Chan(d, i)]) \in Nat
      BY <1>1, Neighbours DEF TypeOK
    <3>3. r[i] \in Nat /\ s[i - 1] \in Nat
      BY <2>2
    <3> QED
      BY <3>1, <3>2, <3>3
  <2>4. \A i \in 1..2 : s[i] <= r[i]
    BY <2>1 DEF Flows, BridgeHolds
  <2>5. s[0] = sent[d] /\ r[3] = Len(got[d])
    BY <2>1 DEF Flows
  <2> HIDE DEF r, s
  <2>6. r[3] <= s[2] /\ s[2] <= r[2] /\ r[2] <= s[1] /\ s[1] <= r[1] /\ r[1] <= s[0]
    <3>1. r[3] <= s[3 - 1] /\ r[2] <= s[2 - 1] /\ r[1] <= s[1 - 1]
      BY <2>3
    <3> QED
      BY <2>4, <3>1
  <2>7. r[1] \in Nat /\ r[2] \in Nat /\ r[3] \in Nat /\ s[0] \in Nat /\ s[1] \in Nat /\ s[2] \in Nat
    BY <2>2
  <2>8. Len(got[d]) <= sent[d]
    BY <2>5, <2>6, <2>7
  <2> QED
    BY <1>1, <2>8 DEF FlowInv
<1> QED
  BY <1>1, BridgeTyped, BridgeFlows, PTL

=============================================================================
