------------------------------- MODULE Bridge -------------------------------
(***************************************************************************)
(* One connection through both relays.  A process in the arena (party 0)   *)
(* talks to a forwarder (1), which talks to the host's relay (2), which    *)
(* talks to the target (3).  Each relay copies what it receives on one     *)
(* socket to the other, in one thread for both directions, and closes both *)
(* sockets at the end of either direction.                                 *)
(*                                                                         *)
(* Link l joins party l - 1 and party l.  A channel is one direction of a  *)
(* link: what has been sent and not yet received.  An element of data is   *)
(* what one recv returns.                                                  *)
(***************************************************************************)
EXTENDS Naturals, Sequences

CONSTANTS
  Capacity,   \* the elements a socket buffers before send blocks
  MaxSent     \* bound: the elements each of the two peers sends

ASSUME BridgeAssumption ==
  /\ Capacity \in Nat \ {0}
  /\ MaxSent \in Nat

Direction == {"out", "back"}
Channel == (1..3) \X Direction
Peers == {0, 3}
Bridges == {1, 2}
Nothing == 0

VARIABLES
  wire,     \* the contents of every channel
  closed,   \* the parties that have closed their sockets
  ended,    \* the peers that send nothing more
  notified, \* the peers that have received the end of the stream
  sent,     \* how many elements were sent in each direction
  got,      \* the elements received in each direction
  pc,       \* what each bridge is doing
  todo,     \* the directions its last select found readable, not yet served
  hand,     \* the element between recv and sendall
  stop      \* relay._stop of the host's relay

peerVars == <<ended, notified, sent, got>>
bridgeVars == <<pc, todo, hand>>
vars == <<wire, closed, peerVars, bridgeVars, stop>>

Init ==
  /\ wire = [c \in Channel |-> <<>>]
  /\ closed = {}
  /\ ended = {}
  /\ notified = {}
  /\ sent = [d \in Direction |-> 0]
  /\ got = [d \in Direction |-> <<>>]
  /\ pc = [b \in Bridges |-> "select"]
  /\ todo = [b \in Bridges |-> {}]
  /\ hand = [b \in Bridges |-> Nothing]
  /\ stop = FALSE

----------------------------------------------------------------------------
(* Sockets.                                                                *)

Opposite(d) == IF d = "out" THEN "back" ELSE "out"
Reverse(c) == <<c[1], Opposite(c[2])>>
Sender(c) == IF c[2] = "out" THEN c[1] - 1 ELSE c[1]
Receiver(c) == Sender(Reverse(c))

SourceOf(b, d) == IF d = "out" THEN <<b, d>> ELSE <<b + 1, d>>

BackToSource(b, d) == Reverse(SourceOf(b, d))       \* mutant: data is echoed

SinkOf(b, d) == IF d = "out" THEN <<b + 1, d>> ELSE <<b, d>>

HasRoom(c) == Len(wire[c]) < Capacity

\* The stream of a channel ends when its sender shuts it down or is closed.
Ended(c) == Sender(c) \in closed \cup ended

\* What is sent to a socket whose other end is closed is lost, and the reset it
\* is answered with may overtake what was on its way back.
Put(c, element) ==
  IF Receiver(c) \in closed
  THEN \E n \in 0..Len(wire[Reverse(c)]) :
         wire' = [wire EXCEPT ![Reverse(c)] = SubSeq(@, 1, n)]
  ELSE wire' = [wire EXCEPT ![c] = Append(@, element)]

\* A socket that is closed with data unread resets its connection: any part of
\* what was on its way to the other end may be lost.
Kept(c) == IF wire[Reverse(c)] = <<>> THEN {Len(wire[c])} ELSE 0..Len(wire[c])

Close(parties) ==
  /\ parties \cap closed = {}
  /\ closed' = closed \cup parties
  /\ \E kept \in [{c \in Channel : Sender(c) \in parties} -> 0..Capacity] :
       /\ \A c \in DOMAIN kept : kept[c] \in Kept(c)
       /\ wire' = [c \in Channel |->
            IF Receiver(c) \in closed' THEN <<>>
            ELSE IF Sender(c) \in parties THEN SubSeq(wire[c], 1, kept[c])
            ELSE wire[c]]

----------------------------------------------------------------------------
(* The peers: any program in the arena, and the target.                    *)

Speech(p) == IF p = 0 THEN <<1, "out">> ELSE <<3, "back">>
Hearing(p) == Reverse(Speech(p))

Send(p) ==
  /\ p \notin closed \cup ended
  /\ sent[Speech(p)[2]] < MaxSent
  /\ HasRoom(Speech(p))
  /\ sent' = [sent EXCEPT ![Speech(p)[2]] = @ + 1]
  /\ Put(Speech(p), sent'[Speech(p)[2]])
  /\ UNCHANGED <<closed, ended, notified, got, bridgeVars, stop>>

\* shutdown(SHUT_WR): it still receives.
EndsSpeech(p) ==
  /\ p \notin closed \cup ended
  /\ ended' = ended \cup {p}
  /\ UNCHANGED <<wire, closed, notified, sent, got, bridgeVars, stop>>

\* It has done its work, or is killed with the command it belongs to.
Leaves(p) ==
  /\ Close({p})
  /\ ended' = ended \cup {p}
  /\ UNCHANGED <<notified, sent, got, bridgeVars, stop>>

Hears(p) ==
  /\ p \notin closed
  /\ wire[Hearing(p)] # <<>>
  /\ wire' = [wire EXCEPT ![Hearing(p)] = Tail(@)]
  /\ got' = [got EXCEPT ![Hearing(p)[2]] = Append(@, Head(wire[Hearing(p)]))]
  /\ UNCHANGED <<closed, ended, notified, sent, bridgeVars, stop>>

HearsEnd(p) ==
  /\ p \notin closed \cup notified
  /\ wire[Hearing(p)] = <<>>
  /\ Ended(Hearing(p))
  /\ notified' = notified \cup {p}
  /\ UNCHANGED <<wire, closed, ended, sent, got, bridgeVars, stop>>

----------------------------------------------------------------------------
(* A bridge.                                                               *)

NeverStopped(b) == FALSE                            \* mutant: the flag is not tested

\* Only the host's relay has a flag to stop its bridges.
Stopped(b) == b = 2 /\ stop

Readable(b) ==
  {d \in Direction : wire[SourceOf(b, d)] # <<>> \/ Ended(SourceOf(b, d))}

\* select lists the left socket first.  It also reports sockets as exceptional,
\* and then the bridge returns at once, whatever is readable: that is urgent
\* data of a peer, and the peers here send none.
Serving(b) == IF "out" \in todo[b] THEN "out" ELSE "back"

Select(b) ==
  /\ pc[b] = "select"
  /\ ~Stopped(b)
  /\ Readable(b) # {}
  /\ pc' = [pc EXCEPT ![b] = "recv"]
  /\ todo' = [todo EXCEPT ![b] = Readable(b)]
  /\ UNCHANGED <<wire, closed, peerVars, hand, stop>>

Finish(b) ==
  /\ Close({b})
  /\ pc' = [pc EXCEPT ![b] = "done"]
  /\ UNCHANGED <<peerVars, todo, hand, stop>>

FindsStop(b) ==
  /\ pc[b] = "select"
  /\ Stopped(b)
  /\ Finish(b)

ReceiveEager(b) ==                                  \* mutant: the end overtakes data
  /\ pc[b] = "recv"
  /\ LET source == SourceOf(b, Serving(b)) IN
       IF Ended(source)
       THEN Finish(b)
       ELSE /\ hand' = [hand EXCEPT ![b] = Head(wire[source])]
            /\ wire' = [wire EXCEPT ![source] = Tail(@)]
            /\ pc' = [pc EXCEPT ![b] = "sendall"]
            /\ UNCHANGED <<closed, peerVars, todo, stop>>

ReceiveLeavesOpen(b) ==                             \* mutant: sockets not closed
  /\ pc[b] = "recv"
  /\ LET source == SourceOf(b, Serving(b)) IN
       IF wire[source] = <<>>
       THEN /\ pc' = [pc EXCEPT ![b] = "done"]
            /\ UNCHANGED <<wire, closed, peerVars, todo, hand, stop>>
       ELSE /\ hand' = [hand EXCEPT ![b] = Head(wire[source])]
            /\ wire' = [wire EXCEPT ![source] = Tail(@)]
            /\ pc' = [pc EXCEPT ![b] = "sendall"]
            /\ UNCHANGED <<closed, peerVars, todo, stop>>

\* What select found readable stays so: data, or the end.
Receive(b) ==
  /\ pc[b] = "recv"
  /\ LET source == SourceOf(b, Serving(b)) IN
       IF wire[source] = <<>>
       THEN Finish(b)
       ELSE /\ hand' = [hand EXCEPT ![b] = Head(wire[source])]
            /\ wire' = [wire EXCEPT ![source] = Tail(@)]
            /\ pc' = [pc EXCEPT ![b] = "sendall"]
            /\ UNCHANGED <<closed, peerVars, todo, stop>>

\* sendall returns when the whole element is in the buffer.
SendAll(b) ==
  /\ pc[b] = "sendall"
  /\ LET sink == SinkOf(b, Serving(b)) IN
       /\ HasRoom(sink) \/ Receiver(sink) \in closed
       /\ Put(sink, hand[b])
  /\ todo' = [todo EXCEPT ![b] = @ \ {Serving(b)}]
  /\ pc' = [pc EXCEPT ![b] = IF todo'[b] = {} THEN "select" ELSE "recv"]
  /\ hand' = [hand EXCEPT ![b] = Nothing]
  /\ UNCHANGED <<closed, peerVars, stop>>

\* The connection was reset, or, toward the target only, its timeout passed.
SendFails(b) ==
  /\ pc[b] = "sendall"
  /\ LET sink == SinkOf(b, Serving(b)) IN
       Receiver(sink) \in closed \/ (Receiver(sink) = 3 /\ ~HasRoom(sink))
  /\ Finish(b)

\* RemoteRelaySet.close, from the thread that runs the arena.
SetStop ==
  /\ ~stop
  /\ stop' = TRUE
  /\ UNCHANGED <<wire, closed, peerVars, bridgeVars>>

\* The forwarder lives in the worker, and every process of the arena dies with it.
WorkerDies ==
  /\ pc[1] # "done"
  /\ Close({0, 1} \ closed)
  /\ ended' = ended \cup {0}
  /\ pc' = [pc EXCEPT ![1] = "done"]
  /\ UNCHANGED <<notified, sent, got, todo, hand, stop>>

BridgeStep(b) == Select(b) \/ FindsStop(b) \/ Receive(b) \/ SendAll(b) \/ SendFails(b)

PeerStep(p) == Send(p) \/ EndsSpeech(p) \/ Leaves(p) \/ Hears(p) \/ HearsEnd(p)

Next ==
  \/ \E p \in Peers : PeerStep(p)
  \/ \E b \in Bridges : BridgeStep(b)
  \/ WorkerDies
  \/ SetStop

\* Threads run; a peer reads what it is sent, or is gone with its process.
Fairness ==
  /\ \A b \in Bridges : WF_vars(BridgeStep(b))
  /\ \A p \in Peers : WF_vars(Hears(p) \/ HearsEnd(p))

Spec == Init /\ [][Next]_vars /\ Fairness

----------------------------------------------------------------------------
(* What a connection through the relays is worth.                          *)

\* Type invariant; no buffer overflows, a bridge holds an element only between
\* recv and sendall, and its thread does not end before its sockets are closed.
TypeOK ==
  /\ wire \in [Channel -> Seq(1..MaxSent)]
  /\ \A c \in Channel : Len(wire[c]) <= Capacity
  /\ closed \subseteq 0..3
  /\ ended \subseteq Peers /\ notified \subseteq Peers
  /\ sent \in [Direction -> 0..MaxSent]
  /\ got \in [Direction -> Seq(1..MaxSent)]
  /\ pc \in [Bridges -> {"select", "recv", "sendall", "done"}]
  /\ \A b \in Bridges :
       /\ pc[b] \in {"recv", "sendall"} => todo[b] # {}
       /\ pc[b] = "sendall" => hand[b] \in 1..MaxSent
       /\ pc[b] = "done" <=> b \in closed
  /\ todo \in [Bridges -> SUBSET Direction]
  /\ hand \in [Bridges -> 0..MaxSent]
  /\ stop \in BOOLEAN

\* Two relays in a row hand on what they receive: what a peer has got is a
\* prefix of what the other sent, without a gap, whatever was cut short.
InOrder == \A d \in Direction : got[d] = [i \in 1..Len(got[d]) |-> i] /\ Len(got[d]) <= sent[d]

\* The end of the answer ends both directions, at two relays one after the
\* other, while parts of it are still in their sockets; a client that said all
\* it had to say, and was heard, gets the whole answer, unless it ended its own
\* direction before or the arena was being closed.  (Of a connection without
\* urgent data, which would end both bridges at once.)
AnswerIsWhole ==
  0 \in notified /\ 0 \notin ended /\ ~stop /\ Len(got["out"]) = sent["out"] =>
    Len(got["back"]) = sent["back"]

\* Each bridge waits for the other to receive.
EachBlocksTheOther ==
  /\ \A b \in Bridges : pc[b] = "sendall"
  /\ SinkOf(1, Serving(1)) = <<2, "out">>
  /\ SinkOf(2, Serving(2)) = <<2, "back">>

\* When a peer has ended or the relay is closed, both bridging threads end,
\* but for one case: each is in a sendall that only the other can release.  The
\* end of the worker, which run_arena brings about first, releases the host's.
BridgesEnd ==
  /\ (ended # {} \/ stop) ~> ((\A b \in Bridges : pc[b] = "done") \/ EachBlocksTheOther)
  /\ (pc[1] = "done") ~> (pc[2] = "done")
=============================================================================
