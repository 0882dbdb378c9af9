------------------------------ MODULE RelaySet ------------------------------
(***************************************************************************)
(* RemoteRelaySet: one listener and one accepting thread per endpoint, one *)
(* bridging thread per connection, and close, which the thread that runs   *)
(* the arena calls while all of them are at work.  It sets a flag, closes  *)
(* the listeners, and waits a second for each thread, whether or not the   *)
(* thread has ended by then.                                               *)
(*                                                                         *)
(* A connection is <<e, i>>, the i-th that a client opens to endpoint e.   *)
(* What is carried over it is abstracted to whether anything was.          *)
(***************************************************************************)
EXTENDS Naturals, FiniteSets

CONSTANTS
  Endpoints,   \* the endpoints of the relay, a list of the settings; none for a local arena
  Conns        \* bound: the connections clients may open, each <<endpoint, number>>

ASSUME RelayAssumption ==
  /\ IsFiniteSet(Endpoints)
  /\ Conns \subseteq Endpoints \X Nat

VARIABLES
  relay,        \* where the owner is between start and the end of close
  listening,    \* the endpoints whose listener is open
  accepting,    \* the endpoints whose accepting thread is alive
  conn,         \* the state of every connection
  carried,      \* the connections over which data was forwarded
  late          \* those whose target was reached after _stop was set

relayVars == <<relay, listening, accepting, conn, carried, late>>

RelayInit ==
  /\ relay = "new"
  /\ listening = {}
  /\ accepting = {}
  /\ conn = [c \in Conns |-> "none"]
  /\ carried = {}
  /\ late = {}

\* The flag is reset when close returns, for the set to be used again.
StopIsCleared == relay \in {"stopping", "joining"}

\* _stop.is_set()
StopIsSet == relay \in {"stopping", "joining", "closed"}

----------------------------------------------------------------------------
(* The owner.                                                              *)

BindEndpoint(e) ==
  /\ relay = "new"
  /\ e \notin listening
  /\ listening' = listening \cup {e}
  /\ accepting' = accepting \cup {e}
  /\ relay' = IF listening' = Endpoints THEN "open" ELSE "new"
  /\ UNCHANGED <<conn, carried, late>>

\* start raises: the endpoints bound so far are still served.
BindFails ==
  /\ relay = "new"
  /\ relay' = "broken"
  /\ UNCHANGED <<listening, accepting, conn, carried, late>>

SetStop ==
  /\ relay \in {"open", "broken"}
  /\ relay' = "stopping"
  /\ UNCHANGED <<listening, accepting, conn, carried, late>>

\* A client that waits to be accepted is reset with its listener.
CloseListeners ==
  /\ relay = "stopping"
  /\ relay' = "joining"
  /\ listening' = {}
  /\ conn' = [c \in Conns |-> IF conn[c] = "queued" THEN "ended" ELSE conn[c]]
  /\ UNCHANGED <<accepting, carried, late>>

\* Every join has returned, for the end of its thread or its timeout.
ThreadsJoined ==
  /\ relay = "joining"
  /\ relay' = "closed"
  /\ UNCHANGED <<listening, accepting, conn, carried, late>>

----------------------------------------------------------------------------
(* An accepting thread: _accept.  It connects to the target itself, and    *)
(* accepts nobody else meanwhile.                                          *)

ConnsOf(e) == {c \in Conns : c[1] = e}

Dialing(e) == \E c \in ConnsOf(e) : conn[c] = "dialing"

\* The flag is tested before accept, which then waits for a quarter second.
Accept(c) ==
  /\ c[1] \in accepting \cap listening
  /\ ~Dialing(c[1])
  /\ conn[c] = "queued"
  /\ conn' = [conn EXCEPT ![c] = "dialing"]
  /\ UNCHANGED <<relay, listening, accepting, carried, late>>

DialSucceeds(c) ==
  /\ conn[c] = "dialing"
  /\ conn' = [conn EXCEPT ![c] = "open"]
  /\ late' = IF StopIsSet THEN late \cup {c} ELSE late
  /\ UNCHANGED <<relay, listening, accepting, carried>>

DialFails(c) ==
  /\ conn[c] = "dialing"
  /\ conn' = [conn EXCEPT ![c] = "ended"]
  /\ UNCHANGED <<relay, listening, accepting, carried, late>>

\* It finds the flag set, or its listener closed.
AcceptorEnds(e) ==
  /\ e \in accepting
  /\ ~Dialing(e)
  /\ StopIsSet
  /\ accepting' = accepting \ {e}
  /\ UNCHANGED <<relay, listening, conn, carried, late>>

AcceptorStep(e) ==
  \/ AcceptorEnds(e)
  \/ \E c \in ConnsOf(e) : Accept(c) \/ DialSucceeds(c) \/ DialFails(c)

----------------------------------------------------------------------------
(* A bridging thread: _bridge.  Either side may be readable at any time.   *)

\* The flag is not tested before the data is read.
BeginRoundUnchecked(c) ==
  /\ conn[c] = "open"
  /\ conn' = [conn EXCEPT ![c] = "moving"]
  /\ UNCHANGED <<relay, listening, accepting, carried, late>>

BeginRound(c) ==
  /\ conn[c] = "open"
  /\ ~StopIsSet
  /\ conn' = [conn EXCEPT ![c] = "moving"]
  /\ UNCHANGED <<relay, listening, accepting, carried, late>>

Forward(c) ==
  /\ conn[c] = "moving"
  /\ conn' = [conn EXCEPT ![c] = "open"]
  /\ carried' = carried \cup {c}
  /\ UNCHANGED <<relay, listening, accepting, late>>

\* The end of either direction, or a broken socket, ends both.
EndOfStream(c) ==
  /\ conn[c] = "moving"
  /\ conn' = [conn EXCEPT ![c] = "ended"]
  /\ UNCHANGED <<relay, listening, accepting, carried, late>>

BridgeStops(c) ==
  /\ conn[c] = "open"
  /\ StopIsSet
  /\ conn' = [conn EXCEPT ![c] = "ended"]
  /\ UNCHANGED <<relay, listening, accepting, carried, late>>

BridgeStep(c) == BeginRound(c) \/ Forward(c) \/ EndOfStream(c) \/ BridgeStops(c)

\* External: a process in the arena connects to the socket of an endpoint.
Connect(c) ==
  /\ c[1] \in listening
  /\ conn[c] = "none"
  /\ \A d \in ConnsOf(c[1]) : d[2] < c[2] => conn[d] # "none"
  /\ conn' = [conn EXCEPT ![c] = "queued"]
  /\ UNCHANGED <<relay, listening, accepting, carried, late>>

RelayThreads ==
  (\E e \in Endpoints : AcceptorStep(e)) \/ (\E c \in Conns : BridgeStep(c))

----------------------------------------------------------------------------

RelayTypeOK ==
  /\ relay \in {"new", "open", "broken", "stopping", "joining", "closed"}
  /\ listening \subseteq Endpoints
  /\ accepting \subseteq Endpoints
  /\ conn \in [Conns -> {"none", "queued", "dialing", "open", "moving", "ended"}]
  /\ carried \subseteq Conns
  /\ late \subseteq Conns

Quiet ==
  /\ accepting = {}
  /\ \A c \in Conns : conn[c] \in {"none", "ended"}

\* An accepting thread that was connecting when close was called still reaches
\* the target afterwards, but nothing is ever forwarded over such a connection:
\* the bridge tests the flag between select and the first recv.
LateConnectionIsMute == late \cap carried = {}
=============================================================================
