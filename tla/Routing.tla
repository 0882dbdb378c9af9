------------------------------ MODULE Routing ------------------------------
(***************************************************************************)
(* RoutingProvider: one counter for the whole roster picks the provider of *)
(* each request from the pool of its role.                                 *)
(*                                                                         *)
(* A role that some route names has those routes as its pool, in roster    *)
(* order; any other role has the whole roster.                             *)
(***************************************************************************)
EXTENDS Selection, FiniteSets

CONSTANTS
  Providers,   \* the names of the routes
  Roster,      \* their order
  Role,        \* the roles of requests
  RolesOf,     \* the roles each route was given, perhaps none
  MaxAsked     \* bound: the requests of a behaviour

ASSUME RosterAssumption ==
  /\ Roster \in Seq(Providers) \ {<<>>}
  /\ \A i, j \in DOMAIN Roster : Roster[i] = Roster[j] => i = j
  /\ RolesOf \in [Providers -> SUBSET Role]
  /\ MaxAsked \in Nat

VARIABLES
  counter,   \* requests so far, for all the roles together
  asked      \* history: the role and the provider of each request

routingVars == <<counter, asked>>

RoutingInit ==
  /\ counter = 0
  /\ asked = <<>>

RoutesOf(role) == {i \in DOMAIN Roster : role \in RolesOf[Roster[i]]}

Pool ==
  [role \in Role |->
     IF RoutesOf(role) = {} THEN Roster ELSE Selection(Roster, RoutesOf(role))]

Chosen(role) == Pool[role][(counter % Len(Pool[role])) + 1]

Select(role) ==
  /\ Len(asked) < MaxAsked
  /\ counter' = counter + 1
  /\ asked' = Append(asked, [role |-> role, route |-> Chosen(role)])

----------------------------------------------------------------------------

RoutingTypeOK ==
  /\ counter \in Nat
  /\ asked \in Seq([role : Role, route : Providers])

\* How often requests, given by their numbers, went to one provider.
Share(name, requests) == Cardinality({i \in requests : asked[i].route = name})

Even(pool, requests) ==
  \A a, b \in {pool[i] : i \in DOMAIN pool} : Share(a, requests) <= Share(b, requests) + 1

\* If several providers have a role, its requests rotate over them.  They do not:
\* the requests of all the roles move the one counter that picks among them.
RoleRotates ==
  \A role \in Role : Even(Pool[role], {i \in DOMAIN asked : asked[i].role = role})

\* What the one counter does give: requests that follow each other and share a
\* pool, as those of the arena's only role do, are spread over it evenly.
InARowIsFair ==
  \A first, last \in DOMAIN asked :
    (\A i \in first..last : Pool[asked[i].role] = Pool[asked[first].role]) =>
      Even(Pool[asked[first].role], first..last)
=============================================================================
