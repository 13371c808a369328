---------------------------- MODULE QueueService ----------------------------
(***************************************************************************)
(* What a queue promises, without lobby lists, timers and coroutines.       *)
(* Players wait in groups.  A full group is asked; its game is launched     *)
(* exactly when the last of those who were asked has accepted; whoever      *)
(* accepted goes back into the queue when the invitation ends otherwise.    *)
(* What has run out of time is dissolved, and that may come late: when the  *)
(* group has been left, or asked anew, in between.                          *)
(***************************************************************************)
EXTENDS Naturals, FiniteSets

CONSTANTS Player, Group, Session,
          Size,             \* the players of a game
          Launch, Timeout   \* identities

VARIABLES users,      \* per group
          asking,     \* the groups that are asked
          accepted,   \* per group, those who have accepted
          launches,   \* the games being started, each with its group
          timeouts,   \* those that are over and not yet handled, with their group
          returning,  \* players on the way back into the queue
          here,       \* the sessions that have a player
          over        \* the process has ended

serviceVars == <<users, asking, accepted, launches, timeouts, returning, here, over>>

InUse(S) == {x[1] : x \in S}
Grouped == UNION {users[g] : g \in Group}

Init ==
  /\ users = [g \in Group |-> {}]
  /\ asking = {}
  /\ accepted = [g \in Group |-> {}]
  /\ launches = {}
  /\ timeouts = {}
  /\ returning = {}
  /\ here = {}
  /\ over = FALSE

\* p enters a group that is not asked; the group that is full then is asked.
Enter(p, g) ==
  /\ Cardinality(users[g]) < Size
  /\ users' = [users EXCEPT ![g] = @ \cup {p}]
  /\ asking' = IF Cardinality(users[g]) + 1 = Size THEN asking \cup {g} ELSE asking
  /\ UNCHANGED <<accepted, launches, timeouts, here, over>>

Join(p, g) ==
  /\ Enter(p, g)
  /\ UNCHANGED returning

\* Back into the queue: into any group, unless the player has gone meanwhile or
\* is in another game's group.
PutBack(p) ==
  /\ returning' = returning \ {p}
  /\ \/ p \notin Grouped /\ \E g \in Group \ asking : Enter(p, g)
     \/ UNCHANGED <<users, asking, accepted, launches, timeouts, here, over>>

Accept(p, g) ==
  /\ accepted' = [accepted EXCEPT ![g] = @ \cup {p}]
  /\ IF accepted[g] \cup {p} = users[g]
     THEN \E l \in Launch \ InUse(launches) : launches' = launches \cup {<<l, g>>}
     ELSE UNCHANGED launches
  /\ UNCHANGED <<users, asking, timeouts, returning, here, over>>

\* The group is no longer asked; rest are the players it keeps.
Ends(g, rest) ==
  /\ users' = [users EXCEPT ![g] = rest]
  /\ asking' = asking \ {g}
  /\ accepted' = [accepted EXCEPT ![g] = {}]

Goes == \E s \in here : here' = here \ {s}

\* A player leaves the queue or the server; the others go on waiting.  Only one
\* who gives up the session as well may take the group along.
Leave(p, g) ==
  /\ \/ Ends(g, users[g] \ {p}) /\ (Goes \/ UNCHANGED here)
     \/ Ends(g, {}) /\ Goes
  /\ UNCHANGED <<launches, timeouts, returning, over>>

\* A player of no group comes or goes.
ComeOrGo ==
  /\ Goes \/ \E s \in Session : here' = here \cup {s}
  /\ UNCHANGED <<users, asking, accepted, launches, timeouts, returning, over>>

Decline(p, g) ==
  /\ Ends(g, {})
  /\ returning' = users[g] \ {p}
  /\ UNCHANGED <<launches, timeouts, here, over>>

\* The time to accept is over, and nothing takes that back.  A group that has been
\* dissolved may leave a clock running.
TimeIsUp(g) ==
  /\ g \in asking \/ users[g] = {}
  /\ \E t \in Timeout \ InUse(timeouts) : timeouts' = timeouts \cup {<<t, g>>}
  /\ UNCHANGED <<users, asking, accepted, launches, returning, here, over>>

Expire(t, g) ==
  /\ timeouts' = timeouts \ {<<t, g>>}
  /\ Ends(g, {})
  /\ returning' = accepted[g]
  /\ UNCHANGED <<launches, here, over>>

\* The game server has taken the players, has refused, or cannot be reached;
\* without an answer the group stays.
Launched(l, g) ==
  /\ launches' = launches \ {<<l, g>>}
  /\ Ends(g, {}) \/ UNCHANGED <<users, asking, accepted>>
  /\ UNCHANGED <<timeouts, returning, here, over>>

Lost ==
  /\ over' = TRUE
  /\ users' = [g \in Group |-> {}]
  /\ asking' = {}
  /\ accepted' = [g \in Group |-> {}]
  /\ launches' = {}
  /\ timeouts' = {}
  /\ returning' = {}
  /\ here' = {}

\* Nothing happens before everybody who returns is back.
Next ==
  \/ /\ returning = {}
     /\ \/ \E p \in Player \ Grouped, g \in Group \ asking : Join(p, g)
        \/ \E g \in Group : \E p \in users[g] : Leave(p, g)
        \/ \E g \in asking :
             \/ \E p \in users[g] \ accepted[g] : Accept(p, g)
             \/ \E p \in users[g] : Decline(p, g)
        \/ \E g \in Group : TimeIsUp(g)
        \/ \E x \in timeouts : Expire(x[1], x[2])
        \/ \E x \in launches : Launched(x[1], x[2])
        \/ ComeOrGo
  \/ \E p \in returning : PutBack(p)
  \/ Lost

Spec == Init /\ [][~over /\ Next]_serviceVars
=============================================================================
