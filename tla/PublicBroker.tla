---------------------------- MODULE PublicBroker ----------------------------
(***************************************************************************)
(* The public MQTT broker: its listeners, the tokens that clients present, *)
(* the sessions that outlive connections, the namespaces, and the periodic *)
(* task that disconnects clients whose token has expired.                  *)
(*                                                                         *)
(* A topic is a sequence of levels, and a prefix that ends in a slash one  *)
(* that something follows.  The broker underneath is external: it reuses   *)
(* the attributes of a persistent session whenever its client id connects  *)
(* again, whether or not the former connection still stands, and holds its *)
(* messages while it is away.  Messages wait in a queue of the broker, and *)
(* everything may happen between publishing and delivery.                  *)
(***************************************************************************)
EXTENDS Integers, Sequences, FiniteSets, SequencesExt

CONSTANTS
  Users,          \* ids of accounts that may ask for a token
  Forbidden,      \* those that contain a wildcard or a separator
  ClientIds,      \* MQTT client ids
  Topics,         \* topics the worker publishes to
  Filters,        \* topic filters clients subscribe to
  Lifetime,       \* token_lifetime_minutes
  Interval,       \* expiry_check_interval_seconds
  MaxTime,        \* bound on the clock
  MaxConnects,    \* bound on the attempts to connect
  MaxPublished,   \* bound on the messages
  MaxFailures     \* bound on disconnections that raise

ASSUME UsersAssumption ==
  /\ Users \cap {"anonymous", "publisher", "none"} = {}
  /\ Forbidden \subseteq Users /\ Users \cap {"+", "#"} \subseteq Forbidden
ASSUME TopicsAssumption == Topics \cup Filters \subseteq Seq(STRING) \ {<<>>}
ASSUME BrokerAssumption ==
  /\ Lifetime \in Nat \ {0} /\ Interval \in Nat \ {0}
  /\ MaxTime \in Nat /\ MaxConnects \in Nat /\ MaxPublished \in Nat /\ MaxFailures \in Nat

VARIABLES
  session,     \* the session of each client id
  presented,   \* what its connection stands for, whatever became of the attributes
  broadcast,   \* messages published and not yet delivered
  sent,        \* deliveries of the last step
  wake,        \* when the expiry task wakes next
  pending,     \* sessions it has still to look at in this round
  time, connects, published, failures

vars == <<session, presented, broadcast, sent, wake, pending, time, connects, published, failures>>

None == "none"
Never == 0
NoSession ==
  [stored |-> FALSE, clean |-> FALSE, connected |-> FALSE, role |-> None, subject |-> None,
   expiry |-> Never, owner |-> None, filters |-> {}, queue |-> {}]
Nobody == [who |-> None, expiry |-> Never]

Init ==
  /\ session = [id \in ClientIds |-> NoSession]
  /\ presented = [id \in ClientIds |-> Nobody]
  /\ broadcast = {} /\ sent = {}
  /\ wake = Interval /\ pending = {}
  /\ time = 0 /\ connects = 0 /\ published = 0 /\ failures = 0

-----------------------------------------------------------------------------
(* Topics *)

IsValidTopicUserId(u) == u \in Users \ Forbidden

StartsWith(topic, prefix) == Len(topic) > Len(prefix) /\ SubSeq(topic, 1, Len(prefix)) = prefix

PublicTopicPrefix == <<"public">>
PrivateTopicPrefix(u) == <<"users", u>>

IsTopicAllowedForSubject(topic, subject) ==
  \/ StartsWith(topic, PublicTopicPrefix)
  \/ IsValidTopicUserId(subject) /\ StartsWith(topic, PrivateTopicPrefix(subject))

\* The rules of MQTT.
Matches(filter, topic) ==
  LET like(i) == filter[i] \in {"+", topic[i]} IN
  IF Last(filter) = "#"
    THEN Len(filter) <= Len(topic) + 1 /\ \A i \in 1..(Len(filter) - 1) : like(i)
    ELSE Len(filter) = Len(topic) /\ \A i \in DOMAIN filter : like(i)

\* MUTANT: a token is good for the whole second it expires in.
ExpiredLate(s) == s.expiry # Never /\ s.expiry < time

IsExpired(s) == s.expiry # Never /\ s.expiry <= time

\* topic_filtering, for each of its actions.
MayPublish(s) == s.role = "publisher"
MaySubscribe(s, filter) == s.role = "client" /\ IsTopicAllowedForSubject(filter, s.subject)
MayReceive(s, topic) ==
  s.role = "client" /\ ~IsExpired(s) /\ IsTopicAllowedForSubject(topic, s.subject)

-----------------------------------------------------------------------------
(* Connections *)

\* Tokens the API has issued, those that have just expired among them, or none.
Tokens ==
  {[who |-> u, expiry |-> at + Lifetime] :
     u \in Users, at \in {n \in 0..time : n + Lifetime >= time}}
NoPassword == [who |-> "anonymous", expiry |-> Never]
PublisherPassword == [who |-> "publisher", expiry |-> Never]

\* Who a password stands for on a listener; Nobody when it is refused.
Verified(listener, password) ==
  IF listener = "internal"
    THEN IF password = PublisherPassword THEN password ELSE Nobody
  ELSE IF password = NoPassword THEN password
  ELSE IF IsValidTopicUserId(password.who) /\ password.expiry > time THEN password
  ELSE Nobody

Presentable ==
  {Verified(listener, password) :
     listener \in {"default", "internal"},
     password \in Tokens \cup {NoPassword, PublisherPassword}}

\* MUTANT: a persistent session is anybody's.
ClaimAny(s, owner) == TRUE

ClaimSession(s, owner) == s.owner \in {None, owner}

ResetIdentity(s) == [s EXCEPT !.role = None, !.subject = None, !.expiry = Never]

Authenticated(s, v) ==
  [stored |-> TRUE, clean |-> s.clean, connected |-> TRUE,
   role |-> IF v.who = "publisher" THEN "publisher" ELSE "client",
   subject |-> IF v.who \in Users THEN v.who ELSE None,
   expiry |-> v.expiry,
   owner |-> IF s.owner = None THEN v.who ELSE s.owner,
   filters |-> s.filters, queue |-> {}]

\* What a refusal leaves of the session, and of a connection that still stood,
\* is up to the broker.
Refused(id, s) ==
  IF s.stored THEN {s, [s EXCEPT !.connected = FALSE]} ELSE {session[id], NoSession}

\* A connection of a client id, to be refused or to take the place of the one
\* before; messages held for the session are sent to it.
Connect(id) ==
  /\ connects < MaxConnects /\ connects' = connects + 1
  /\ \E v \in Presentable, clean \in BOOLEAN :
       LET s == ResetIdentity(IF clean \/ ~session[id].stored
                                THEN [NoSession EXCEPT !.clean = clean] ELSE session[id])
       IN \/ /\ v # Nobody /\ ClaimSession(s, v.who)
             /\ session' = [session EXCEPT ![id] = Authenticated(s, v)]
             /\ presented' = [presented EXCEPT ![id] = v]
             /\ sent' = {<<id, topic>> : topic \in s.queue}
          \/ /\ v = Nobody \/ ~ClaimSession(s, v.who)
             /\ \E left \in Refused(id, s) :
                  /\ session' = [session EXCEPT ![id] = left]
                  /\ presented' = [presented EXCEPT ![id] = IF left.connected THEN @ ELSE Nobody]
             /\ sent' = {}
  /\ UNCHANGED <<broadcast, wake, pending, time, published, failures>>

Dropped(id) ==
  /\ session' = [session EXCEPT ![id] =
       IF session[id].clean THEN NoSession ELSE [session[id] EXCEPT !.connected = FALSE]]
  /\ presented' = [presented EXCEPT ![id] = Nobody]

Disconnect(id) ==
  /\ session[id].connected /\ Dropped(id)
  /\ sent' = {}
  /\ UNCHANGED <<broadcast, wake, pending, time, connects, published, failures>>

Subscribe(id) ==
  /\ session[id].connected
  /\ \E filter \in Filters \ session[id].filters :
       /\ MaySubscribe(session[id], filter)
       /\ session' = [session EXCEPT ![id].filters = @ \cup {filter}]
  /\ sent' = {}
  /\ UNCHANGED <<presented, broadcast, wake, pending, time, connects, published, failures>>

Unsubscribe(id) ==
  /\ session[id].connected
  /\ \E filter \in session[id].filters :
       session' = [session EXCEPT ![id].filters = @ \ {filter}]
  /\ sent' = {}
  /\ UNCHANGED <<presented, broadcast, wake, pending, time, connects, published, failures>>

-----------------------------------------------------------------------------
(* Messages *)

Publish(id) ==
  /\ session[id].connected /\ MayPublish(session[id]) /\ published < MaxPublished
  /\ \E topic \in Topics : broadcast' = broadcast \cup {topic}
  /\ published' = published + 1
  /\ sent' = {}
  /\ UNCHANGED <<session, presented, wake, pending, time, connects, failures>>

Subscribed(s, topic) == \E filter \in s.filters : Matches(filter, topic)

\* A message goes to the sessions that are connected and may receive it, and
\* is held for those that are away.
Deliver ==
  /\ \E topic \in broadcast :
       /\ broadcast' = broadcast \ {topic}
       /\ sent' = {<<id, topic>> : id \in {c \in ClientIds :
                    /\ session[c].connected /\ Subscribed(session[c], topic)
                    /\ MayReceive(session[c], topic)}}
       /\ session' = [id \in ClientIds |->
            IF ~session[id].connected /\ Subscribed(session[id], topic)
              THEN [session[id] EXCEPT !.queue = @ \cup {topic}] ELSE session[id]]
  /\ UNCHANGED <<presented, wake, pending, time, connects, published, failures>>

-----------------------------------------------------------------------------
(* The expiry task *)

Wake ==
  /\ time = wake /\ pending = {}
  /\ wake' = time + Interval
  /\ pending' = {id \in ClientIds : session[id].stored}
  /\ sent' = {}
  /\ UNCHANGED <<session, presented, broadcast, time, connects, published, failures>>

\* One session of the round, with an await that others may use and that may
\* raise; a session that raises is left to the next round.
CheckExpired(id) ==
  /\ id \in pending
  /\ pending' = pending \ {id}
  /\ sent' = {}
  /\ \/ /\ ~(session[id].connected /\ IsExpired(session[id]))
        /\ UNCHANGED <<session, presented, failures>>
     \/ /\ session[id].connected /\ IsExpired(session[id])
        /\ Dropped(id)
        /\ UNCHANGED failures
     \/ /\ session[id].connected /\ IsExpired(session[id])
        /\ failures < MaxFailures /\ failures' = failures + 1
        /\ UNCHANGED <<session, presented>>
  /\ UNCHANGED <<broadcast, wake, time, connects, published>>

\* A round is short beside the unit of time, and the task wakes when it should.
Tick ==
  /\ time < MaxTime /\ time < wake /\ pending = {}
  /\ time' = time + 1
  /\ sent' = {}
  /\ UNCHANGED <<session, presented, broadcast, wake, pending, connects, published, failures>>

-----------------------------------------------------------------------------
Next ==
  \/ \E id \in ClientIds :
       Connect(id) \/ Disconnect(id) \/ Subscribe(id) \/ Unsubscribe(id)
       \/ Publish(id) \/ CheckExpired(id)
  \/ Deliver \/ Wake \/ Tick

Spec == Init /\ [][Next]_vars

-----------------------------------------------------------------------------
(* Properties *)

Roles == {None, "client", "publisher"}
Identities == Users \cup {None, "anonymous", "publisher"}
Sessions ==
  [stored : BOOLEAN, clean : BOOLEAN, connected : BOOLEAN, role : Roles,
   subject : Users \cup {None}, expiry : 0..(MaxTime + Lifetime), owner : Identities,
   filters : SUBSET Filters, queue : SUBSET Topics]
Presentations == [who : Identities, expiry : 0..(MaxTime + Lifetime)]

TypeOK ==
  /\ session \in [ClientIds -> Sessions] /\ presented \in [ClientIds -> Presentations]
  /\ broadcast \subseteq Topics /\ sent \subseteq ClientIds \X Topics
  /\ pending \subseteq ClientIds /\ time \in 0..MaxTime /\ wake \in 0..(MaxTime + Interval)
  /\ connects \in 0..MaxConnects /\ published \in 0..MaxPublished /\ failures \in 0..MaxFailures

\* A message reaches only a connection that presented what entitles to it, a
\* token not expired by then (pubsub/plugins.py): whatever was subscribed to
\* earlier, was held for the session while it was away, or happened to the
\* attributes of the session since, among them attempts of others to use it.
DeliversOnlyToEntitled ==
  \A delivery \in sent :
    LET p == presented[delivery[1]]
        topic == delivery[2] IN
    /\ p.who \in Users \cup {"anonymous"}
    /\ p.expiry # Never => time < p.expiry
    /\ topic[1] = "public" \/ topic[2] = p.who

\* A client is disconnected in the round after its token expires, or, when the
\* disconnection raised, in a later one (_disconnect_expired_sessions).
ExpiredAreDisconnected ==
  \A id \in ClientIds :
    session[id].connected /\ session[id].expiry # Never =>
      time < session[id].expiry + Interval * (1 + failures)
=============================================================================
