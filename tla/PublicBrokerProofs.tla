------------------------- MODULE PublicBrokerProofs -------------------------
(***************************************************************************)
(* Theorems about PublicBroker, for every set of users, client ids, topics *)
(* and filters and for every bound.                                        *)
(***************************************************************************)
EXTENDS PublicBroker, SequenceTheorems, TLAPS

-----------------------------------------------------------------------------
(***************************************************************************)
(* Topics and filters.                                                     *)
(***************************************************************************)

Valid == Users \ Forbidden

\* The accounts a client may have connected as.
Clients == Valid \cup {"anonymous"}

\* The subject attribute of a connection that stands for `who`.
SubjectOf(who) == IF who \in Users THEN who ELSE None

EntitledTo(who, topic) == topic[1] = "public" \/ topic[2] = who

\* What an allowed topic or filter begins with: its namespace, and something
\* after it.
LEMMA AllowedBegins ==
  ASSUME NEW topic \in Seq(STRING), NEW subject,
         IsTopicAllowedForSubject(topic, subject)
  PROVE  \/ topic[1] = "public" /\ Len(topic) > 1
         \/ /\ topic[1] = "users" /\ topic[2] = subject /\ Len(topic) > 2
            /\ subject \in Valid
<1>1. CASE StartsWith(topic, PublicTopicPrefix)
  <2>1. /\ Len(topic) > Len(PublicTopicPrefix) /\ Len(PublicTopicPrefix) = 1
        /\ PublicTopicPrefix[1] = "public"
        /\ SubSeq(topic, 1, Len(PublicTopicPrefix)) = PublicTopicPrefix
    BY <1>1 DEF StartsWith, PublicTopicPrefix
  <2>2. Len(topic) \in Nat /\ \A i \in 1..1 : topic[i] \in STRING
    BY <2>1
  <2>3. \A i \in 1..(1 - 1 + 1) : SubSeq(topic, 1, 1)[i] = topic[1 + i - 1]
    BY ONLY <2>2, SubSeqProperties
  <2>. QED BY <2>1, <2>2, <2>3
<1>2. CASE IsValidTopicUserId(subject) /\ StartsWith(topic, PrivateTopicPrefix(subject))
  <2>1. /\ Len(topic) > Len(PrivateTopicPrefix(subject))
        /\ Len(PrivateTopicPrefix(subject)) = 2
        /\ PrivateTopicPrefix(subject)[1] = "users"
        /\ PrivateTopicPrefix(subject)[2] = subject
        /\ SubSeq(topic, 1, Len(PrivateTopicPrefix(subject))) = PrivateTopicPrefix(subject)
    BY <1>2 DEF StartsWith, PrivateTopicPrefix
  <2>2. Len(topic) \in Nat /\ \A i \in 1..2 : topic[i] \in STRING
    BY <2>1
  <2>3. \A i \in 1..(2 - 1 + 1) : SubSeq(topic, 1, 2)[i] = topic[1 + i - 1]
    BY ONLY <2>2, SubSeqProperties
  <2>. QED BY <1>2, <2>1, <2>2, <2>3 DEF IsValidTopicUserId, Valid
<1>. QED BY <1>1, <1>2 DEF IsTopicAllowedForSubject

\* A client may be sent what its namespaces allow.
LEMMA AllowedIsEntitled ==
  ASSUME NEW topic \in Topics, NEW who \in Clients,
         IsTopicAllowedForSubject(topic, SubjectOf(who))
  PROVE  EntitledTo(who, topic)
<1>1. topic \in Seq(STRING)
  BY TopicsAssumption
<1>2. SubjectOf(who) \in Valid => SubjectOf(who) = who
  BY UsersAssumption DEF SubjectOf, Valid, None
<1>. QED BY <1>1, <1>2, AllowedBegins DEF EntitledTo

\* Wildcards do not lead out of a namespace: whatever an allowed filter
\* matches may be sent to the client.
LEMMA MatchedIsEntitled ==
  ASSUME NEW topic \in Topics, NEW filter \in Filters, NEW who \in Clients,
         IsTopicAllowedForSubject(filter, SubjectOf(who)), Matches(filter, topic)
  PROVE  EntitledTo(who, topic)
<1>1. topic \in Seq(STRING) /\ filter \in Seq(STRING)
  BY TopicsAssumption
<1>2. SubjectOf(who) \in Valid => SubjectOf(who) = who
  BY UsersAssumption DEF SubjectOf, Valid, None
<1>3. \/ filter[1] = "public" /\ Len(filter) > 1
      \/ filter[2] = who /\ Len(filter) > 2 /\ who \in Valid
  BY <1>1, <1>2, AllowedBegins
<1>4. \A i \in 1..(Len(filter) - 1) : filter[i] \in {"+", topic[i]}
  BY <1>1 DEF Matches
<1>5. who \in Valid => who # "+"
  BY UsersAssumption DEF Valid
<1>. QED BY <1>1, <1>3, <1>4, <1>5 DEF EntitledTo

-----------------------------------------------------------------------------
(***************************************************************************)
(* Passwords and sessions.                                                 *)
(***************************************************************************)

\* What a password that is not refused stands for.
LEMMA VerifiedFacts ==
  ASSUME NEW v \in Presentable, v # Nobody, time \in 0..MaxTime
  PROVE  /\ v \in Presentations
         /\ \/ v.who = "publisher" /\ v.expiry = Never
            \/ /\ v.who \in Clients
               /\ v.expiry # Never => v.expiry > time
<1>1. PICK listener \in {"default", "internal"},
           password \in Tokens \cup {NoPassword, PublisherPassword} :
             v = Verified(listener, password)
  BY DEF Presentable
<1>2. CASE password \in Tokens
  <2>1. PICK u \in Users, at \in {n \in 0..time : n + Lifetime >= time} :
          password = [who |-> u, expiry |-> at + Lifetime]
    BY <1>2 DEF Tokens
  <2>2. at + Lifetime \in 0..(MaxTime + Lifetime) /\ at + Lifetime # Never
    BY BrokerAssumption DEF Never
  <2>3. u # "anonymous" /\ u # "publisher"
    BY UsersAssumption
  <2>4. v = password /\ u \in Valid /\ at + Lifetime > time
    BY <1>1, <2>1, <2>3 DEF Verified, Nobody, NoPassword, PublisherPassword,
       IsValidTopicUserId, Valid
  <2>. QED
    BY <2>1, <2>2, <2>4 DEF Presentations, Identities, Clients
<1>3. CASE password = NoPassword
  BY <1>1, <1>3, BrokerAssumption DEF Verified, NoPassword, PublisherPassword, Nobody,
     Presentations, Identities, Clients, Never
<1>4. CASE password = PublisherPassword
  BY <1>1, <1>4, UsersAssumption, BrokerAssumption DEF Verified, NoPassword, PublisherPassword,
     Nobody, IsValidTopicUserId, Presentations, Identities, Never
<1>. QED BY <1>2, <1>3, <1>4

\* A connection attempt starts without an identity and keeps the rest.
LEMMA ResetFacts ==
  ASSUME NEW s \in Sessions
  PROVE  /\ ResetIdentity(s) \in Sessions
         /\ ResetIdentity(s) =
              [stored |-> s.stored, clean |-> s.clean, connected |-> s.connected,
               role |-> None, subject |-> None, expiry |-> Never,
               owner |-> s.owner, filters |-> s.filters, queue |-> s.queue]
<1> DEFINE r1 == [s EXCEPT !.role = None]
           r2 == [r1 EXCEPT !.subject = None]
           r3 == [r2 EXCEPT !.expiry = Never]
<1>1. /\ r1 \in Sessions
      /\ r1 = [stored |-> s.stored, clean |-> s.clean, connected |-> s.connected,
               role |-> None, subject |-> s.subject, expiry |-> s.expiry,
               owner |-> s.owner, filters |-> s.filters, queue |-> s.queue]
  BY DEF Sessions, Roles
<1> HIDE DEF r1
<1>2. /\ r2 \in Sessions
      /\ r2 = [stored |-> s.stored, clean |-> s.clean, connected |-> s.connected,
               role |-> None, subject |-> None, expiry |-> s.expiry,
               owner |-> s.owner, filters |-> s.filters, queue |-> s.queue]
  BY <1>1 DEF Sessions
<1> HIDE DEF r2
<1>3. /\ r3 \in Sessions
      /\ r3 = [stored |-> s.stored, clean |-> s.clean, connected |-> s.connected,
               role |-> None, subject |-> None, expiry |-> Never,
               owner |-> s.owner, filters |-> s.filters, queue |-> s.queue]
  BY <1>2, BrokerAssumption DEF Sessions, Never
<1>4. ResetIdentity(s) = r3
  BY Zenon DEF ResetIdentity, r1, r2, r3
<1>. QED BY <1>3, <1>4

\* Sessions and identities are well typed.
LEMMA SessionTypes ==
  /\ NoSession \in Sessions /\ Nobody \in Presentations
  /\ \A clean \in BOOLEAN : [NoSession EXCEPT !.clean = clean] \in Sessions
  /\ \A s \in Sessions, v \in Presentations : Authenticated(s, v) \in Sessions
<1>1. NoSession \in Sessions /\ Nobody \in Presentations
  BY BrokerAssumption DEF NoSession, Nobody, None, Never, Sessions,
     Presentations, Roles, Identities
<1>2. ASSUME NEW clean \in BOOLEAN
      PROVE  [NoSession EXCEPT !.clean = clean] \in Sessions
  BY <1>1 DEF Sessions
<1>3. ASSUME NEW s \in Sessions, NEW v \in Presentations
      PROVE  Authenticated(s, v) \in Sessions
  BY DEF Authenticated, Sessions, Presentations, Roles
<1>. QED BY <1>1, <1>2, <1>3

\* A persistent session begins empty, or is taken up as it was left; either
\* way the attempt starts it without an identity.
Resumed(s, former) ==
  /\ s.role = None /\ s.subject = None /\ s.expiry = Never
  /\ \/ s.filters = {} /\ s.queue = {} /\ ~s.stored /\ ~s.connected /\ s.owner = None
     \/ /\ s.filters = former.filters /\ s.queue = former.queue
        /\ s.owner = former.owner
        /\ s.stored = former.stored /\ s.connected = former.connected

\* The connection that takes the client id.
Accepts(id, s, v) ==
  /\ v \in Presentations /\ s.owner \in {None, v.who}
  /\ \/ v.who = "publisher" /\ v.expiry = Never
     \/ v.who \in Clients /\ (v.expiry # Never => v.expiry > time)
  /\ session' = [session EXCEPT ![id] = Authenticated(s, v)]
  /\ presented' = [presented EXCEPT ![id] = v]
  /\ sent' = {<<id, topic>> : topic \in s.queue}

\* The refusal, which may leave the former connection or end it.
Refuses(id, s, left) ==
  /\ left \in {session[id], NoSession, s, [s EXCEPT !.connected = FALSE]}
  /\ session' = [session EXCEPT ![id] = left]
  /\ presented' = [presented EXCEPT ![id] = IF left.connected THEN @ ELSE Nobody]
  /\ sent' = {}

LEMMA ResetResumes ==
  ASSUME NEW s \in Sessions, NEW former,
         \/ /\ s.filters = {} /\ s.queue = {} /\ ~s.stored /\ ~s.connected
            /\ s.owner = None
         \/ s = former
  PROVE  ResetIdentity(s) \in Sessions /\ Resumed(ResetIdentity(s), former)
<1> DEFINE r == ResetIdentity(s)
<1>1. /\ r \in Sessions
      /\ r = [stored |-> s.stored, clean |-> s.clean, connected |-> s.connected,
              role |-> None, subject |-> None, expiry |-> Never,
              owner |-> s.owner, filters |-> s.filters, queue |-> s.queue]
  BY ResetFacts
<1> HIDE DEF r
<1>. QED BY <1>1 DEF Resumed, r

LEMMA ConnectFacts ==
  ASSUME TypeOK, NEW id \in ClientIds, Connect(id)
  PROVE  \E s \in Sessions :
           /\ Resumed(s, session[id])
           /\ \/ \E v \in Presentations : Accepts(id, s, v)
              \/ \E left \in Sessions : Refuses(id, s, left)
<1> DEFINE s0(clean) == IF clean \/ ~session[id].stored
                          THEN [NoSession EXCEPT !.clean = clean] ELSE session[id]
<1>1. PICK v \in Presentable, clean \in BOOLEAN :
        LET s == ResetIdentity(s0(clean))
        IN \/ /\ v # Nobody /\ ClaimSession(s, v.who)
              /\ session' = [session EXCEPT ![id] = Authenticated(s, v)]
              /\ presented' = [presented EXCEPT ![id] = v]
              /\ sent' = {<<id, topic>> : topic \in s.queue}
           \/ /\ \E left \in Refused(id, s) :
                   /\ session' = [session EXCEPT ![id] = left]
                   /\ presented' = [presented EXCEPT ![id] = IF left.connected THEN @ ELSE Nobody]
              /\ sent' = {}
  BY DEF Connect
<1> DEFINE s == ResetIdentity(s0(clean))
<1>2. session[id] \in Sessions
  BY DEF TypeOK
<1>3. s0(clean) \in Sessions
  BY <1>2, SessionTypes
<1>4. s \in Sessions /\ Resumed(s, session[id])
  <2>1. CASE clean \/ ~session[id].stored
    <3>1. s0(clean) = [NoSession EXCEPT !.clean = clean]
      BY <2>1
    <3>2. /\ s0(clean).filters = {} /\ s0(clean).queue = {} /\ ~s0(clean).stored
          /\ ~s0(clean).connected /\ s0(clean).owner = None
      BY <3>1 DEF NoSession
    <3>. QED BY <1>3, <3>2, ResetResumes
  <2>2. CASE ~(clean \/ ~session[id].stored)
    <3>1. s0(clean) = session[id]
      BY <2>2
    <3>. QED BY <1>3, <3>1, ResetResumes
  <2>. QED BY <2>1, <2>2
<1> HIDE DEF s
<1>5. CASE /\ v # Nobody /\ ClaimSession(s, v.who)
           /\ session' = [session EXCEPT ![id] = Authenticated(s, v)]
           /\ presented' = [presented EXCEPT ![id] = v]
           /\ sent' = {<<id, topic>> : topic \in s.queue}
  <2>1. Accepts(id, s, v)
    BY <1>5, VerifiedFacts DEF Accepts, ClaimSession, TypeOK
  <2>. QED BY <1>4, <2>1 DEF Accepts
<1>6. ASSUME NEW left \in Refused(id, s), sent' = {},
             session' = [session EXCEPT ![id] = left],
             presented' = [presented EXCEPT ![id] = IF left.connected THEN @ ELSE Nobody]
      PROVE  \E l \in Sessions : Refuses(id, s, l)
  <2>1. [s EXCEPT !.connected = FALSE] \in Sessions
    BY <1>4 DEF Sessions
  <2>2. left \in Sessions /\ left \in {session[id], NoSession, s, [s EXCEPT !.connected = FALSE]}
    BY <1>2, <1>4, <2>1, SessionTypes DEF Refused
  <2>. QED BY <1>6, <2>2 DEF Refuses
<1>. QED BY <1>1, <1>4, <1>5, <1>6 DEF s

\* What a disconnection leaves.
LEMMA DroppedFacts ==
  ASSUME TypeOK, NEW id \in ClientIds, Dropped(id)
  PROVE  \E left \in Sessions :
           /\ session' = [session EXCEPT ![id] = left]
           /\ presented' = [presented EXCEPT ![id] = Nobody]
           /\ ~left.connected
           /\ \/ left.filters = {} /\ left.queue = {}
              \/ /\ left.filters = session[id].filters /\ left.queue = session[id].queue
                 /\ left.owner = session[id].owner
<1>1. session[id] \in Sessions
  BY DEF TypeOK
<1>2. CASE session[id].clean
  <2>1. ~NoSession.connected /\ NoSession.filters = {} /\ NoSession.queue = {}
    BY DEF NoSession
  <2>. QED BY <1>2, <2>1, SessionTypes DEF Dropped
<1>3. CASE ~session[id].clean
  <2> DEFINE left == [session[id] EXCEPT !.connected = FALSE]
  <2>1. /\ left \in Sessions /\ ~left.connected /\ left.filters = session[id].filters
        /\ left.queue = session[id].queue /\ left.owner = session[id].owner
    BY <1>1 DEF Sessions
  <2>. QED BY <1>3, <2>1 DEF Dropped
<1>. QED BY <1>2, <1>3

\* Only the filters of a session change.
LEMMA SubscriptionFacts ==
  ASSUME TypeOK, NEW id \in ClientIds, Subscribe(id) \/ Unsubscribe(id)
  PROVE  \E filters \in SUBSET Filters :
           /\ session[id].connected
           /\ session' = [session EXCEPT ![id] = [session[id] EXCEPT !.filters = filters]]
           /\ [session[id] EXCEPT !.filters = filters] \in Sessions
           /\ \A filter \in filters :
                filter \in session[id].filters \/ MaySubscribe(session[id], filter)
           /\ sent' = {}
<1>1. session[id] \in Sessions /\ session[id].filters \subseteq Filters
  BY DEF TypeOK, Sessions
<1>2. CASE Subscribe(id)
  <2>1. PICK filter \in Filters \ session[id].filters :
          /\ MaySubscribe(session[id], filter)
          /\ session' = [session EXCEPT ![id].filters = @ \cup {filter}]
    BY <1>2 DEF Subscribe
  <2> DEFINE filters == session[id].filters \cup {filter}
  <2>2. session' = [session EXCEPT ![id] = [session[id] EXCEPT !.filters = filters]]
    BY <2>1, Zenon
  <2>3. [session[id] EXCEPT !.filters = filters] \in Sessions
    BY <1>1 DEF Sessions
  <2>4. /\ filters \in SUBSET Filters /\ session[id].connected /\ sent' = {}
        /\ \A f \in filters : f \in session[id].filters \/ MaySubscribe(session[id], f)
    BY <1>1, <1>2, <2>1 DEF Subscribe
  <2> HIDE DEF filters
  <2>. QED BY <2>2, <2>3, <2>4, Zenon
<1>3. CASE Unsubscribe(id)
  <2>1. PICK filter \in session[id].filters :
          session' = [session EXCEPT ![id].filters = @ \ {filter}]
    BY <1>3 DEF Unsubscribe
  <2> DEFINE filters == session[id].filters \ {filter}
  <2>2. session' = [session EXCEPT ![id] = [session[id] EXCEPT !.filters = filters]]
    BY <2>1, Zenon
  <2>3. [session[id] EXCEPT !.filters = filters] \in Sessions
    BY <1>1 DEF Sessions
  <2>4. /\ filters \in SUBSET Filters /\ session[id].connected /\ sent' = {}
        /\ \A f \in filters : f \in session[id].filters
    BY <1>1, <1>3 DEF Unsubscribe
  <2> HIDE DEF filters
  <2>. QED BY <2>2, <2>3, <2>4, Zenon
<1>. QED BY <1>2, <1>3

-----------------------------------------------------------------------------
(***************************************************************************)
(* Types.                                                                  *)
(***************************************************************************)

\* What is held in a session is sent as it is.
LEMMA ConnectType ==
  ASSUME TypeOK, NEW id \in ClientIds, Connect(id)
  PROVE  TypeOK'
<1>1. PICK s \in Sessions :
        \/ \E v \in Presentations : Accepts(id, s, v)
        \/ \E left \in Sessions : Refuses(id, s, left)
  BY ConnectFacts
<1>2. /\ session' \in [ClientIds -> Sessions]
      /\ presented' \in [ClientIds -> Presentations]
      /\ sent' \subseteq ClientIds \X Topics
  <2>1. ASSUME NEW v \in Presentations, Accepts(id, s, v)
        PROVE  /\ session' \in [ClientIds -> Sessions]
               /\ presented' \in [ClientIds -> Presentations]
               /\ sent' \subseteq ClientIds \X Topics
    <3>1. Authenticated(s, v) \in Sessions
      BY SessionTypes
    <3>2. s.queue \subseteq Topics
      BY DEF Sessions
    <3>. QED BY <2>1, <3>1, <3>2 DEF Accepts, TypeOK
  <2>2. ASSUME NEW left \in Sessions, Refuses(id, s, left)
        PROVE  /\ session' \in [ClientIds -> Sessions]
               /\ presented' \in [ClientIds -> Presentations]
               /\ sent' \subseteq ClientIds \X Topics
    <3>1. (IF left.connected THEN presented[id] ELSE Nobody) \in Presentations
      BY SessionTypes DEF TypeOK
    <3>. QED BY <2>2, <3>1 DEF Refuses, TypeOK
  <2>. QED BY <1>1, <2>1, <2>2
<1>3. /\ connects' \in 0..MaxConnects
      /\ UNCHANGED <<broadcast, wake, pending, time, published, failures>>
  BY BrokerAssumption DEF Connect, TypeOK
<1>. QED BY <1>2, <1>3 DEF TypeOK

\* Every variable keeps its type: sessions are complete records of what the
\* constants allow, and the clock and the counters stay within their bounds.
THEOREM TypeCorrect == Spec => []TypeOK
<1>1. Init => TypeOK
  BY SessionTypes, BrokerAssumption DEF Init, TypeOK
<1>2. TypeOK /\ [Next]_vars => TypeOK'
  <2> SUFFICES ASSUME TypeOK, [Next]_vars PROVE TypeOK'
    OBVIOUS
  <2>1. ASSUME NEW id \in ClientIds, Connect(id) PROVE TypeOK'
    BY <2>1, ConnectType
  <2>2. ASSUME NEW id \in ClientIds, Dropped(id)
        PROVE  /\ session' \in [ClientIds -> Sessions]
               /\ presented' \in [ClientIds -> Presentations]
    BY <2>2, DroppedFacts, SessionTypes DEF TypeOK
  <2>3. ASSUME NEW id \in ClientIds, Disconnect(id) PROVE TypeOK'
    BY <2>2, <2>3 DEF Disconnect, TypeOK
  <2>4. ASSUME NEW id \in ClientIds, Subscribe(id) \/ Unsubscribe(id)
        PROVE  TypeOK'
    <3>1. session' \in [ClientIds -> Sessions] /\ sent' = {}
      BY <2>4, SubscriptionFacts DEF TypeOK
    <3>2. UNCHANGED <<presented, broadcast, wake, pending, time, connects, published, failures>>
      BY <2>4 DEF Subscribe, Unsubscribe
    <3>. QED BY <3>1, <3>2 DEF TypeOK
  <2>5. ASSUME NEW id \in ClientIds, Publish(id) PROVE TypeOK'
    BY <2>5, BrokerAssumption DEF Publish, TypeOK
  <2>6. ASSUME NEW id \in ClientIds, CheckExpired(id) PROVE TypeOK'
    <3>1. /\ session' \in [ClientIds -> Sessions]
          /\ presented' \in [ClientIds -> Presentations]
          /\ failures' \in 0..MaxFailures
      BY <2>2, <2>6, BrokerAssumption DEF CheckExpired, TypeOK
    <3>2. /\ pending' \subseteq ClientIds /\ sent' = {}
          /\ UNCHANGED <<broadcast, wake, time, connects, published>>
      BY <2>6 DEF CheckExpired, TypeOK
    <3>. QED BY <3>1, <3>2 DEF TypeOK
  <2>7. CASE Deliver
    <3>1. PICK topic \in broadcast :
            /\ broadcast' = broadcast \ {topic}
            /\ sent' = {<<id, topic>> : id \in {c \in ClientIds :
                          /\ session[c].connected /\ Subscribed(session[c], topic)
                          /\ MayReceive(session[c], topic)}}
            /\ session' = [id \in ClientIds |->
                  IF ~session[id].connected /\ Subscribed(session[id], topic)
                    THEN [session[id] EXCEPT !.queue = @ \cup {topic}] ELSE session[id]]
      BY <2>7 DEF Deliver
    <3>2. topic \in Topics /\ sent' \subseteq ClientIds \X Topics
      BY <3>1 DEF TypeOK
    <3>3. ASSUME NEW id \in ClientIds
          PROVE  [session[id] EXCEPT !.queue = @ \cup {topic}] \in Sessions
      BY <3>2 DEF TypeOK, Sessions
    <3>4. session' \in [ClientIds -> Sessions]
      BY <3>1, <3>3 DEF TypeOK
    <3>5. UNCHANGED <<presented, wake, pending, time, connects, published, failures>>
      BY <2>7 DEF Deliver
    <3>. QED BY <3>1, <3>2, <3>4, <3>5 DEF TypeOK
  <2>8. CASE Wake \/ Tick
    BY <2>8, BrokerAssumption DEF Wake, Tick, TypeOK
  <2>9. CASE UNCHANGED vars
    BY <2>9 DEF vars, TypeOK
  <2>. QED
    BY <2>1, <2>3, <2>4, <2>5, <2>6, <2>7, <2>8, <2>9 DEF Next
<1>. QED BY <1>1, <1>2, PTL DEF Spec

-----------------------------------------------------------------------------
(***************************************************************************)
(* Deliveries.  What a session holds, its subscriptions and the messages   *)
(* kept while it is away, stays within the namespaces of its owner, who    *)
(* alone may take it up; and a connection that acts as a client still has  *)
(* the identity it presented.                                              *)
(***************************************************************************)

Held(s) ==
  /\ \A filter \in s.filters :
       s.owner \in Clients /\ IsTopicAllowedForSubject(filter, SubjectOf(s.owner))
  /\ \A topic \in s.queue : s.owner \in Clients /\ EntitledTo(s.owner, topic)

SignedOn(s, p) ==
  s.connected /\ s.role = "client" =>
    /\ s.owner \in Clients /\ s.subject = SubjectOf(s.owner)
    /\ p.who = s.owner /\ p.expiry = s.expiry

ClientInv ==
  \A id \in ClientIds : Held(session[id]) /\ SignedOn(session[id], presented[id])

\* A step that changes one session only.
LEMMA OneSession ==
  ASSUME TypeOK, ClientInv, NEW id \in ClientIds, NEW s, NEW p,
         session' = [session EXCEPT ![id] = s],
         presented' = [presented EXCEPT ![id] = p],
         Held(s), SignedOn(s, p)
  PROVE  ClientInv'
<1>1. session'[id] = s /\ presented'[id] = p
  BY DEF TypeOK
<1>2. \A i \in ClientIds \ {id} : session'[i] = session[i] /\ presented'[i] = presented[i]
  BY DEF TypeOK
<1>. QED BY <1>1, <1>2 DEF ClientInv

\* Taking up a session, its owner is sent what was held for it.
LEMMA AcceptedClient ==
  ASSUME TypeOK, ClientInv, NEW id \in ClientIds, NEW s \in Sessions,
         Resumed(s, session[id]), NEW v \in Presentations, Accepts(id, s, v),
         UNCHANGED time
  PROVE  ClientInv' /\ DeliversOnlyToEntitled'
<1>1. Held(s)
  BY DEF Resumed, ClientInv, Held
<1>2. v.who # None /\ "publisher" \notin Clients
  BY UsersAssumption DEF Accepts, Clients, Valid, None
<1> DEFINE a == Authenticated(s, v)
<1>3. /\ a.filters = s.filters /\ a.queue = {} /\ a.owner = v.who
      /\ a.role = "client" => v.who # "publisher"
      /\ a.subject = SubjectOf(v.who) /\ a.expiry = v.expiry
  BY DEF Authenticated, Accepts, SubjectOf
<1>4. (s.filters # {} \/ s.queue # {}) => s.owner = v.who
  BY <1>1, UsersAssumption DEF Held, Accepts, Clients, Valid, None
<1>5. Held(a) /\ SignedOn(a, v)
  <2> HIDE DEF a
  <2>. QED BY <1>1, <1>3, <1>4 DEF Held, SignedOn, Accepts
<1>6. ClientInv'
  BY <1>5, OneSession DEF Accepts
<1>7. ASSUME NEW delivery \in sent'
      PROVE  LET p == presented'[delivery[1]]
                 topic == delivery[2] IN
             /\ p.who \in Users \cup {"anonymous"}
             /\ p.expiry # Never => time' < p.expiry
             /\ topic[1] = "public" \/ topic[2] = p.who
  <2>1. PICK topic \in s.queue : delivery = <<id, topic>>
    BY <1>7 DEF Accepts
  <2>2. v.who \in Clients /\ EntitledTo(v.who, topic) /\ presented'[id] = v
    BY <1>1, <1>4, <2>1 DEF Held, Accepts, TypeOK
  <2>3. v.expiry # Never => time < v.expiry
    BY <1>2, <2>2 DEF Accepts, TypeOK, Presentations
  <2>. QED BY <2>1, <2>2, <2>3 DEF EntitledTo, Clients, Valid
<1>. QED BY <1>6, <1>7 DEF DeliversOnlyToEntitled

\* Whatever a refusal leaves, it is nobody else's.
LEMMA RefusedClient ==
  ASSUME TypeOK, ClientInv, NEW id \in ClientIds, NEW s \in Sessions,
         Resumed(s, session[id]), NEW left \in Sessions, Refuses(id, s, left)
  PROVE  ClientInv'
<1> DEFINE p == IF left.connected THEN presented[id] ELSE Nobody
<1>1. Held(s) /\ s.role # "client"
  BY DEF Resumed, ClientInv, Held, None
<1>2. CASE left = session[id]
  BY <1>2, OneSession DEF Refuses, ClientInv, SignedOn
<1>3. CASE left = NoSession
  <2>1. Held(left) /\ SignedOn(left, p)
    BY <1>3 DEF Held, SignedOn, NoSession
  <2>. QED BY <2>1, OneSession DEF Refuses
<1>4. CASE left = s
  <2>1. Held(left) /\ SignedOn(left, p)
    BY <1>1, <1>4 DEF SignedOn
  <2>. QED BY <2>1, OneSession DEF Refuses
<1>5. CASE left = [s EXCEPT !.connected = FALSE]
  <2>1. /\ ~left.connected /\ left.filters = s.filters /\ left.queue = s.queue
        /\ left.owner = s.owner
    BY <1>5 DEF Sessions
  <2>2. Held(left) /\ SignedOn(left, p)
    BY <1>1, <2>1 DEF Held, SignedOn
  <2>. QED BY <2>2, OneSession DEF Refuses
<1>. QED BY <1>2, <1>3, <1>4, <1>5 DEF Refuses

LEMMA DroppedClient ==
  ASSUME TypeOK, ClientInv, NEW id \in ClientIds, Dropped(id)
  PROVE  ClientInv'
<1>1. PICK left \in Sessions :
        /\ session' = [session EXCEPT ![id] = left]
        /\ presented' = [presented EXCEPT ![id] = Nobody]
        /\ ~left.connected
        /\ \/ left.filters = {} /\ left.queue = {}
           \/ /\ left.filters = session[id].filters /\ left.queue = session[id].queue
              /\ left.owner = session[id].owner
  BY DroppedFacts
<1>2. Held(left) /\ SignedOn(left, Nobody)
  BY <1>1 DEF Held, SignedOn, ClientInv
<1>. QED BY <1>1, <1>2, OneSession

\* A subscription is within the namespaces of the owner.
LEMMA SubscribedClient ==
  ASSUME TypeOK, ClientInv, NEW id \in ClientIds, Subscribe(id) \/ Unsubscribe(id)
  PROVE  ClientInv'
<1>1. PICK filters \in SUBSET Filters :
        /\ session[id].connected
        /\ session' = [session EXCEPT ![id] = [session[id] EXCEPT !.filters = filters]]
        /\ [session[id] EXCEPT !.filters = filters] \in Sessions
        /\ \A filter \in filters :
             filter \in session[id].filters \/ MaySubscribe(session[id], filter)
  BY SubscriptionFacts
<1> DEFINE s == [session[id] EXCEPT !.filters = filters]
<1>2. /\ s.filters = filters /\ s.queue = session[id].queue
      /\ s.owner = session[id].owner /\ s.connected = session[id].connected
      /\ s.role = session[id].role /\ s.subject = session[id].subject
      /\ s.expiry = session[id].expiry
  BY DEF TypeOK, Sessions
<1>3. session' = [session EXCEPT ![id] = s]
  BY <1>1
<1>4. presented' = [presented EXCEPT ![id] = presented[id]]
  BY DEF Subscribe, Unsubscribe, TypeOK
<1> HIDE DEF s
<1>5. Held(s) /\ SignedOn(s, presented[id])
  BY <1>1, <1>2 DEF Held, SignedOn, ClientInv, MaySubscribe
<1>. QED BY <1>3, <1>4, <1>5, OneSession

\* What is delivered, and what is held for a session that is away, was
\* subscribed to by its owner.
LEMMA DeliveredClient ==
  ASSUME TypeOK, ClientInv, Deliver
  PROVE  ClientInv' /\ DeliversOnlyToEntitled'
<1>1. PICK topic \in broadcast :
        /\ sent' = {<<id, topic>> : id \in {c \in ClientIds :
                      /\ session[c].connected /\ Subscribed(session[c], topic)
                      /\ MayReceive(session[c], topic)}}
        /\ session' = [id \in ClientIds |->
              IF ~session[id].connected /\ Subscribed(session[id], topic)
                THEN [session[id] EXCEPT !.queue = @ \cup {topic}] ELSE session[id]]
  BY DEF Deliver
<1>2. topic \in Topics /\ UNCHANGED <<presented, time>>
  BY DEF Deliver, TypeOK
<1>3. ASSUME NEW id \in ClientIds
      PROVE  Held(session'[id]) /\ SignedOn(session'[id], presented'[id])
  <2>1. CASE session'[id] = session[id]
    BY <1>2, <2>1 DEF ClientInv
  <2>2. CASE /\ ~session[id].connected /\ Subscribed(session[id], topic)
             /\ session'[id] = [session[id] EXCEPT !.queue = @ \cup {topic}]
    <3>1. PICK filter \in session[id].filters : Matches(filter, topic)
      BY <2>2 DEF Subscribed
    <3>2. /\ filter \in Filters /\ session[id].owner \in Clients
          /\ IsTopicAllowedForSubject(filter, SubjectOf(session[id].owner))
      BY DEF ClientInv, Held, TypeOK, Sessions
    <3>3. EntitledTo(session[id].owner, topic)
      BY <1>2, <3>1, <3>2, MatchedIsEntitled
    <3>4. /\ session'[id].filters = session[id].filters
          /\ session'[id].queue = session[id].queue \cup {topic}
          /\ session'[id].owner = session[id].owner /\ ~session'[id].connected
      BY <2>2 DEF TypeOK, Sessions
    <3>. QED BY <3>2, <3>3, <3>4 DEF ClientInv, Held, SignedOn
  <2>. QED BY <1>1, <2>1, <2>2
<1>4. ASSUME NEW delivery \in sent'
      PROVE  LET p == presented'[delivery[1]]
                 t == delivery[2] IN
             /\ p.who \in Users \cup {"anonymous"}
             /\ p.expiry # Never => time' < p.expiry
             /\ t[1] = "public" \/ t[2] = p.who
  <2>1. PICK id \in ClientIds : /\ delivery = <<id, topic>> /\ session[id].connected
                                /\ MayReceive(session[id], topic)
    BY <1>1, <1>4
  <2>2. /\ session[id].owner \in Clients /\ presented[id].who = session[id].owner
        /\ presented[id].expiry = session[id].expiry
        /\ session[id].subject = SubjectOf(session[id].owner)
    BY <2>1 DEF ClientInv, SignedOn, MayReceive
  <2>3. EntitledTo(presented[id].who, topic)
    BY <1>2, <2>1, <2>2, AllowedIsEntitled DEF MayReceive
  <2>4. presented[id].expiry # Never => time < presented[id].expiry
    BY <2>1, <2>2 DEF MayReceive, IsExpired, TypeOK, Presentations
  <2>. QED BY <1>2, <2>1, <2>2, <2>3, <2>4 DEF EntitledTo, Clients, Valid
<1>. QED BY <1>3, <1>4 DEF ClientInv, DeliversOnlyToEntitled

\* A message reaches only a connection that presented, and still has, what
\* entitles to it, whatever was subscribed to, held, refused, taken over or
\* disconnected before.
THEOREM DeliveriesEntitled == Spec => []DeliversOnlyToEntitled
<1>1. Init => ClientInv /\ DeliversOnlyToEntitled
  BY DEF Init, ClientInv, Held, SignedOn, NoSession, DeliversOnlyToEntitled
<1>2. TypeOK /\ ClientInv /\ DeliversOnlyToEntitled /\ [Next]_vars
        => ClientInv' /\ DeliversOnlyToEntitled'
  <2> SUFFICES ASSUME TypeOK, ClientInv, DeliversOnlyToEntitled, [Next]_vars
               PROVE  ClientInv' /\ DeliversOnlyToEntitled'
    OBVIOUS
  <2>1. ASSUME NEW id \in ClientIds, Connect(id)
        PROVE  ClientInv' /\ DeliversOnlyToEntitled'
    <3>1. PICK s \in Sessions :
            /\ Resumed(s, session[id])
            /\ \/ \E v \in Presentations : Accepts(id, s, v)
               \/ \E left \in Sessions : Refuses(id, s, left)
      BY <2>1, ConnectFacts
    <3>2. UNCHANGED time
      BY <2>1 DEF Connect
    <3>3. ASSUME NEW left \in Sessions, Refuses(id, s, left)
          PROVE  ClientInv' /\ DeliversOnlyToEntitled'
      BY <3>1, <3>3, RefusedClient DEF Refuses, DeliversOnlyToEntitled
    <3>. QED BY <3>1, <3>2, <3>3, AcceptedClient
  <2>2. ASSUME sent' = {} PROVE DeliversOnlyToEntitled'
    BY <2>2 DEF DeliversOnlyToEntitled
  <2>3. ASSUME UNCHANGED <<session, presented>> PROVE ClientInv'
    BY <2>3 DEF ClientInv
  <2>4. ASSUME NEW id \in ClientIds,
               Disconnect(id) \/ Subscribe(id) \/ Unsubscribe(id)
        PROVE  ClientInv' /\ DeliversOnlyToEntitled'
    <3>1. sent' = {}
      BY <2>4 DEF Disconnect, Subscribe, Unsubscribe
    <3>. QED BY <2>2, <2>4, <3>1, DroppedClient, SubscribedClient DEF Disconnect
  <2>5. ASSUME NEW id \in ClientIds, Publish(id) \/ CheckExpired(id)
        PROVE  ClientInv' /\ DeliversOnlyToEntitled'
    <3>1. sent' = {} /\ (Dropped(id) \/ UNCHANGED <<session, presented>>)
      BY <2>5 DEF Publish, CheckExpired
    <3>. QED BY <2>2, <2>3, <3>1, DroppedClient
  <2>6. CASE Wake \/ Tick
    BY <2>2, <2>3, <2>6 DEF Wake, Tick
  <2>7. CASE UNCHANGED vars
    BY <2>3, <2>7 DEF vars, DeliversOnlyToEntitled
  <2>. QED
    BY <2>1, <2>4, <2>5, <2>6, <2>7, DeliveredClient DEF Next
<1>. QED BY <1>1, <1>2, TypeCorrect, PTL DEF Spec

-----------------------------------------------------------------------------
(***************************************************************************)
(* Expiry.  A session that a round has dealt with, or that was not there   *)
(* when it began, is connected with a token that outlives the round before *)
(* the next one, one round more for every disconnection that raised; one   *)
(* that the round has still to look at is a round late at most.            *)
(***************************************************************************)

\* When a token that expires must have disconnected its client.
Deadline(expiry, f) == expiry + Interval * (1 + f)

InTime(s, id) ==
  s.connected /\ s.expiry # Never =>
    /\ wake < Deadline(s.expiry, failures) + Interval
    /\ id \notin pending => wake < Deadline(s.expiry, failures)

RoundInv ==
  /\ time <= wake /\ wake <= time + Interval
  /\ pending # {} => wake = time + Interval
  /\ \A id \in ClientIds : session[id].connected => session[id].stored
  /\ \A id \in ClientIds : InTime(session[id], id)

\* The deadline in the future of a token that is still good.
LEMMA DeadlineFacts ==
  ASSUME NEW f \in Nat, NEW expiry \in Nat
  PROVE  /\ Deadline(expiry, f) \in Nat
         /\ Deadline(expiry, f) >= expiry + Interval
         /\ Deadline(expiry, f + 1) = Deadline(expiry, f) + Interval
<1>1. Interval * (1 + f) \in Nat /\ Interval * (1 + f) >= Interval
  BY BrokerAssumption
<1>2. Interval * (1 + (f + 1)) = Interval * (1 + f) + Interval
  BY BrokerAssumption
<1>. QED BY <1>1, <1>2, BrokerAssumption DEF Deadline

\* A step that changes one session and lets no time pass.
LEMMA OneSessionInTime ==
  ASSUME TypeOK, RoundInv, NEW id \in ClientIds, NEW s,
         session' = [session EXCEPT ![id] = s], s.connected => s.stored,
         UNCHANGED <<time, wake, pending, failures>>, InTime(s, id)
  PROVE  RoundInv'
<1>1. session'[id] = s /\ \A i \in ClientIds \ {id} : session'[i] = session[i]
  BY DEF TypeOK
<1>. QED BY <1>1 DEF RoundInv, InTime

LEMMA ConnectInTime ==
  ASSUME TypeOK, RoundInv, NEW id \in ClientIds, Connect(id)
  PROVE  RoundInv'
<1>1. PICK s \in Sessions :
        /\ Resumed(s, session[id])
        /\ \/ \E v \in Presentations : Accepts(id, s, v)
           \/ \E left \in Sessions : Refuses(id, s, left)
  BY ConnectFacts
<1>2. UNCHANGED <<time, wake, pending, failures>>
  BY DEF Connect
<1>3. ASSUME NEW v \in Presentations, Accepts(id, s, v) PROVE RoundInv'
  <2> DEFINE a == Authenticated(s, v)
  <2>1. a.connected /\ a.stored /\ a.expiry = v.expiry /\ v.expiry \in Nat
    BY BrokerAssumption DEF Authenticated, Presentations
  <2> HIDE DEF a
  <2>0. v.expiry \in Nat /\ failures \in Nat
    BY <2>1, BrokerAssumption DEF TypeOK
  <2>2. ASSUME v.expiry # Never
        PROVE  wake < Deadline(v.expiry, failures)
    <3>1. v.expiry > time
      BY <1>3, <2>2 DEF Accepts
    <3>2. Deadline(v.expiry, failures) \in Nat /\ Deadline(v.expiry, failures) >= v.expiry + Interval
      BY <2>0, DeadlineFacts
    <3>. QED BY <2>1, <3>1, <3>2, BrokerAssumption DEF RoundInv, TypeOK
  <2>3. Deadline(v.expiry, failures) \in Nat
    BY <2>0, DeadlineFacts
  <2>4. InTime(a, id)
    BY <2>1, <2>2, <2>3, BrokerAssumption DEF InTime, TypeOK
  <2>. QED BY <1>2, <1>3, <2>1, <2>4, OneSessionInTime DEF Accepts, a
<1>4. ASSUME NEW left \in Sessions, Refuses(id, s, left) PROVE RoundInv'
  <2>1. left = session[id] \/ ~left.connected \/ (left = s /\ s.expiry = Never)
    BY <1>1, <1>4 DEF Refuses, Resumed, NoSession, Sessions
  <2>2. left.connected => left.stored
    BY <1>1, <1>4, <2>1 DEF Refuses, Resumed, RoundInv
  <2>3. InTime(left, id)
    BY <2>1 DEF InTime, RoundInv
  <2>. QED BY <1>2, <1>4, <2>2, <2>3, OneSessionInTime DEF Refuses
<1>. QED BY <1>1, <1>3, <1>4

LEMMA CheckedInTime ==
  ASSUME TypeOK, RoundInv, NEW id \in ClientIds, CheckExpired(id)
  PROVE  RoundInv'
<1>1. /\ id \in pending /\ pending' = pending \ {id}
      /\ UNCHANGED <<time, wake>> /\ wake = time + Interval
  BY DEF CheckExpired, RoundInv
<1>2. session[id].expiry \in Nat /\ failures \in Nat /\ time \in Nat /\ wake \in Nat
  BY BrokerAssumption DEF TypeOK, Sessions
<1>3. ASSUME NEW i \in ClientIds \ {id}, session'[i] = session[i],
             UNCHANGED failures \/ failures' = failures + 1
      PROVE  (session[i].connected => session[i].stored) /\ InTime(session[i], i)'
  <2>1. session[i].expiry \in Nat
    BY DEF TypeOK, Sessions, BrokerAssumption
  <2> DEFINE d == Deadline(session[i].expiry, failures)
             e == Deadline(session[i].expiry, failures')
  <2>2. d \in Nat /\ (e = d \/ e = d + Interval)
    BY <1>2, <1>3, <2>1, DeadlineFacts
  <2> HIDE DEF d, e
  <2>3. session[i].connected /\ session[i].expiry # Never =>
          wake < d + Interval /\ (i \notin pending => wake < d)
    BY DEF RoundInv, InTime, d
  <2>4. session[i].connected /\ session[i].expiry # Never =>
          wake < e + Interval /\ (i \notin pending' => wake < e)
    BY <1>1, <1>2, <2>2, <2>3, BrokerAssumption
  <2>. QED BY <1>1, <1>3, <2>4 DEF InTime, e, RoundInv
<1>4. \A i \in ClientIds \ {id} : session'[i] = session[i]
  BY DEF CheckExpired, Dropped, TypeOK
<1>5. /\ session'[id].connected => session'[id].stored
      /\ InTime(session[id], id)'
  <2>1. CASE ~(session[id].connected /\ IsExpired(session[id])) /\ UNCHANGED <<session, failures>>
    <3>1. session[id].connected /\ session[id].expiry # Never => time < session[id].expiry
      BY <1>2, <2>1 DEF IsExpired
    <3> DEFINE d == Deadline(session[id].expiry, failures)
    <3>2. d \in Nat /\ d >= session[id].expiry + Interval
      BY <1>2, DeadlineFacts
    <3> HIDE DEF d
    <3>3. session[id].connected /\ session[id].expiry # Never => wake < d /\ wake < d + Interval
      BY <1>1, <1>2, <3>1, <3>2, BrokerAssumption
    <3>. QED BY <1>1, <2>1, <3>3 DEF InTime, RoundInv, d
  <2>2. CASE Dropped(id)
    <3>1. ~session'[id].connected
      BY <2>2, DroppedFacts DEF TypeOK
    <3>. QED BY <3>1 DEF InTime
  <2>3. CASE failures' = failures + 1 /\ UNCHANGED session
    <3> DEFINE d == Deadline(session[id].expiry, failures)
               e == Deadline(session[id].expiry, failures')
    <3>1. d \in Nat /\ e = d + Interval
      BY <1>2, <2>3, DeadlineFacts
    <3> HIDE DEF d, e
    <3>2. session[id].connected /\ session[id].expiry # Never => wake < d + Interval
      BY DEF RoundInv, InTime, d
    <3>3. session[id].connected /\ session[id].expiry # Never => wake < e /\ wake < e + Interval
      BY <1>2, <3>1, <3>2, BrokerAssumption
    <3>. QED BY <1>1, <2>3, <3>3 DEF InTime, RoundInv, e
  <2>. QED BY <2>1, <2>2, <2>3 DEF CheckExpired
<1>6. UNCHANGED failures \/ failures' = failures + 1
  BY DEF CheckExpired
<1>7. \A i \in ClientIds : session'[i].connected => session'[i].stored
  BY <1>4, <1>5 DEF RoundInv
<1>8. \A i \in ClientIds : InTime(session[i], i)'
  BY <1>3, <1>4, <1>5, <1>6
<1>. QED BY <1>1, <1>2, <1>7, <1>8 DEF RoundInv

\* A client whose token has expired is disconnected by the first round after
\* it, or by a later one for every disconnection that raised.
THEOREM ExpiredDisconnected == Spec => []ExpiredAreDisconnected
<1>1. Init => RoundInv
  BY BrokerAssumption DEF Init, RoundInv, InTime, NoSession
<1>2. TypeOK /\ RoundInv /\ [Next]_vars => RoundInv'
  <2> SUFFICES ASSUME TypeOK, RoundInv, [Next]_vars PROVE RoundInv'
    OBVIOUS
  <2>1. ASSUME NEW id \in ClientIds, Disconnect(id) PROVE RoundInv'
    <3>1. PICK left \in Sessions :
            session' = [session EXCEPT ![id] = left] /\ ~left.connected
      BY <2>1, DroppedFacts DEF Disconnect
    <3>. QED BY <2>1, <3>1, OneSessionInTime DEF Disconnect, InTime
  <2>2. ASSUME NEW id \in ClientIds, Subscribe(id) \/ Unsubscribe(id)
        PROVE  RoundInv'
    <3>1. PICK filters \in SUBSET Filters :
            session' = [session EXCEPT ![id] = [session[id] EXCEPT !.filters = filters]]
      BY <2>2, SubscriptionFacts
    <3> DEFINE s == [session[id] EXCEPT !.filters = filters]
    <3>2. /\ s.connected = session[id].connected /\ s.stored = session[id].stored
          /\ s.expiry = session[id].expiry
      BY DEF TypeOK, Sessions
    <3>3. session' = [session EXCEPT ![id] = s]
      BY <3>1
    <3> HIDE DEF s
    <3>4. InTime(s, id) /\ (s.connected => s.stored)
      BY <3>2 DEF InTime, RoundInv
    <3>. QED
      BY <2>2, <3>3, <3>4, OneSessionInTime DEF Subscribe, Unsubscribe
  <2>3. CASE Deliver
    <3>1. \A id \in ClientIds :
            /\ session'[id].connected = session[id].connected
            /\ session'[id].stored = session[id].stored
            /\ session'[id].expiry = session[id].expiry
      BY <2>3 DEF Deliver, TypeOK, Sessions
    <3>2. UNCHANGED <<time, wake, pending, failures>>
      BY <2>3 DEF Deliver
    <3>. QED BY <3>1, <3>2 DEF RoundInv, InTime
  <2>4. CASE Wake
    <3>1. /\ time = wake /\ pending = {} /\ wake' = time + Interval
          /\ pending' = {id \in ClientIds : session[id].stored}
          /\ UNCHANGED <<session, time, failures>>
      BY <2>4 DEF Wake
    <3>2. ASSUME NEW id \in ClientIds PROVE InTime(session[id], id)'
      <4>1. session[id].expiry \in Nat /\ failures \in Nat /\ wake \in Nat
        BY BrokerAssumption DEF TypeOK, Sessions
      <4> DEFINE d == Deadline(session[id].expiry, failures)
      <4>2. d \in Nat
        BY <4>1, DeadlineFacts
      <4> HIDE DEF d
      <4>3. session[id].connected /\ session[id].expiry # Never =>
              wake < d /\ id \in pending'
        BY <3>1 DEF RoundInv, InTime, d
      <4>4. session[id].connected /\ session[id].expiry # Never =>
              wake' < d + Interval /\ id \in pending'
        BY <3>1, <4>1, <4>2, <4>3, BrokerAssumption
      <4>. QED BY <3>1, <4>4 DEF InTime, d
    <3>3. time' <= wake' /\ wake' <= time' + Interval /\ wake' = time' + Interval
      BY <3>1, BrokerAssumption DEF TypeOK
    <3>. QED BY <3>1, <3>2, <3>3 DEF RoundInv
  <2>5. CASE Tick
    <3>1. /\ time < wake /\ pending = {} /\ time' = time + 1
          /\ UNCHANGED <<session, wake, pending, failures>>
      BY <2>5 DEF Tick
    <3>2. time' <= wake' /\ wake' <= time' + Interval
      BY <3>1, BrokerAssumption DEF RoundInv, TypeOK
    <3>. QED BY <3>1, <3>2 DEF RoundInv, InTime
  <2>6. ASSUME UNCHANGED <<session, time, wake, pending, failures>>
        PROVE  RoundInv'
    BY <2>6 DEF RoundInv, InTime
  <2>7. ASSUME NEW id \in ClientIds, Publish(id) PROVE RoundInv'
    BY <2>6, <2>7 DEF Publish
  <2>8. CASE UNCHANGED vars
    BY <2>6, <2>8 DEF vars
  <2>. QED
    BY <2>1, <2>2, <2>3, <2>4, <2>5, <2>7, <2>8, ConnectInTime, CheckedInTime
       DEF Next
<1>3. TypeOK /\ RoundInv => ExpiredAreDisconnected
  <2> SUFFICES ASSUME TypeOK, RoundInv, NEW id \in ClientIds,
                      session[id].connected, session[id].expiry # Never
               PROVE  time < session[id].expiry + Interval * (1 + failures)
    BY DEF ExpiredAreDisconnected
  <2>1. session[id].expiry \in Nat /\ failures \in Nat /\ wake \in Nat /\ time \in Nat
    BY BrokerAssumption DEF TypeOK, Sessions
  <2> DEFINE d == Deadline(session[id].expiry, failures)
  <2>2. d \in Nat
    BY <2>1, DeadlineFacts
  <2> HIDE DEF d
  <2>3. wake < d + Interval /\ (id \notin pending => wake < d)
    BY DEF RoundInv, InTime, d
  <2>4. time <= wake /\ (id \in pending => wake = time + Interval)
    BY DEF RoundInv
  <2>5. time < d
    BY <2>1, <2>2, <2>3, <2>4, BrokerAssumption
  <2>. QED BY <2>5 DEF d, Deadline
<1>. QED BY <1>1, <1>2, <1>3, TypeCorrect, PTL DEF Spec

=============================================================================
