------------------------- MODULE EventBridgeProofs -------------------------
(***************************************************************************)
(* Theorems about EventBridge, for every set of users, bridges and         *)
(* deleters and for every bound.                                           *)
(***************************************************************************)
EXTENDS EventBridge, TLAPS

LEMMA Constants ==
  /\ NoProcess \in Processes
  /\ Nobody \in Audiences
  /\ NoWitness \in Witnesses
  /\ NoEvent \in Events
BY DEF NoProcess, Processes, Nobody, Audiences, NoWitness, Witnesses, NoEvent,
   Events, EventTypes, ExternalTypes

\* What happens to sharing leaves the witnesses sets of users.
LEMMA WatchedType ==
  ASSUME TypeOK
  PROVE  Watched \in [Resolvers -> Witnesses]
<1>1. Entitled' \subseteq Users /\ Undisturbed \subseteq Users
  BY DEF Entitled, Undisturbed
<1>. QED
  BY <1>1 DEF Watched, TypeOK, Witnesses

LEMMA AnnouncesType ==
  ASSUME TypeOK, NEW type \in EventTypes, NEW aud \in Audiences,
         NEW wit \in Witnesses, Announces(type, aud, wit),
         type # "deleted" => aud = Nobody
  PROVE  queue' \subseteq Events
BY DEF TypeOK, Announces, Events

LEMMA ChangesType ==
  ASSUME TypeOK, Changes
  PROVE  changes' \in Nat /\ faults' \in Nat /\ harmed' \in BOOLEAN
BY DEF TypeOK, Changes

LEMMA FaultType ==
  ASSUME TypeOK, NEW kind, Fault(kind)
  PROVE  faults' \in Nat
BY DEF TypeOK, Fault

LEMMA GoesType ==
  ASSUME TypeOK, NEW r \in Resolvers, NEW from, NEW to \in Locations,
         Goes(r, from, to)
  PROVE  pc' \in [Resolvers -> Locations]
BY DEF TypeOK, Goes

LEMMA PurposeType ==
  ASSUME NEW r
  PROVE  Purpose(r) \in Locations
BY DEF Purpose, Locations

LEMMA EndsType ==
  ASSUME TypeOK, NEW r \in Resolvers, Ends(r)
  PROVE  /\ pc' \in [Resolvers -> Locations]
         /\ event' \in [Bridges -> Events]
         /\ audience' \in [Resolvers -> Audiences]
         /\ published' \in [Bridges -> SUBSET Users]
BY Constants DEF TypeOK, Ends, Locations

\* The audience of one resolver becomes another, or gets other users.
LEMMA NewUsersType ==
  ASSUME TypeOK, NEW r \in Resolvers, NEW us \in SUBSET Users,
         \/ audience' = [audience EXCEPT ![r].users = us]
         \/ \E p \in BOOLEAN :
              audience' = [audience EXCEPT ![r] = [public |-> p, users |-> us]]
  PROVE  audience' \in [Resolvers -> Audiences]
BY DEF TypeOK, Audiences

LEMMA CollectsType ==
  ASSUME TypeOK, NEW r \in Resolvers, NEW wanted, Collects(r, wanted)
  PROVE  audience' \in [Resolvers -> Audiences]
<1>. DEFINE found == ActiveOnes({u \in Users : role[u] = wanted})
<1>1. found \subseteq Users
  BY DEF ActiveOnes
<1>2. audience' = [audience EXCEPT ![r].users = @ \cup found]
  BY DEF Collects
<1>. HIDE DEF found
<1>. QED
  BY <1>1, <1>2 DEF TypeOK, Audiences

\* A deletion's event brings a well typed audience and witness.
LEMMA TakeType ==
  ASSUME TypeOK, NEW b \in Bridges, NEW e \in queue, Take(b, e)
  PROVE  /\ UNCHANGED <<process, role, active, published, changes>>
         /\ pc' \in [Resolvers -> Locations]
         /\ event' \in [Bridges -> Events]
         /\ audience' \in [Resolvers -> Audiences]
         /\ witness' \in [Resolvers -> Witnesses]
<1>1. b \in Resolvers /\ e \in Events
  BY DEF TypeOK, Resolvers
<1>2. e.audience \in Audiences /\ e.witness \in Witnesses
  BY <1>1 DEF Events
<1>3. "idle" \in Locations /\ "publish" \in Locations /\ "find" \in Locations
  BY DEF Locations
<1>4. pc' \in [Resolvers -> Locations]
  BY <1>1, <1>3, GoesType DEF Take
<1>. QED
  BY <1>1, <1>2, <1>4 DEF Take, TypeOK, sharing

LEMMA EndBridgingType ==
  ASSUME TypeOK, NEW b \in Bridges, EndBridging(b)
  PROVE  /\ UNCHANGED <<process, role, active, changes>>
         /\ pc' \in [Resolvers -> Locations]
         /\ event' \in [Bridges -> Events]
         /\ audience' \in [Resolvers -> Audiences]
         /\ published' \in [Bridges -> SUBSET Users]
         /\ witness' \in [Resolvers -> Witnesses]
<1>1. b \in Resolvers
  BY DEF Resolvers
<1>. QED
  BY <1>1, EndsType, Constants DEF EndBridging, TypeOK, sharing

LEMMA FindProcessType ==
  ASSUME TypeOK, NEW r \in Resolvers, FindProcess(r)
  PROVE  TypeOK'
<1>1. UNCHANGED <<process, role, active, queue, changes, faults, harmed>>
  BY DEF FindProcess, SharingUntouched, sharing
<1>2. CASE ~Exists /\ Ends(r) /\ UNCHANGED witness
  BY <1>1, <1>2, EndsType DEF TypeOK
<1>3. CASE Exists
  <2>1. UNCHANGED <<event, published>>
    BY <1>3 DEF FindProcess
  <2>2. Entitled \subseteq Users /\ ActiveOnes({process.owner}) \subseteq Users
    BY <1>3 DEF Entitled, ActiveOnes, TypeOK, Processes, Exists
  <2>3. witness' \in [Resolvers -> Witnesses]
    BY <1>3, <2>2 DEF FindProcess, TypeOK, Witnesses
  <2>4. pc' \in [Resolvers -> Locations]
    BY <1>3, GoesType, PurposeType DEF FindProcess, Locations
  <2>5. audience' \in [Resolvers -> Audiences]
    <3>1. CASE process.public
      <4>1. audience' = [audience EXCEPT ![r] = [public |-> TRUE, users |-> {}]]
        BY <1>3, <3>1 DEF FindProcess, Resolves
      <4>2. {} \in SUBSET Users /\ TRUE \in BOOLEAN
        OBVIOUS
      <4>. QED BY <4>1, <4>2, NewUsersType
    <3>2. CASE ~process.public
      <4>. DEFINE us == ActiveOnes({process.owner})
      <4>1. audience' = [audience EXCEPT ![r] = [public |-> FALSE, users |-> us]]
        BY <1>3, <3>2 DEF FindProcess, Resolves
      <4>2. us \in SUBSET Users /\ FALSE \in BOOLEAN
        BY <2>2
      <4>. HIDE DEF us
      <4>. QED BY <4>1, <4>2, NewUsersType
    <3>. QED BY <3>1, <3>2
  <2>. QED
    BY <1>1, <2>1, <2>3, <2>4, <2>5 DEF TypeOK
<1>. QED
  BY <1>2, <1>3 DEF FindProcess

LEMMA ReadRolesType ==
  ASSUME TypeOK, NEW r \in Resolvers, ReadEditors(r) \/ ReadViewers(r)
  PROVE  TypeOK'
<1>1. UNCHANGED <<process, role, active, queue, changes, faults, harmed, event,
                  published, witness>>
  BY DEF ReadEditors, ReadViewers, SharingUntouched, sharing
<1>2. pc' \in [Resolvers -> Locations]
  BY GoesType, PurposeType DEF ReadEditors, ReadViewers, Locations
<1>3. audience' \in [Resolvers -> Audiences]
  BY CollectsType DEF ReadEditors, ReadViewers
<1>. QED
  BY <1>1, <1>2, <1>3 DEF TypeOK

\* Every variable keeps its type, and only deletions carry an audience.
THEOREM TypeCorrect == Spec => []TypeOK
<1>1. Init => TypeOK
  <2> SUFFICES ASSUME Init PROVE TypeOK
    OBVIOUS
  <2>1. process \in Processes /\ queue \subseteq Events
    BY Constants DEF Init
  <2>2. role \in [Users -> Roles] /\ pc \in [Resolvers -> Locations]
    BY DEF Init, Roles, Locations
  <2>3. active \in [Users -> BOOLEAN]
    BY DEF Init
  <2>4. /\ event \in [Bridges -> Events]
        /\ audience \in [Resolvers -> Audiences]
        /\ published \in [Bridges -> SUBSET Users]
        /\ witness \in [Resolvers -> Witnesses]
    BY Constants DEF Init
  <2>5. changes \in Nat /\ faults \in Nat
    BY DEF Init
  <2>6. harmed \in BOOLEAN
    BY DEF Init
  <2>. QED
    BY <2>1, <2>2, <2>3, <2>4, <2>5, <2>6 DEF TypeOK
<1>2. TypeOK /\ [Next]_vars => TypeOK'
  <2> SUFFICES ASSUME TypeOK, [Next]_vars PROVE TypeOK'
    OBVIOUS
  <2>1. ASSUME NEW u \in Users, NEW p \in BOOLEAN,
               CreateProcess(u, p) \/ UpdateProcess(u, p)
        PROVE  TypeOK'
    <3>1. UNCHANGED <<role, active, pc, event, audience, published>>
      BY <2>1 DEF CreateProcess, UpdateProcess, handlers
    <3>2. process' \in Processes
      BY <2>1 DEF CreateProcess, UpdateProcess, Processes
    <3>3. queue' \subseteq Events
      BY <2>1, AnnouncesType, Constants DEF CreateProcess, UpdateProcess,
           EventTypes, ExternalTypes
    <3>4. witness' \in [Resolvers -> Witnesses]
      BY <2>1, WatchedType DEF CreateProcess, UpdateProcess
    <3>5. changes' \in Nat /\ faults' \in Nat /\ harmed' \in BOOLEAN
      BY <2>1, ChangesType DEF CreateProcess, UpdateProcess
    <3>. QED BY <3>1, <3>2, <3>3, <3>4, <3>5 DEF TypeOK
  <2>2. ASSUME NEW t \in {"deployed", "deployment_failed"}, EndDeployment(t)
        PROVE  TypeOK'
    <3>1. queue' \subseteq Events
      BY <2>2, AnnouncesType, Constants DEF EndDeployment, EventTypes, ExternalTypes
    <3>. QED
      BY <2>2, <3>1, ChangesType DEF EndDeployment, TypeOK, sharing, handlers
  <2>3. ASSUME NEW u \in Users, NEW r \in {"viewer", "editor"}, GrantAccess(u, r)
        PROVE  TypeOK'
    <3>1. role' \in [Users -> Roles]
      BY <2>3 DEF GrantAccess, TypeOK, Roles
    <3>. QED
      BY <2>3, <3>1, ChangesType, WatchedType DEF GrantAccess, TypeOK, handlers
  <2>4. ASSUME NEW u \in Users, RevokeAccess(u)
        PROVE  TypeOK'
    <3>1. role' \in [Users -> Roles]
      BY <2>4 DEF RevokeAccess, TypeOK, Roles
    <3>. QED
      BY <2>4, <3>1, ChangesType, WatchedType DEF RevokeAccess, TypeOK, handlers
  <2>5. ASSUME NEW u \in Users, NEW value \in BOOLEAN, SetActive(u, value)
        PROVE  TypeOK'
    BY <2>5, ChangesType, WatchedType DEF SetActive, TypeOK, handlers
  <2>6. ASSUME NEW d \in Deleters,
               \/ StartDelete(d) \/ FindProcess(d) \/ ReadEditors(d)
               \/ ReadViewers(d) \/ DeleteRow(d) \/ RefuseDelete(d)
        PROVE  TypeOK'
    <3>0. d \in Resolvers
      BY DEF Resolvers
    <3>1. CASE StartDelete(d)
      BY <3>0, <3>1, ChangesType, GoesType DEF StartDelete, TypeOK, Locations, sharing
    <3>2. CASE DeleteRow(d)
      <4>1. audience[d] \in Audiences /\ witness[d] \in Witnesses
        BY <3>0 DEF TypeOK
      <4>2. queue' \subseteq Events
        BY <3>2, <4>1, AnnouncesType DEF DeleteRow, EventTypes, ExternalTypes
      <4>3. witness' \in [Resolvers -> Witnesses]
        BY <3>2, WatchedType, Constants DEF DeleteRow
      <4>4. process' \in Processes /\ UNCHANGED <<role, active>>
        BY <3>2, Constants DEF DeleteRow
      <4>5. changes' \in Nat /\ faults' \in Nat /\ harmed' \in BOOLEAN
        BY <3>2, ChangesType DEF DeleteRow
      <4>6. Ends(d)
        BY <3>2 DEF DeleteRow
      <4>. QED
        BY <3>0, <4>2, <4>3, <4>4, <4>5, <4>6, EndsType DEF TypeOK
    <3>3. CASE RefuseDelete(d)
      BY <3>0, <3>3, EndsType, Constants DEF RefuseDelete, TypeOK,
         SharingUntouched, sharing
    <3>. QED
      BY <2>6, <3>0, <3>1, <3>2, <3>3, FindProcessType, ReadRolesType
  <2>7. ASSUME NEW b \in Bridges, BridgeStep(b)
        PROVE  TypeOK'
    <3>0. b \in Resolvers
      BY DEF Resolvers
    <3>1. CASE ReceiveEvent(b)
      BY <3>1, TakeType DEF ReceiveEvent, TypeOK
    <3>2. CASE PublishPublic(b) \/ FinishBridging(b)
      BY <3>2, EndBridgingType DEF PublishPublic, FinishBridging, TypeOK
    <3>3. ASSUME NEW u \in Users, PublishToUser(b, u) \/ SkipUser(b, u)
          PROVE  TypeOK'
      <4>1. audience' \in [Resolvers -> Audiences]
        <5>. DEFINE us == audience[b].users \ {u}
        <5>1. audience' = [audience EXCEPT ![b].users = us]
          BY <3>3 DEF PublishToUser, SkipUser
        <5>2. us \in SUBSET Users
          BY <3>0 DEF TypeOK, Audiences
        <5>. HIDE DEF us
        <5>. QED BY <3>0, <5>1, <5>2, NewUsersType
      <4>2. published' \in [Bridges -> SUBSET Users]
        BY <3>3 DEF PublishToUser, SkipUser, TypeOK
      <4>3. UNCHANGED <<process, role, active, queue, changes, faults, harmed, pc,
                        event, witness>>
        BY <3>3 DEF PublishToUser, SkipUser, SharingUntouched, sharing
      <4>. QED
        BY <4>1, <4>2, <4>3 DEF TypeOK
    <3>. QED
      BY <2>7, <3>0, <3>1, <3>2, <3>3, FindProcessType, ReadRolesType DEF BridgeStep
  <2>8. ASSUME NEW b \in Bridges, ReceiveDuplicate(b) \/ FailPublish(b)
        PROVE  TypeOK'
    BY <2>8, TakeType, EndBridgingType, FaultType
       DEF ReceiveDuplicate, FailPublish, TypeOK
  <2>9. ASSUME NEW e \in queue, LoseEvent(e)
        PROVE  TypeOK'
    BY <2>9, FaultType DEF LoseEvent, TypeOK, sharing, handlers
  <2>10. ASSUME NEW b \in Bridges, CrashBridge(b)
         PROVE  TypeOK'
    <3>1. queue' \subseteq Events
      BY <2>10 DEF CrashBridge, TypeOK
    <3>. QED
      BY <2>10, <3>1, EndBridgingType, FaultType DEF CrashBridge, TypeOK
  <2>11. CASE RemoveSilently
    BY <2>11, Constants, ChangesType, WatchedType DEF RemoveSilently, TypeOK, handlers
  <2>12. CASE UNCHANGED vars
    BY <2>12 DEF vars, TypeOK
  <2>. QED
    BY <2>1, <2>2, <2>3, <2>4, <2>5, <2>6, <2>7, <2>8, <2>9, <2>10, <2>11, <2>12
       DEF Next
<1>. QED
  BY <1>1, <1>2, PTL DEF Spec

-----------------------------------------------------------------------------
(***************************************************************************)
(* Who is told of an event.                                                *)
(*                                                                         *)
(* The invariant says, for each resolver, how what it has read so far      *)
(* relates to the history: everybody it holds was entitled at some moment; *)
(* everybody who stayed entitled by the same role is held already, or      *)
(* still has a role that is read later.  For a deletion the same is said   *)
(* of the event that carries the audience to the bridge.                   *)
(***************************************************************************)

Told(r) == IF r \in Bridges THEN published[r] ELSE {}

\* Nothing has been published before the audience is complete.
NothingTold(r) == pc[r] # "publish" => Told(r) = {}

\* What is read next was entitled at some moment.
SeesEntitled(r) == Resolving(r) => Entitled \subseteq witness[r].may

HoldsEntitled(r) ==
  audience[r].users \cup Told(r) \subseteq witness[r].may

\* A steady user is held, or is found by a read that is still to come.
WillBeFound(r, roles) ==
  \A u \in witness[r].steady :
    u \in audience[r].users \/ (active[u] /\ role[u] \in roles)

HoldsSteady(r) ==
  /\ pc[r] = "editors" => WillBeFound(r, {"viewer", "editor"})
  /\ pc[r] = "viewers" => WillBeFound(r, {"viewer"})
  /\ pc[r] = "delete" /\ ~audience[r].public
       => witness[r].steady \subseteq audience[r].users
  /\ pc[r] = "publish" /\ ~audience[r].public
       => witness[r].steady \cap Addressable
            \subseteq audience[r].users \cup Told(r)

Accurate(r) ==
  NothingTold(r) /\ SeesEntitled(r) /\ HoldsEntitled(r) /\ HoldsSteady(r)

\* The audience of a deletion, on its way.
AccurateEvent(e) ==
  e.type = "deleted" =>
    /\ e.audience.users \subseteq e.witness.may
    /\ ~e.audience.public => e.witness.steady \subseteq e.audience.users

EventsAccurate ==
  /\ \A e \in queue : AccurateEvent(e)
  /\ \A b \in Bridges : AccurateEvent(event[b])

AudienceInv ==
  /\ TypeOK
  /\ \A r \in Resolvers : Accurate(r)
  /\ EventsAccurate

\* Changing who shares the process keeps what a resolver knows accurate.
LEMMA WatchedAccurate ==
  ASSUME TypeOK, NEW r \in Resolvers, Accurate(r),
         pc'[r] = pc[r], audience'[r] = audience[r], Told(r)' = Told(r),
         witness'[r] = Watched[r]
  PROVE  Accurate(r)'
<1>1. CASE Resolving(r)
  <2>1. witness'[r] = [may |-> witness[r].may \cup Entitled',
                       throughout |-> witness[r].throughout \cap Entitled',
                       steady |-> witness[r].steady \cap Undisturbed]
    BY <1>1 DEF Watched
  <2>2. /\ witness'[r].may = witness[r].may \cup Entitled'
        /\ witness'[r].steady = witness[r].steady \cap Undisturbed
    BY <2>1
  <2>3. NothingTold(r)' /\ SeesEntitled(r)' /\ HoldsEntitled(r)'
    BY <2>2 DEF Accurate, NothingTold, SeesEntitled, HoldsEntitled
  <2>4. ASSUME NEW roles, WillBeFound(r, roles)
        PROVE  WillBeFound(r, roles)'
    BY <2>2, <2>4 DEF WillBeFound, Undisturbed
  <2>5. HoldsSteady(r)'
    BY <1>1, <2>4 DEF Accurate, HoldsSteady, Resolving
  <2>. QED BY <2>3, <2>5 DEF Accurate
<1>2. CASE ~Resolving(r)
  <2>1. witness'[r] = witness[r]
    BY <1>2 DEF Watched
  <2>. QED
    BY <1>2, <2>1 DEF Accurate, NothingTold, SeesEntitled, HoldsEntitled,
         HoldsSteady, Resolving
<1>. QED BY <1>1, <1>2

\* So does the step of another actor that leaves sharing alone.
LEMMA StutterAccurate ==
  ASSUME NEW r \in Resolvers, Accurate(r), UNCHANGED sharing,
         pc'[r] = pc[r], audience'[r] = audience[r], Told(r)' = Told(r),
         witness'[r] = witness[r]
  PROVE  Accurate(r)'
<1>1. Entitled' = Entitled
  BY DEF Entitled, sharing
<1>2. UNCHANGED <<role, active>>
  BY DEF sharing
<1>. QED
  BY <1>1, <1>2 DEF Accurate, NothingTold, SeesEntitled, HoldsEntitled,
     HoldsSteady, WillBeFound, Resolving

\* A caller that is done knows nothing.
LEMMA EndsAccurate ==
  ASSUME TypeOK, NEW r \in Resolvers, Ends(r)
  PROVE  Accurate(r)'
<1>1. pc'[r] = "idle" /\ audience'[r] = Nobody
  BY DEF TypeOK, Ends
<1>2. Told(r)' = {}
  BY DEF Told, Ends
<1>. QED
  BY <1>1, <1>2 DEF Accurate, NothingTold, SeesEntitled, HoldsEntitled,
     HoldsSteady, Resolving, Nobody

\* Only r moves.
Others(r) ==
  \A o \in Resolvers \ {r} :
    /\ pc'[o] = pc[o]
    /\ audience'[o] = audience[o]
    /\ Told(o)' = Told(o)

OthersKeep(r) == \A o \in Resolvers \ {r} : witness'[o] = witness[o]

LEMMA EndsOthers ==
  ASSUME TypeOK, NEW r \in Resolvers, Ends(r)
  PROVE  Others(r)
BY DEF TypeOK, Ends, Others, Told

LEMMA OthersAccurate ==
  ASSUME AudienceInv, NEW r \in Resolvers, UNCHANGED sharing, Others(r),
         OthersKeep(r), Accurate(r)'
  PROVE  \A o \in Resolvers : Accurate(o)'
<1>1. ASSUME NEW o \in Resolvers, o # r PROVE Accurate(o)'
  BY <1>1, StutterAccurate DEF AudienceInv, Others, OthersKeep
<1>. QED BY <1>1

\* What is true of the events a bridge drops, keeps or puts back.
LEMMA EventsKept ==
  ASSUME EventsAccurate, queue' \subseteq queue \cup {event[b] : b \in Bridges},
         \A b \in Bridges : event'[b] \in {event[b], NoEvent} \cup queue
  PROVE  EventsAccurate'
BY DEF EventsAccurate, AccurateEvent, NoEvent

LEMMA EndsEvents ==
  ASSUME EventsAccurate, NEW r \in Resolvers, Ends(r), UNCHANGED queue
  PROVE  EventsAccurate'
<1>1. \A b \in Bridges : event'[b] \in {event[b], NoEvent} \cup queue
  BY DEF Ends
<1>. QED BY <1>1, EventsKept

LEMMA FindProcessAccurate ==
  ASSUME AudienceInv, NEW r \in Resolvers, FindProcess(r)
  PROVE  (\A o \in Resolvers : Accurate(o)') /\ EventsAccurate'
<1>1. UNCHANGED sharing /\ UNCHANGED queue
  BY DEF FindProcess, SharingUntouched
<1>2. CASE ~Exists /\ Ends(r) /\ UNCHANGED witness
  BY <1>1, <1>2, EndsAccurate, EndsOthers, OthersAccurate, EndsEvents
     DEF AudienceInv, OthersKeep
<1>3. CASE Exists
  <2>1. UNCHANGED <<event, published>> /\ Entitled' = Entitled
    BY <1>1, <1>3 DEF FindProcess, Entitled, sharing
  <2>2. /\ witness'[r] = [may |-> Entitled, throughout |-> Entitled,
                          steady |-> Entitled]
        /\ OthersKeep(r)
    BY <1>3 DEF FindProcess, AudienceInv, TypeOK, OthersKeep
  <2>3. pc[r] = "find" /\ Told(r) = {} /\ Told(r)' = {}
    BY <2>1, <1>3 DEF FindProcess, AudienceInv, Accurate, NothingTold, Told
  <2>4. Others(r)
    BY <1>3, <2>1 DEF FindProcess, Goes, Resolves, Others, Told, AudienceInv, TypeOK
  <2>5. CASE process.public
    <3>1. /\ pc'[r] \in {"publish", "delete"}
          /\ audience'[r] = [public |-> TRUE, users |-> {}]
      BY <1>3, <2>5 DEF FindProcess, Goes, Resolves, Purpose, AudienceInv, TypeOK
    <3>2. Accurate(r)'
      BY <3>1, <2>3 DEF Accurate, NothingTold, SeesEntitled, HoldsEntitled,
           HoldsSteady, Resolving
    <3>. QED
      BY <1>1, <2>1, <2>2, <2>4, <3>2, OthersAccurate, EventsKept DEF AudienceInv
  <2>6. CASE ~process.public
    <3>1. /\ pc'[r] = "editors"
          /\ audience'[r] = [public |-> FALSE,
                             users |-> ActiveOnes({process.owner})]
      BY <1>3, <2>6 DEF FindProcess, Goes, Resolves, AudienceInv, TypeOK
    <3>2. audience'[r].users \subseteq Entitled
      BY <3>1, <1>3 DEF ActiveOnes, Entitled, Exists, AudienceInv, TypeOK, Processes
    <3>3. NothingTold(r)' /\ SeesEntitled(r)' /\ HoldsEntitled(r)'
      BY <3>1, <3>2, <2>1, <2>2, <2>3 DEF NothingTold, SeesEntitled, HoldsEntitled
    <3>4. ASSUME NEW u \in Entitled
          PROVE  u \in audience'[r].users \/ (active[u] /\ role[u] \in {"viewer", "editor"})
      BY <3>1 DEF Entitled, ActiveOnes, AudienceInv, TypeOK, Roles
    <3>5. WillBeFound(r, {"viewer", "editor"})'
      BY <3>4, <2>2, <1>1 DEF WillBeFound, sharing
    <3>6. Accurate(r)'
      BY <3>1, <3>3, <3>5 DEF Accurate, HoldsSteady
    <3>. QED
      BY <1>1, <2>1, <2>2, <2>4, <3>6, OthersAccurate, EventsKept DEF AudienceInv
  <2>. QED BY <2>5, <2>6
<1>. QED BY <1>2, <1>3 DEF FindProcess

\* The users collected are those that hold the role now.
LEMMA CollectsFact ==
  ASSUME TypeOK, NEW r \in Resolvers, NEW wanted \in {"viewer", "editor"},
         Collects(r, wanted)
  PROVE  /\ \A u \in Users : (u \in audience'[r].users) =
                (u \in audience[r].users \/ (active[u] /\ role[u] = wanted))
         /\ audience'[r].users \subseteq audience[r].users \cup Entitled
         /\ audience[r].users \subseteq audience'[r].users
         /\ audience'[r].public = audience[r].public
         /\ \A o \in Resolvers \ {r} : audience'[o] = audience[o]
<1>1. audience'[r] = [audience[r] EXCEPT !.users =
                        @ \cup ActiveOnes({u \in Users : role[u] = wanted})]
  BY DEF Collects, TypeOK
<1>2. audience[r] \in Audiences
  BY DEF TypeOK
<1>3. /\ audience'[r].users = audience[r].users \cup
                                ActiveOnes({u \in Users : role[u] = wanted})
      /\ audience'[r].public = audience[r].public
  BY <1>1, <1>2 DEF Audiences
<1>4. \A o \in Resolvers \ {r} : audience'[o] = audience[o]
  BY DEF Collects, TypeOK
<1>. QED
  BY <1>3, <1>4 DEF ActiveOnes, Entitled

LEMMA ReadRolesAccurate ==
  ASSUME AudienceInv, NEW r \in Resolvers, ReadEditors(r) \/ ReadViewers(r)
  PROVE  (\A o \in Resolvers : Accurate(o)') /\ EventsAccurate'
<1>1. UNCHANGED sharing /\ UNCHANGED <<queue, event, published, witness>>
  BY DEF ReadEditors, ReadViewers, SharingUntouched
<1>2. PICK wanted \in {"viewer", "editor"} :
        /\ Collects(r, wanted)
        /\ wanted = "editor" => pc[r] = "editors" /\ pc'[r] = "viewers"
        /\ wanted = "viewer" => pc[r] = "viewers" /\ pc'[r] = Purpose(r)
  BY DEF ReadEditors, ReadViewers, Goes, AudienceInv, TypeOK
<1>3. \A o \in Resolvers \ {r} : pc'[o] = pc[o]
  BY DEF ReadEditors, ReadViewers, Goes, AudienceInv, TypeOK
<1>4. Accurate(r) /\ TypeOK
  BY DEF AudienceInv
<1>5. Others(r) /\ OthersKeep(r)
  BY <1>1, <1>2, <1>3, <1>4, CollectsFact DEF Others, OthersKeep, Told
<1>6. Resolving(r) /\ Told(r) = {} /\ Told(r)' = {} /\ Entitled' = Entitled
  BY <1>1, <1>2, <1>4 DEF Resolving, Accurate, NothingTold, Told, Entitled, sharing
<1>7. NothingTold(r)' /\ SeesEntitled(r)' /\ HoldsEntitled(r)'
  BY <1>1, <1>2, <1>4, <1>6, CollectsFact
     DEF NothingTold, SeesEntitled, HoldsEntitled, Accurate
<1>8. witness[r].steady \subseteq Users
  BY <1>4 DEF TypeOK, Witnesses
<1>9. CASE wanted = "editor"
  <2>1. WillBeFound(r, {"viewer", "editor"})
    BY <1>2, <1>4, <1>9 DEF Accurate, HoldsSteady
  <2>2. WillBeFound(r, {"viewer"})'
    BY <2>1, <1>1, <1>2, <1>4, <1>8, <1>9, CollectsFact DEF WillBeFound, sharing
  <2>3. HoldsSteady(r)'
    BY <1>2, <1>9, <2>2 DEF HoldsSteady
  <2>. QED
    BY <1>1, <1>5, <1>7, <2>3, OthersAccurate, EventsKept DEF Accurate, AudienceInv
<1>10. CASE wanted = "viewer"
  <2>1. WillBeFound(r, {"viewer"})
    BY <1>2, <1>4, <1>10 DEF Accurate, HoldsSteady
  <2>2. witness[r].steady \subseteq audience'[r].users
    BY <2>1, <1>2, <1>4, <1>8, <1>10, CollectsFact DEF WillBeFound
  <2>3. pc'[r] \in {"publish", "delete"}
    BY <1>2, <1>10 DEF Purpose
  <2>4. HoldsSteady(r)'
    BY <1>1, <2>2, <2>3 DEF HoldsSteady
  <2>. QED
    BY <1>1, <1>5, <1>7, <2>4, OthersAccurate, EventsKept DEF Accurate, AudienceInv
<1>. QED BY <1>9, <1>10

\* Everything that clients and administrators do to sharing.
LEMMA SharingAccurate ==
  ASSUME AudienceInv, UNCHANGED handlers, witness' = Watched
  PROVE  \A r \in Resolvers : Accurate(r)'
<1>1. ASSUME NEW r \in Resolvers PROVE Accurate(r)'
  <2>1. pc'[r] = pc[r] /\ audience'[r] = audience[r] /\ Told(r)' = Told(r)
    BY DEF handlers, Told
  <2>. QED BY <2>1, WatchedAccurate DEF AudienceInv
<1>. QED BY <1>1

LEMMA AnnouncesAccurate ==
  ASSUME EventsAccurate, NEW type, Announces(type, Nobody, NoWitness),
         type # "deleted", UNCHANGED event
  PROVE  EventsAccurate'
BY DEF EventsAccurate, AccurateEvent, Announces

LEMMA DeleteRowAccurate ==
  ASSUME AudienceInv, NEW d \in Deleters, DeleteRow(d)
  PROVE  (\A o \in Resolvers : Accurate(o)') /\ EventsAccurate'
<1>1. d \in Resolvers /\ d \notin Bridges /\ TypeOK
  BY UsersAssumption DEF Resolvers, AudienceInv
<1>2. Ends(d) /\ pc[d] = "delete" /\ Announces("deleted", audience[d], witness[d])
  BY DEF DeleteRow
<1>3. ASSUME NEW o \in Resolvers, o # d PROVE Accurate(o)'
  <2>1. witness'[o] = Watched[o]
    BY <1>3 DEF DeleteRow, Watched
  <2>2. pc'[o] = pc[o] /\ audience'[o] = audience[o] /\ Told(o)' = Told(o)
    BY <1>1, <1>2, <1>3, EndsOthers DEF Others
  <2>. QED
    BY <2>1, <2>2, WatchedAccurate DEF AudienceInv
<1>4. Accurate(d)'
  BY <1>1, <1>2, EndsAccurate
<1>5. /\ audience[d].users \subseteq witness[d].may
      /\ ~audience[d].public => witness[d].steady \subseteq audience[d].users
  BY <1>1, <1>2 DEF AudienceInv, Accurate, HoldsEntitled, HoldsSteady
<1>6. \A e \in queue' : AccurateEvent(e)
  BY <1>2, <1>5 DEF Announces, AccurateEvent, AudienceInv, EventsAccurate
<1>7. \A b \in Bridges : event'[b] = event[b]
  BY <1>1, <1>2 DEF Ends
<1>. QED
  BY <1>3, <1>4, <1>6, <1>7 DEF EventsAccurate, AudienceInv

\* An end that keeps the queue, or puts the handled event back into it.
LEMMA EndBridgingAccurate ==
  ASSUME AudienceInv, NEW b \in Bridges, EndBridging(b),
         queue' \in {queue, queue \cup {event[b]}}
  PROVE  (\A o \in Resolvers : Accurate(o)') /\ EventsAccurate'
<1>1. b \in Resolvers /\ TypeOK /\ Ends(b) /\ UNCHANGED sharing /\ OthersKeep(b)
  BY DEF Resolvers, AudienceInv, EndBridging, OthersKeep, TypeOK
<1>2. \A c \in Bridges : event'[c] \in {event[c], NoEvent} \cup queue
  BY <1>1 DEF Ends
<1>3. queue' \subseteq queue \cup {event[c] : c \in Bridges}
  OBVIOUS
<1>. QED
  BY <1>1, <1>2, <1>3, EndsAccurate, EndsOthers, OthersAccurate, EventsKept
     DEF AudienceInv

LEMMA TakeAccurate ==
  ASSUME AudienceInv, NEW b \in Bridges, NEW e \in queue, Take(b, e),
         queue' \subseteq queue
  PROVE  (\A o \in Resolvers : Accurate(o)') /\ EventsAccurate'
<1>1. b \in Resolvers /\ TypeOK /\ Accurate(b) /\ AccurateEvent(e)
  BY DEF Resolvers, AudienceInv, EventsAccurate
<1>2. UNCHANGED sharing /\ UNCHANGED published /\ pc[b] = "idle"
  BY DEF Take, Goes
<1>3. Told(b) = {} /\ Told(b)' = {}
  BY <1>1, <1>2 DEF Accurate, NothingTold, Told
<1>4. Others(b) /\ OthersKeep(b)
  BY <1>1, <1>2 DEF Take, Goes, Others, OthersKeep, Told, TypeOK
<1>5. \A c \in Bridges : event'[c] \in {event[c], NoEvent} \cup queue
  BY <1>1 DEF Take, TypeOK
<1>6. CASE e.type = "deleted" /\ pc'[b] = "publish" /\ audience'[b] = e.audience
             /\ witness'[b] = e.witness
  <2>1. HoldsSteady(b)'
    BY <1>1, <1>6 DEF AccurateEvent, HoldsSteady
  <2>2. NothingTold(b)' /\ SeesEntitled(b)' /\ HoldsEntitled(b)'
    BY <1>1, <1>3, <1>6 DEF AccurateEvent, NothingTold, SeesEntitled,
         HoldsEntitled, Resolving
  <2>. QED
    BY <1>1, <1>2, <1>4, <1>5, <2>1, <2>2, OthersAccurate, EventsKept
       DEF AudienceInv, Accurate
<1>7. CASE pc'[b] \in {"idle", "find"} /\ UNCHANGED <<audience, witness>>
  <2>1. Accurate(b)'
    BY <1>1, <1>3, <1>7 DEF Accurate, NothingTold, SeesEntitled, HoldsEntitled,
         HoldsSteady, Resolving
  <2>. QED
    BY <1>1, <1>2, <1>4, <1>5, <2>1, OthersAccurate, EventsKept DEF AudienceInv
<1>. QED
  BY <1>1, <1>6, <1>7 DEF Take, Goes, TypeOK

LEMMA PublishAccurate ==
  ASSUME AudienceInv, NEW b \in Bridges, NEW u \in Users,
         PublishToUser(b, u) \/ SkipUser(b, u)
  PROVE  (\A o \in Resolvers : Accurate(o)') /\ EventsAccurate'
<1>1. b \in Resolvers /\ TypeOK /\ Accurate(b)
  BY DEF Resolvers, AudienceInv
<1>2. /\ UNCHANGED sharing /\ UNCHANGED <<queue, pc, event, witness>>
      /\ pc[b] = "publish"
      /\ u \in audience[b].users
  BY DEF PublishToUser, SkipUser, SharingUntouched
<1>3. audience[b] \in Audiences
  BY <1>1 DEF TypeOK
<1>4. audience' = [audience EXCEPT ![b].users = audience[b].users \ {u}]
  BY DEF PublishToUser, SkipUser
<1>5. /\ audience'[b].users = audience[b].users \ {u}
      /\ audience'[b].public = audience[b].public
  <2>1. audience'[b] = [audience[b] EXCEPT !.users = audience[b].users \ {u}]
    BY <1>1, <1>4 DEF TypeOK
  <2>. QED BY <1>3, <2>1 DEF Audiences
<1>6. \/ u \in Addressable /\ Told(b)' = Told(b) \cup {u}
      \/ u \notin Addressable /\ Told(b)' = Told(b)
  BY <1>1 DEF PublishToUser, SkipUser, Told, TypeOK
<1>7. Others(b) /\ OthersKeep(b)
  BY <1>1, <1>2, <1>4 DEF PublishToUser, SkipUser, Others, OthersKeep, Told, TypeOK
<1>8. NothingTold(b)' /\ SeesEntitled(b)' /\ HoldsEntitled(b)'
  BY <1>1, <1>2, <1>5, <1>6 DEF Accurate, NothingTold, SeesEntitled,
     HoldsEntitled, Resolving
<1>9. HoldsSteady(b)'
  BY <1>1, <1>2, <1>5, <1>6 DEF Accurate, HoldsSteady
<1>. QED
  BY <1>1, <1>2, <1>7, <1>8, <1>9, OthersAccurate, EventsKept
     DEF AudienceInv, Accurate

LEMMA AudienceInvKept ==
  ASSUME AudienceInv, [Next]_vars
  PROVE  (\A o \in Resolvers : Accurate(o)') /\ EventsAccurate'
<1>1. ASSUME NEW u \in Users, NEW p \in BOOLEAN,
             CreateProcess(u, p) \/ UpdateProcess(u, p)
      PROVE  (\A o \in Resolvers : Accurate(o)') /\ EventsAccurate'
  BY <1>1, SharingAccurate, AnnouncesAccurate
     DEF CreateProcess, UpdateProcess, AudienceInv, handlers
<1>2. ASSUME NEW t \in {"deployed", "deployment_failed"}, EndDeployment(t)
      PROVE  (\A o \in Resolvers : Accurate(o)') /\ EventsAccurate'
  <2>1. UNCHANGED <<sharing, pc, event, audience, published, witness>>
    BY <1>2 DEF EndDeployment, handlers
  <2>2. \A o \in Resolvers : Accurate(o)'
    BY <2>1, StutterAccurate DEF AudienceInv, Told
  <2>. QED
    BY <1>2, <2>1, <2>2, AnnouncesAccurate DEF EndDeployment, AudienceInv
<1>3. ASSUME NEW u \in Users,
             \/ \E r \in {"viewer", "editor"} : GrantAccess(u, r)
             \/ RevokeAccess(u)
             \/ \E value \in BOOLEAN : SetActive(u, value)
      PROVE  (\A o \in Resolvers : Accurate(o)') /\ EventsAccurate'
  <2>1. UNCHANGED handlers /\ UNCHANGED queue /\ witness' = Watched
    BY <1>3 DEF GrantAccess, RevokeAccess, SetActive
  <2>2. UNCHANGED event
    BY <2>1 DEF handlers
  <2>. QED
    BY <2>1, <2>2, SharingAccurate, EventsKept DEF AudienceInv
<1>4. ASSUME NEW d \in Deleters, StartDelete(d)
      PROVE  (\A o \in Resolvers : Accurate(o)') /\ EventsAccurate'
  <2>1. d \in Resolvers /\ TypeOK
    BY DEF Resolvers, AudienceInv
  <2>2. /\ UNCHANGED sharing
        /\ UNCHANGED <<queue, event, audience, published, witness>>
        /\ pc[d] = "idle" /\ pc'[d] = "find"
        /\ Others(d) /\ OthersKeep(d)
    BY <1>4, <2>1 DEF StartDelete, Goes, Others, OthersKeep, Told, TypeOK
  <2>3. Accurate(d)'
    BY <2>1, <2>2 DEF AudienceInv, Accurate, NothingTold, SeesEntitled,
         HoldsEntitled, HoldsSteady, Resolving, Told
  <2>. QED
    BY <2>1, <2>2, <2>3, OthersAccurate, EventsKept DEF AudienceInv
<1>5. ASSUME NEW d \in Deleters, RefuseDelete(d)
      PROVE  (\A o \in Resolvers : Accurate(o)') /\ EventsAccurate'
  <2>1. d \in Resolvers /\ TypeOK /\ Ends(d) /\ UNCHANGED sharing
        /\ UNCHANGED queue /\ OthersKeep(d)
    BY <1>5 DEF Resolvers, AudienceInv, RefuseDelete, OthersKeep,
         SharingUntouched, TypeOK
  <2>. QED
    BY <2>1, EndsAccurate, EndsOthers, OthersAccurate, EndsEvents DEF AudienceInv
<1>6. ASSUME NEW r \in Resolvers, FindProcess(r) \/ ReadEditors(r) \/ ReadViewers(r)
      PROVE  (\A o \in Resolvers : Accurate(o)') /\ EventsAccurate'
  BY <1>6, FindProcessAccurate, ReadRolesAccurate
<1>7. ASSUME NEW b \in Bridges, ReceiveEvent(b) \/ ReceiveDuplicate(b)
      PROVE  (\A o \in Resolvers : Accurate(o)') /\ EventsAccurate'
  <2>1. PICK e \in queue : Take(b, e) /\ queue' \subseteq queue
    BY <1>7 DEF ReceiveEvent, ReceiveDuplicate
  <2>. QED BY <2>1, TakeAccurate
<1>8. ASSUME NEW b \in Bridges,
             \/ PublishPublic(b) \/ FinishBridging(b) \/ FailPublish(b)
             \/ CrashBridge(b)
      PROVE  (\A o \in Resolvers : Accurate(o)') /\ EventsAccurate'
  BY <1>8, EndBridgingAccurate
     DEF PublishPublic, FinishBridging, FailPublish, CrashBridge
<1>9. ASSUME NEW e \in queue, LoseEvent(e)
      PROVE  (\A o \in Resolvers : Accurate(o)') /\ EventsAccurate'
  <2>1. UNCHANGED <<sharing, pc, event, audience, published, witness>>
    BY <1>9 DEF LoseEvent, handlers
  <2>2. queue' \subseteq queue
    BY <1>9 DEF LoseEvent
  <2>3. \A o \in Resolvers : Accurate(o)'
    BY <2>1, StutterAccurate DEF AudienceInv, Told
  <2>. QED
    BY <2>1, <2>2, <2>3, EventsKept DEF AudienceInv
<1>10. CASE RemoveSilently
  <2>1. UNCHANGED handlers /\ UNCHANGED queue /\ witness' = Watched
    BY <1>10 DEF RemoveSilently
  <2>2. UNCHANGED event
    BY <2>1 DEF handlers
  <2>. QED
    BY <2>1, <2>2, SharingAccurate, EventsKept DEF AudienceInv
<1>11. CASE UNCHANGED vars
  <2>1. UNCHANGED <<sharing, pc, event, audience, published, witness, queue>>
    BY <1>11 DEF vars, sharing
  <2>2. \A o \in Resolvers : Accurate(o)'
    BY <2>1, StutterAccurate DEF AudienceInv, Told
  <2>. QED
    BY <2>1, <2>2, EventsKept DEF AudienceInv
<1>. QED
  BY <1>1, <1>2, <1>3, <1>4, <1>5, <1>6, <1>7, <1>8, <1>9, <1>10, <1>11, DeleteRowAccurate,
     PublishAccurate DEF Next, BridgeStep, Resolvers

LEMMA AudienceInvariant == Spec => []AudienceInv
<1>1. Init => \A r \in Resolvers : Accurate(r)
  BY DEF Init, Accurate, NothingTold, SeesEntitled, HoldsEntitled, HoldsSteady,
     Resolving, Told, Nobody
<1>2. Init => EventsAccurate
  BY DEF Init, EventsAccurate, AccurateEvent, NoEvent
<1>3. TypeOK /\ TypeOK' /\ AudienceInv /\ [Next]_vars => AudienceInv'
  BY AudienceInvKept DEF AudienceInv
<1>4. Init /\ TypeOK => AudienceInv
  BY <1>1, <1>2 DEF AudienceInv
<1>. QED
  BY <1>3, <1>4, TypeCorrect, PTL DEF Spec

\* Whatever happens to sharing while an audience is resolved, and whatever
\* identifiers are used again, only users that were entitled are told.
THEOREM OnlyEntitled == Spec => []OnlyEntitledTold
<1>1. AudienceInv => OnlyEntitledTold
  <2>. SUFFICES ASSUME AudienceInv, NEW b \in Bridges
                PROVE  published[b] \subseteq witness[b].may
    BY DEF OnlyEntitledTold
  <2>. QED
    BY DEF AudienceInv, Accurate, HoldsEntitled, Told, Resolvers
<1>. QED
  BY <1>1, AudienceInvariant, PTL

\* A bridge that is through with a private event has told every addressable
\* user that kept one role during the resolution.
THEOREM NobodyForgotten == Spec => []SteadyUsersTold
<1>1. AudienceInv => SteadyUsersTold
  <2>. SUFFICES ASSUME AudienceInv, NEW b \in Bridges,
                       pc[b] = "publish", audience[b] = Nobody
                PROVE  witness[b].steady \cap Addressable \subseteq published[b]
    BY DEF SteadyUsersTold
  <2>. QED
    BY DEF AudienceInv, Accurate, HoldsSteady, Told, Resolvers, Nobody
<1>. QED
  BY <1>1, AudienceInvariant, PTL

=============================================================================
