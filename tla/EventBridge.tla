---------------------------- MODULE EventBridge ----------------------------
(***************************************************************************)
(* The bridge from potto's internal process events to its public broker.   *)
(*                                                                         *)
(* Workers of the "bridge-to-public" shared subscription receive every     *)
(* internal event of a process, find out who may hear of it, and publish   *)
(* it once on the public topic or once on the topic of each user.  The     *)
(* audience of most events is resolved when the event is bridged; that of  *)
(* a deletion is resolved by whoever deletes, before deleting, and travels *)
(* with the event.  Both use resolve_process_audience, whose three reads   *)
(* (process, editors, viewers) are transactions of their own, so sharing   *)
(* may change between them.                                                *)
(*                                                                         *)
(* The module follows one process identifier.  An event is in the queue    *)
(* from the commit it tells of; the time the wrapper takes to publish it   *)
(* shows as time spent in the queue.                                       *)
(***************************************************************************)
EXTENDS Naturals

CONSTANTS
  Users,        \* user accounts
  NoUser,       \* the owner of a process that does not exist
  Addressable,  \* users whose id is_valid_topic_user_id accepts
  Bridges,      \* handler slots of the "bridge-to-public" consumer group
  Deleters,     \* requests that delete the process
  Faults,       \* the kinds of fault that may happen, among FaultKinds
  MaxChanges,   \* bound on the steps of clients and administrators
  MaxFaults     \* bound on the number of faults

FaultKinds == {"duplicate", "loss", "publish", "crash"}

ASSUME UsersAssumption ==
  /\ NoUser \notin Users
  /\ Addressable \subseteq Users
  /\ Bridges \cap Deleters = {}
ASSUME BoundsAssumption ==
  /\ MaxChanges \in Nat
  /\ MaxFaults \in Nat
  /\ Faults \subseteq FaultKinds

VARIABLES
  process,    \* visibility and owner of the row; NoProcess when there is none
  role,       \* the process-{identifier}:... scope each account holds
  active,     \* is_active of each account
  queue,      \* internal events the consumer group has to handle
  pc,         \* where each bridge and each deleter is
  event,      \* the event each bridge handles
  audience,   \* `audience` of each resolver; bridges take users off it
  published,  \* users each bridge has published its event to
  witness,    \* history: what happened while each audience was resolved
  changes,    \* number of client steps so far, also the id of the next event
  faults,     \* number of faults so far
  harmed      \* history: an event, or the rest of its handling, got lost

sharing   == <<process, role, active>>
handlers  == <<pc, event, audience, published>>
vars == <<process, role, active, queue, pc, event, audience, published,
          witness, changes, faults, harmed>>

Resolvers == Bridges \cup Deleters

Locations == {"idle", "find", "editors", "viewers", "publish", "delete"}

\* One identifier gives an account one role at a time: see GrantAccess.
Roles == {"none", "viewer", "editor"}

\* deployment_failed stands for all the events that are internal only.
ExternalTypes == {"created", "updated", "deleted", "deployed"}
EventTypes == ExternalTypes \cup {"deployment_failed"}

Processes == [public: BOOLEAN, owner: Users \cup {NoUser}]
NoProcess == [public |-> FALSE, owner |-> NoUser]
Exists == process.owner # NoUser

Audiences == [public: BOOLEAN, users: SUBSET Users]
Nobody == [public |-> FALSE, users |-> {}]

\* may: users entitled at some moment of the resolution; throughout: users
\* entitled at all of its moments; steady: those of them whose role, ownership
\* and activity did not change meanwhile.
Witnesses == [may: SUBSET Users, throughout: SUBSET Users, steady: SUBSET Users]
NoWitness == [may |-> {}, throughout |-> {}, steady |-> {}]

\* Only a deletion carries an audience.
Events ==
  {e \in [id: Nat, type: EventTypes, audience: Audiences, witness: Witnesses] :
     e.type # "deleted" => e.audience = Nobody}
NoEvent == [id |-> 0, type |-> "created", audience |-> Nobody,
            witness |-> NoWitness]

Init ==
  /\ process = NoProcess
  /\ role = [u \in Users |-> "none"]
  /\ active = [u \in Users |-> TRUE]
  /\ queue = {}
  /\ pc = [r \in Resolvers |-> "idle"]
  /\ event = [b \in Bridges |-> NoEvent]
  /\ audience = [r \in Resolvers |-> Nobody]
  /\ published = [b \in Bridges |-> {}]
  /\ witness = [r \in Resolvers |-> NoWitness]
  /\ changes = 0
  /\ faults = 0
  /\ harmed = FALSE

-----------------------------------------------------------------------------
(***************************************************************************)
(* History: who is entitled to hear of a private process, and since when.  *)
(***************************************************************************)

\* Accounts that are in use and own the process or share it.
Entitled == {u \in Users : active[u] /\ (process.owner = u \/ role[u] # "none")}

Undisturbed ==
  {u \in Users : /\ active'[u] = active[u]
                 /\ role'[u] = role[u]
                 /\ (process'.owner = u) = (process.owner = u)}

Resolving(r) == pc[r] \in {"editors", "viewers"}

\* The witnesses after a step that changes who is entitled.
Watched ==
  [r \in Resolvers |->
     IF Resolving(r)
       THEN [may |-> witness[r].may \cup Entitled',
             throughout |-> witness[r].throughout \cap Entitled',
             steady |-> witness[r].steady \cap Undisturbed]
       ELSE witness[r]]

-----------------------------------------------------------------------------
(***************************************************************************)
(* Clients and administrators.                                             *)
(***************************************************************************)

Changes ==
  /\ changes < MaxChanges
  /\ changes' = changes + 1
  /\ UNCHANGED <<faults, harmed>>

\* The event that a committed step owes.
Announces(type, aud, wit) ==
  queue' = queue \cup
    {[id |-> changes, type |-> type, audience |-> aud, witness |-> wit]}

CreateProcess(owner, public) ==
  /\ ~Exists
  /\ Changes
  /\ process' = [public |-> public, owner |-> owner]
  /\ Announces("created", Nobody, NoWitness)
  /\ UNCHANGED <<role, active, handlers>>
  /\ witness' = Watched

\* MUTANT: an update is announced with the visibility it gave the process.
UpdateWithAudience(owner, public) ==
  /\ Exists
  /\ Changes
  /\ process' = [public |-> public, owner |-> owner]
  /\ Announces("updated", [public |-> public, users |-> {}], NoWitness)
  /\ UNCHANGED <<role, active, handlers>>
  /\ witness' = Watched

\* An update may hand the process over and may change its visibility.
UpdateProcess(owner, public) ==
  /\ Exists
  /\ Changes
  /\ process' = [public |-> public, owner |-> owner]
  /\ Announces("updated", Nobody, NoWitness)
  /\ UNCHANGED <<role, active, handlers>>
  /\ witness' = Watched

\* The admin view deletes the row, or the owner's account is deleted and its
\* processes with it: there is no event.
RemoveSilently ==
  /\ Exists
  /\ Changes
  /\ process' = NoProcess
  /\ UNCHANGED <<role, active, queue, handlers>>
  /\ witness' = Watched

\* A worker has recorded the outcome of a deployment.
EndDeployment(type) ==
  /\ Exists
  /\ Changes
  /\ Announces(type, Nobody, NoWitness)
  /\ UNCHANGED <<sharing, handlers, witness>>

\* Granting drops the role the account had on the process and adds the new
\* one.  The account is not told, and nothing looks whether the process, read
\* by the caller earlier, is still there.
GrantAccess(u, r) ==
  /\ Changes
  /\ role' = [role EXCEPT ![u] = r]
  /\ UNCHANGED <<process, active, queue, handlers>>
  /\ witness' = Watched

RevokeAccess(u) ==
  /\ Changes
  /\ role' = [role EXCEPT ![u] = "none"]
  /\ UNCHANGED <<process, active, queue, handlers>>
  /\ witness' = Watched

SetActive(u, value) ==
  /\ Changes
  /\ active' = [active EXCEPT ![u] = value]
  /\ UNCHANGED <<process, role, queue, handlers>>
  /\ witness' = Watched

-----------------------------------------------------------------------------
(***************************************************************************)
(* Resolving an audience, for a bridge or for a deleter.                   *)
(***************************************************************************)

SharingUntouched == UNCHANGED <<sharing, queue, changes, faults, harmed>>

Goes(r, from, to) ==
  /\ pc[r] = from
  /\ pc' = [pc EXCEPT ![r] = to]

\* What the caller does with the audience.
Purpose(r) == IF r \in Bridges THEN "publish" ELSE "delete"

\* The caller returns, or fails; what it knew is gone.
Ends(r) ==
  /\ pc' = [pc EXCEPT ![r] = "idle"]
  /\ event' = [b \in Bridges |-> IF b = r THEN NoEvent ELSE event[b]]
  /\ audience' = [audience EXCEPT ![r] = Nobody]
  /\ published' = [b \in Bridges |-> IF b = r THEN {} ELSE published[b]]

Resolves(r, aud) == audience' = [audience EXCEPT ![r] = aud]

\* MUTANT: accounts that are not active are notified too.
AllOfThem(us) == us

ActiveOnes(us) == {u \in us : active[u]}

\* The process and its owner.  A bridge drops an event whose process is gone,
\* a deleter fails; for a public process there is nobody to look for.
FindProcess(r) ==
  /\ pc[r] = "find"
  /\ \/ ~Exists /\ Ends(r) /\ UNCHANGED witness
     \/ /\ Exists
        /\ IF process.public
             THEN /\ Goes(r, "find", Purpose(r))
                  /\ Resolves(r, [public |-> TRUE, users |-> {}])
             ELSE /\ Goes(r, "find", "editors")
                  /\ Resolves(r, [public |-> FALSE,
                                  users |-> ActiveOnes({process.owner})])
        /\ witness' = [witness EXCEPT ![r] =
             [may |-> Entitled, throughout |-> Entitled, steady |-> Entitled]]
        /\ UNCHANGED <<event, published>>
  /\ SharingUntouched

\* The active users that hold the role join the candidates.  can_view_process
\* then keeps those that own the process or hold either role, by the accounts
\* just read: all of them, under the local authorizer.
Collects(r, wanted) ==
  audience' = [audience EXCEPT ![r].users =
                 @ \cup ActiveOnes({u \in Users : role[u] = wanted})]

ReadEditors(r) ==
  /\ Goes(r, "editors", "viewers")
  /\ Collects(r, "editor")
  /\ UNCHANGED <<event, published, witness>>
  /\ SharingUntouched

\* MUTANT: list_resource_viewers is not called.
SkipViewers(r) ==
  /\ Goes(r, "viewers", Purpose(r))
  /\ UNCHANGED <<audience, event, published, witness>>
  /\ SharingUntouched

ReadViewers(r) ==
  /\ Goes(r, "viewers", Purpose(r))
  /\ Collects(r, "viewer")
  /\ UNCHANGED <<event, published, witness>>
  /\ SharingUntouched

-----------------------------------------------------------------------------
(***************************************************************************)
(* Deleting.                                                               *)
(***************************************************************************)

StartDelete(d) ==
  /\ Goes(d, "idle", "find")
  /\ Changes
  /\ UNCHANGED <<sharing, queue, event, audience, published, witness>>

\* The row of the identifier is deleted and the resolved audience travels with
\* the event.
DeleteRow(d) ==
  /\ pc[d] = "delete"
  /\ Exists
  /\ Changes
  /\ process' = NoProcess
  /\ Announces("deleted", audience[d], witness[d])
  /\ Ends(d)
  /\ UNCHANGED <<role, active>>
  /\ witness' = [Watched EXCEPT ![d] = NoWitness]

\* The row is gone, the user may not delete it, or the database fails: no
\* event.
RefuseDelete(d) ==
  /\ pc[d] = "delete"
  /\ Ends(d)
  /\ witness' = [witness EXCEPT ![d] = NoWitness]
  /\ SharingUntouched

-----------------------------------------------------------------------------
(***************************************************************************)
(* Bridging.                                                               *)
(***************************************************************************)

Fault(kind) ==
  /\ kind \in Faults
  /\ faults < MaxFaults
  /\ faults' = faults + 1

\* MUTANT: a deletion is bridged like any other event.
TakeAsAnyEvent(b, e) ==
  /\ Goes(b, "idle", "find")
  /\ event' = [event EXCEPT ![b] = e]
  /\ UNCHANGED <<sharing, audience, published, witness, changes>>

\* Internal events are dropped; a deletion brings its audience; for the others
\* the process is looked up.
Take(b, e) ==
  /\ \/ /\ e.type \notin ExternalTypes
        /\ Goes(b, "idle", "idle")
        /\ UNCHANGED <<event, audience, witness>>
     \/ /\ e.type = "deleted"
        /\ Goes(b, "idle", "publish")
        /\ event' = [event EXCEPT ![b] = e]
        /\ audience' = [audience EXCEPT ![b] = e.audience]
        /\ witness' = [witness EXCEPT ![b] = e.witness]
     \/ /\ e.type \in ExternalTypes \ {"deleted"}
        /\ Goes(b, "idle", "find")
        /\ event' = [event EXCEPT ![b] = e]
        /\ UNCHANGED <<audience, witness>>
  /\ UNCHANGED <<sharing, published, changes>>

ReceiveEvent(b) ==
  \E e \in queue :
    /\ queue' = queue \ {e}
    /\ Take(b, e)
    /\ UNCHANGED <<faults, harmed>>

EndBridging(b) ==
  /\ Ends(b)
  /\ witness' = [witness EXCEPT ![b] = NoWitness]
  /\ UNCHANGED <<sharing, changes>>

PublishPublic(b) ==
  /\ pc[b] = "publish"
  /\ audience[b].public
  /\ EndBridging(b)
  /\ UNCHANGED <<queue, faults, harmed>>

\* The loop over user_ids, in an order the model leaves open.
PublishToUser(b, u) ==
  /\ pc[b] = "publish"
  /\ u \in audience[b].users \cap Addressable
  /\ audience' = [audience EXCEPT ![b].users = @ \ {u}]
  /\ published' = [published EXCEPT ![b] = @ \cup {u}]
  /\ UNCHANGED <<pc, event, witness>>
  /\ SharingUntouched

\* MUTANT: the event goes back to the queue when a user id is unusable.
RequeueOnUnusableId(b, u) ==
  /\ pc[b] = "publish"
  /\ u \in audience[b].users \ Addressable
  /\ queue' = queue \cup {event[b]}
  /\ EndBridging(b)
  /\ UNCHANGED <<faults, harmed>>

\* A user whose id cannot be a topic level is passed over, not published to.
SkipUser(b, u) ==
  /\ pc[b] = "publish"
  /\ u \in audience[b].users \ Addressable
  /\ audience' = [audience EXCEPT ![b].users = @ \ {u}]
  /\ UNCHANGED <<pc, event, published, witness>>
  /\ SharingUntouched

FinishBridging(b) ==
  /\ pc[b] = "publish"
  /\ audience[b] = Nobody
  /\ EndBridging(b)
  /\ UNCHANGED <<queue, faults, harmed>>

BridgeStep(b) ==
  \/ ReceiveEvent(b)
  \/ FindProcess(b)
  \/ ReadEditors(b)
  \/ ReadViewers(b)
  \/ PublishPublic(b)
  \/ \E u \in Users : PublishToUser(b, u)
  \/ \E u \in Users : SkipUser(b, u)
  \/ FinishBridging(b)

-----------------------------------------------------------------------------
(***************************************************************************)
(* Faults.                                                                 *)
(***************************************************************************)

\* QoS 1: the broker delivers an event that it will deliver again.
ReceiveDuplicate(b) ==
  \E e \in queue :
    /\ Take(b, e)
    /\ Fault("duplicate")
    /\ UNCHANGED <<queue, harmed>>

\* The wrapper swallows a failed publish to the internal broker.
LoseEvent(e) ==
  /\ queue' = queue \ {e}
  /\ Fault("loss")
  /\ harmed' = TRUE
  /\ UNCHANGED <<sharing, handlers, witness, changes>>

\* Publishing to the public broker raises and nothing catches it: the rest of
\* the audience is forgotten with the event.
FailPublish(b) ==
  /\ pc[b] = "publish"
  /\ audience[b] # Nobody
  /\ EndBridging(b)
  /\ Fault("publish")
  /\ harmed' = TRUE
  /\ UNCHANGED queue

\* A bridge dies; the broker delivers the event again if it was not
\* acknowledged.  A deleter that dies before its commit leaves no trace.
CrashBridge(b) ==
  /\ pc[b] # "idle"
  /\ EndBridging(b)
  /\ Fault("crash")
  /\ \/ queue' = queue /\ harmed' = TRUE
     \/ queue' = queue \cup {event[b]} /\ UNCHANGED harmed

-----------------------------------------------------------------------------
Next ==
  \/ \E u \in Users, p \in BOOLEAN : CreateProcess(u, p)
  \/ \E u \in Users, p \in BOOLEAN : UpdateProcess(u, p)
  \/ RemoveSilently
  \/ \E t \in {"deployed", "deployment_failed"} : EndDeployment(t)
  \/ \E u \in Users, r \in {"viewer", "editor"} : GrantAccess(u, r)
  \/ \E u \in Users : RevokeAccess(u)
  \/ \E u \in Users, value \in BOOLEAN : SetActive(u, value)
  \/ \E d \in Deleters : \/ StartDelete(d)
                         \/ FindProcess(d)
                         \/ ReadEditors(d)
                         \/ ReadViewers(d)
                         \/ DeleteRow(d)
                         \/ RefuseDelete(d)
  \/ \E b \in Bridges : BridgeStep(b)
  \/ \E b \in Bridges : ReceiveDuplicate(b)
  \/ \E e \in queue : LoseEvent(e)
  \/ \E b \in Bridges : FailPublish(b)
  \/ \E b \in Bridges : CrashBridge(b)

Spec == Init /\ [][Next]_vars

\* A live worker goes on with its handler and takes the next event.
FairSpec == Spec /\ \A b \in Bridges : WF_vars(BridgeStep(b))

-----------------------------------------------------------------------------
(***************************************************************************)
(* Properties.                                                             *)
(***************************************************************************)

\* Every variable stays in its range; in particular "the audience travels with
\* the event" of a deletion and of no other.
TypeOK ==
  /\ process \in Processes
  /\ role \in [Users -> Roles]
  /\ active \in [Users -> BOOLEAN]
  /\ queue \subseteq Events
  /\ pc \in [Resolvers -> Locations]
  /\ event \in [Bridges -> Events]
  /\ audience \in [Resolvers -> Audiences]
  /\ published \in [Bridges -> SUBSET Users]
  /\ witness \in [Resolvers -> Witnesses]
  /\ changes \in Nat
  /\ faults \in Nat
  /\ harmed \in BOOLEAN

\* Events on a private process are only published to "users that are allowed
\* to see" it: whoever is told was entitled at some moment between the first
\* and the last read of the audience, however sharing changed meanwhile and
\* whatever identifier was deleted and used again.
OnlyEntitledTold ==
  \A b \in Bridges : published[b] \subseteq witness[b].may

\* Nobody is forgotten: when a bridge is through with a private event, it has
\* told every addressable user who was entitled by the same role during the
\* whole resolution, for a deletion too, where the resolution was the
\* deleter's.
SteadyUsersTold ==
  \A b \in Bridges :
    pc[b] = "publish" /\ audience[b] = Nobody
      => witness[b].steady \cap Addressable \subseteq published[b]

\* Unless events get lost, a deletion reaches its audience: neither a process
\* created since with the same identifier, nor another user's unusable id,
\* keeps an addressable user of the audience from being told.
DeletionReachesAudience ==
  \A u \in Addressable :
    (\E e \in queue : e.type = "deleted" /\ u \in e.audience.users)
      ~> \/ \E b \in Bridges : event[b].type = "deleted" /\ u \in published[b]
         \/ harmed

\* "A private process you can see is modified": whoever can see the process
\* during the whole resolution is told, also when the role changes.
VisibleThroughoutTold ==
  \A b \in Bridges :
    pc[b] = "publish" /\ audience[b] = Nobody
      => witness[b].throughout \cap Addressable \subseteq published[b]

=============================================================================
