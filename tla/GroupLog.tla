------------------------------ MODULE GroupLog ------------------------------
(***************************************************************************)
(* One group of the app, as every member's device keeps it: the signed     *)
(* operations its users make and its devices exchange, the invitation      *)
(* flow, and the exchange and rotation of sender keys, the handlers of     *)
(* ChatStoreGroups.swift.  GroupApply has what each device computes.       *)
(*                                                                         *)
(* Devices have no server: each applies the operations that reach it.  A   *)
(* message may arrive late, in any order, or never; the session ratchet    *)
(* drops a second copy (ChatStore.swift, isDuplicate).  Handlers run on    *)
(* the main actor without suspending, so one handler is one step.  They    *)
(* save the group last, after their messages have left: a crash in between *)
(* loses the change and keeps the messages.                                *)
(***************************************************************************)
EXTENDS GroupApply

CONSTANTS
    Invitees,           \* the sets of contacts the group may be created with
    Reach,              \* per device: the sets of peers it may be able to send to
    MaxActs,            \* bound: what users do once the group exists, joining apart,
                        \* and crashes before a save, taken together
    NoGroup             \* the device has no such group

ASSUME GroupAssumption == Creator \in Devices /\ Invitees \subseteq SUBSET Devices

VARIABLES
    group,      \* per device: its ChatGroup, or NoGroup
    net,        \* messages under way
    minted,     \* per device: how many sender-key chains it has created
    shipped,    \* <<d, n, p>>: d has sent p its chain n
    chains,     \* <<d, n, p>>: p has installed chain n of d
    acts,       \* how much the users have done
    crashes

vars == <<group, net, minted, shipped, chains, acts, crashes>>

----------------------------------------------------------------------------
(* Saving *)

Contacts(d) == UNION Reach[d]

\* The messages are out; the group is saved, or the app dies before it is.
Finish(d, result, taken) ==
    /\ net' = (net \ taken) \cup result.msgs
    /\ minted' = [minted EXCEPT ![d] = result.n]
    /\ shipped' = shipped \cup {<<d, m.chain, m.to>> : m \in {x \in result.msgs : x.type = "key"}}
    /\ \/ /\ group' = [group EXCEPT ![d] = result.g]
          /\ UNCHANGED crashes
       \/ /\ acts' + crashes < MaxActs
          /\ result.msgs # {}
          /\ crashes' = crashes + 1
          /\ UNCHANGED group

----------------------------------------------------------------------------
(* What a user does *)

Init ==
    /\ group = [d \in Devices |-> NoGroup]
    /\ net = {}
    /\ minted = [d \in Devices |-> 0]
    /\ shipped = {}
    /\ chains = {}
    /\ acts = 0
    /\ crashes = 0

\* Saved before anything is sent.
createGroup(d) ==
    /\ minted[d] = 0
    /\ \E S \in Invitees, reach \in Reach[d] :
        LET op == [epoch |-> 0, parent |-> <<>>, by |-> d,
                   root |-> memberSetRoot([p \in Devices |-> NoRow]), kind |-> <<"create", S>>]
            to == S \cap reach
        IN  /\ S \subseteq Contacts(d)
            /\ Cardinality(S) + 1 <= maxMembers
            /\ group' = [group EXCEPT ![d] =
                    [Founded(op) EXCEPT !.pendingInvitation = FALSE,
                                        !.myCurrentDistributionId = 1,
                                        !.mySkdmRecipients = to,
                                        !.members[d].status = "active"]]
            /\ net' = net \cup {OpMsg(p, op) : p \in to} \cup {KeyMsg(p, d, 1) : p \in to}
            /\ minted' = [minted EXCEPT ![d] = 1]
            /\ shipped' = shipped \cup {<<d, 1, p>> : p \in to}
            /\ UNCHANGED <<chains, acts, crashes>>

Act == acts + crashes < MaxActs /\ acts' = acts + 1

\* The settings and chat screens open only for a group that was joined.
Joined(d) == group[d] # NoGroup /\ ~group[d].pendingInvitation

\* inviteToGroup, removeFromGroup, renameGroup, promoteToAdmin, demoteFromAdmin:
\* sign, apply to the own copy first, send to whoever is then active.
SignAndBroadcast(d, kind) ==
    \E reach \in Reach[d] :
        LET g == group[d]
            op == signOp(d, g, kind)
            acc == apply(g, op, d)
            post == applyPostMutationSideEffects(acc, d, reach, minted[d])
            ops == {OpMsg(p, op) : p \in Others(acc.g, d, reach)}
            snapshot == IF kind[1] = "add" /\ kind[2] \in reach
                        THEN {BootMsg(kind[2], d, acc.g)} ELSE {}
        IN  /\ g.members[d].role = "admin"
            /\ Verdict(g, op, d) = "applied"
            /\ Act
            /\ Finish(d, [post EXCEPT !.msgs = @ \cup ops \cup snapshot], {})
            /\ UNCHANGED chains

inviteToGroup(d, p) ==
    /\ Joined(d) /\ p \in Contacts(d)
    /\ SignAndBroadcast(d, <<"add", p>>)

\* The member list offers these for other members only.
removeFromGroup(d, p) == Joined(d) /\ p # d /\ SignAndBroadcast(d, <<"remove", p>>)

promoteToAdmin(d, p) ==
    /\ Joined(d) /\ p # d /\ group[d].members[p].role = "member"
    /\ SignAndBroadcast(d, <<"promote", p>>)

demoteFromAdmin(d, p) ==
    /\ Joined(d) /\ p # d /\ group[d].members[p].role = "admin"
    /\ SignAndBroadcast(d, <<"demote", p>>)

renameGroup(d, name) ==
    /\ Joined(d) /\ group[d].displayName # name
    /\ SignAndBroadcast(d, <<"rename", name>>)

\* From the settings, or before a message once the chain is old enough.
RotateKey(d) ==
    /\ Act
    /\ Joined(d) /\ d \in activeMembers(group[d])
    /\ \E reach \in Reach[d] : Finish(d, rotateMyGroupChain(group[d], d, reach, minted[d]), {})
    /\ UNCHANGED chains

resendMyKeys(d) ==
    /\ Act
    /\ Joined(d) /\ group[d].myCurrentDistributionId # 0
    /\ \E q \in activeMembers(group[d]) : group[d].members[q].status = "pendingSKDM"
    /\ \E reach \in Reach[d] :
        Finish(d, ensureMySKDMReachesActiveMembers(
                      [group[d] EXCEPT !.mySkdmRecipients = {}], d, reach, minted[d]), {})
    /\ UNCHANGED chains

acceptGroupInvitation(d) ==
    /\ UNCHANGED <<chains, acts>>
    /\ group[d] # NoGroup /\ group[d].pendingInvitation
    /\ d \in activeMembers(group[d])
    /\ \E reach \in Reach[d] :
        Finish(d, enrolMyChainOnFirstJoin([group[d] EXCEPT !.pendingInvitation = FALSE],
                                          d, reach, minted[d]), {})

declineGroupInvitation(d) ==
    /\ Act
    /\ group[d] # NoGroup /\ group[d].pendingInvitation
    /\ group' = [group EXCEPT ![d] = NoGroup]
    /\ UNCHANGED <<net, minted, shipped, chains, crashes>>

\* A last rotation, then the row is deleted here and nowhere else.
leaveGroup(d) ==
    /\ Act
    /\ Joined(d)
    /\ \E reach \in Reach[d] :
        LET last == IF group[d].myCurrentDistributionId # 0
                    THEN rotateMyGroupChain(group[d], d, reach, minted[d])
                    ELSE Result(group[d], {}, minted[d])
        IN  /\ net' = net \cup last.msgs
            /\ minted' = [minted EXCEPT ![d] = last.n]
            /\ shipped' = shipped \cup
                    {<<d, m.chain, m.to>> : m \in {x \in last.msgs : x.type = "key"}}
            /\ group' = [group EXCEPT ![d] = NoGroup]
    /\ UNCHANGED <<chains, crashes>>

----------------------------------------------------------------------------
(* What arrives *)

Take(m) == net' = net \ {m}

\* A Create that founds the group again.
MutCreate(d, m) ==
    /\ m.type = "op" /\ m.op.kind[1] = "create" /\ m.to = d
    /\ Take(m)
    /\ group' = IF m.op.by \in Contacts(d)
                THEN [group EXCEPT ![d] = Founded(m.op)] ELSE group
    /\ UNCHANGED <<minted, shipped, chains, crashes>>

handleCreate(d, m) ==
    /\ m.type = "op" /\ m.op.kind[1] = "create" /\ m.to = d
    /\ Take(m)
    /\ group' = IF group[d] = NoGroup /\ m.op.by \in Contacts(d)
                THEN [group EXCEPT ![d] = Founded(m.op)] ELSE group
    /\ UNCHANGED <<minted, shipped, chains, crashes>>

handleGroupOp(d, m) ==
    /\ m.type = "op" /\ m.op.kind[1] # "create" /\ m.to = d /\ group[d] # NoGroup
    /\ IF Verdict(group[d], m.op, d) = "applied"
       THEN \E reach \in Reach[d] :
                Finish(d, applyPostMutationSideEffects(apply(group[d], m.op, d), d, reach, minted[d]), {m})
       ELSE /\ Take(m)
            /\ group' = [group EXCEPT ![d] = apply(@, m.op, d).g]
            /\ UNCHANGED <<minted, shipped, crashes>>
    /\ UNCHANGED chains

\* An operation or a key for a group the device does not have.
DropUnknownGroup(d, m) ==
    /\ m.type \in {"op", "key"} /\ m.to = d /\ group[d] = NoGroup
    /\ m.type = "op" => m.op.kind[1] # "create"
    /\ Take(m)
    /\ UNCHANGED <<group, minted, shipped, chains, crashes>>

\* A snapshot of the members still in the group.
MutBootstrap(d, m) ==
    /\ m.type = "bootstrap" /\ m.to = d
    /\ Take(m)
    /\ group' = IF group[d] = NoGroup /\ m.from \in Contacts(d)
                THEN [group EXCEPT ![d] = [Bootstrapped(m) EXCEPT
                        !.members = [p \in Devices |->
                            IF @[p].status = "removed" THEN NoRow ELSE @[p]]]]
                ELSE group
    /\ UNCHANGED <<minted, shipped, chains, crashes>>

\* Ignored by a device that has the group, however old its copy is.
handleGroupBootstrap(d, m) ==
    /\ m.type = "bootstrap" /\ m.to = d
    /\ Take(m)
    /\ group' = IF /\ group[d] = NoGroup
                   /\ m.from \in Contacts(d)
                   /\ m.from \in Admins(m)
                   /\ m.members[d].status # "absent"
                THEN [group EXCEPT ![d] = Bootstrapped(m)] ELSE group
    /\ UNCHANGED <<minted, shipped, chains, crashes>>

handleGroupKeyDistribution(d, m) ==
    /\ m.type = "key" /\ m.to = d /\ group[d] # NoGroup
    /\ IF m.from \in activeMembers(group[d])
       THEN /\ chains' = chains \cup {<<m.from, m.chain, d>>}
            /\ \E reach \in Reach[d] :
                Finish(d, applyPostMutationSideEffects(
                            Untouched([group[d] EXCEPT !.members[m.from].status = "active"]),
                            d, reach, minted[d]), {m})
       ELSE /\ Take(m)
            /\ UNCHANGED <<group, minted, shipped, chains, crashes>>

Receive(d, m) ==
    \/ handleCreate(d, m)
    \/ handleGroupOp(d, m)
    \/ DropUnknownGroup(d, m)
    \/ handleGroupBootstrap(d, m)
    \/ handleGroupKeyDistribution(d, m)

Next ==
    \/ createGroup(Creator)
    \/ \E d \in Devices :
        \/ \E p \in Devices :
            \/ inviteToGroup(d, p)
            \/ removeFromGroup(d, p)
            \/ promoteToAdmin(d, p)
            \/ demoteFromAdmin(d, p)
        \/ \E name \in Names : renameGroup(d, name)
        \/ RotateKey(d)
        \/ resendMyKeys(d)
        \/ acceptGroupInvitation(d)
        \/ declineGroupInvitation(d)
        \/ leaveGroup(d)
        \/ UNCHANGED acts /\ \E m \in net : Receive(d, m)

Spec == Init /\ [][Next]_vars

----------------------------------------------------------------------------
(* Properties *)

InGroup == {d \in Devices : group[d] # NoGroup}

\* Two devices with the same last digest hold the same group: the same members
\* with the same roles, and the same name, whether they replayed the log, took
\* operations from the queue or started from a snapshot.
SameLogSameGroup ==
    \A d, e \in InGroup : group[d].lastOpDigest = group[e].lastOpDigest =>
        /\ memberSetRoot(group[d].members) = memberSetRoot(group[e].members)
        /\ group[d].displayName = group[e].displayName

\* replayPending leaves nothing behind that could be applied: whatever waits in
\* pendingOps waits for an operation this device has not seen.
NothingAppliableWaits ==
    \A d \in InGroup : \A i \in DOMAIN group[d].pendingOps :
        group[d].pendingOps[i].epoch > group[d].currentEpoch + 1

\* A device that has seen a member removed no longer sends under a chain that
\* it ever gave to that member (rotation on remove).  Only a crash can come
\* between: a re-invitation that was sent and not saved has given the key away.
RemovedHoldsNoKey ==
    crashes = 0 => \A d \in InGroup, p \in Devices :
        group[d].members[p].status = "removed" =>
            <<d, group[d].myCurrentDistributionId, p>> \notin shipped

\* While a device keeps the group its log only grows: the history a digest
\* commits to is never replaced by another branch.
LogOnlyGrows ==
    [][\A d \in Devices :
        (group[d] # NoGroup /\ group'[d] # NoGroup) =>
            LET log == group[d].lastOpDigest
                now == group'[d].lastOpDigest
            IN  Len(log) <= Len(now) /\ SubSeq(now, 1, Len(log)) = log]_vars

\* What the warning tells the user: some one member signed two different
\* operations for the epoch of the refused one.
WarningMeansEquivocation ==
    \A m \in net : (m.type = "op" /\ group[m.to] # NoGroup) =>
        (Verdict(group[m.to], m.op, m.to) = "equivocation" =>
            \E e \in 1..Len(group[m.to].lastOpDigest) :
                /\ group[m.to].lastOpDigest[e][1] = m.op.epoch
                /\ group[m.to].lastOpDigest[e][2] = m.op.by)

\* What createGroup's comment says of the Create and the key it sends, that they
\* may be processed in either order: once everything has arrived, two members
\* who have both joined and agree on the log can read each other.
KeysAreReciprocal ==
    net = {} => \A d, e \in InGroup :
        (/\ Joined(d) /\ Joined(e) /\ d # e
         /\ group[d].lastOpDigest = group[e].lastOpDigest
         /\ {d, e} \subseteq activeMembers(group[d]))
            => <<d, group[d].myCurrentDistributionId, e>> \in chains

=============================================================================
