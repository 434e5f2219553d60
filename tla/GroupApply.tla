----------------------------- MODULE GroupApply -----------------------------
(***************************************************************************)
(* What one device makes of a group: the verdict on a signed operation,    *)
(* its effect and the queue of operations that arrived too early, of       *)
(* GroupApply.swift, and the keys and messages that follow a change, of    *)
(* ChatStoreGroups.swift.  These are functions of the device's copy; who   *)
(* calls them, and what is saved and sent, is in GroupLog.                 *)
(*                                                                         *)
(* A digest is the history it commits to: the sequence of all operations   *)
(* up to the one it is the hash of.  Signatures are of honest devices.     *)
(***************************************************************************)
EXTENDS Integers, FiniteSets, Sequences, TLC

CONSTANTS
    Devices,            \* identities, one device each
    Creator,            \* who creates the group
    Names,              \* display names a rename may choose
    FirstName,          \* the name the group is created with
    maxMembers,
    pendingOpsCap,
    pendingOpsPerOperatorCap,
    recentOpDigestsWindow

----------------------------------------------------------------------------
(* Members, operations and digests *)

Row(role, epoch, by) ==
    [role |-> role, joinedAtEpoch |-> epoch, status |-> "pendingSKDM", addedBy |-> by]

activeMembers(g) == {p \in Devices : g.members[p].status \in {"active", "pendingSKDM"}}

Admins(g) == {p \in activeMembers(g) : g.members[p].role = "admin"}

\* active and pendingSKDM hash alike; the display name is not hashed.
memberSetRoot(members) ==
    [p \in {q \in Devices : members[q].status # "absent"} |->
        <<members[p].role, members[p].joinedAtEpoch,
          members[p].status = "removed", members[p].addedBy>>]

Digest(op) == Append(op.parent, <<op.epoch, op.by, op.root, op.kind>>)

signOp(d, g, kind) ==
    [epoch |-> g.currentEpoch + 1, parent |-> g.lastOpDigest, by |-> d,
     root |-> memberSetRoot(g.members), kind |-> kind]

Target(op) == op.kind[2]

----------------------------------------------------------------------------
(* GroupApply: the verdict on one operation *)

isAuthorised(g, op) ==
    op.by \in IF op.kind[1] = "rotate" THEN activeMembers(g) ELSE Admins(g)

Mutates(g, op) ==
    CASE op.kind[1] = "add" -> /\ Target(op) \notin activeMembers(g)
                               /\ Cardinality(activeMembers(g)) < maxMembers
      [] op.kind[1] \in {"remove", "demote"} -> /\ Target(op) \in activeMembers(g)
                                                /\ Admins(g) # {Target(op)}
      [] op.kind[1] = "promote" -> Target(op) \in activeMembers(g)
      [] OTHER -> TRUE

\* Of an operation at the next epoch, fresh or parked.
NextVerdict(g, op) ==
    IF op.parent # g.lastOpDigest THEN "equivocation"
    ELSE IF ~isAuthorised(g, op) THEN "authorization"
    ELSE IF op.root # memberSetRoot(g.members) THEN "memberSetMismatch"
    ELSE IF ~Mutates(g, op) THEN "malformed"
    ELSE "applied"

PreJoin(g, op, me) ==
    g.members[me].status # "absent" /\ op.epoch < g.members[me].joinedAtEpoch

Diverges(g, op) ==
    op.epoch \in DOMAIN g.recentOpDigests /\ g.recentOpDigests[op.epoch] # Digest(op)

Verdict(g, op, me) ==
    CASE op.epoch > g.currentEpoch + 1 -> "queued"
      [] op.epoch = g.currentEpoch + 1 -> NextVerdict(g, op)
      [] OTHER -> IF PreJoin(g, op, me) THEN "preJoinHistory"
                  ELSE IF Diverges(g, op) THEN "equivocation"
                  ELSE "duplicate"

----------------------------------------------------------------------------
(* GroupApply: the effect of an operation *)

recordDigest(recent, digest, epoch) ==
    LET grown == (epoch :> digest) @@ recent
        kept == {e \in DOMAIN grown : e > epoch - recentOpDigestsWindow}
    IN  IF Cardinality(DOMAIN grown) <= recentOpDigestsWindow THEN grown
        ELSE [e \in kept |-> grown[e]]

executeMutation(g, op) ==
    LET p == Target(op)
    IN  CASE op.kind[1] = "add"     -> [g EXCEPT !.members[p] = Row("member", op.epoch, op.by)]
          [] op.kind[1] = "remove"  -> [g EXCEPT !.members[p].status = "removed",
                                                 !.mySkdmRecipients = @ \ {p}]
          [] op.kind[1] = "promote" -> [g EXCEPT !.members[p].role = "admin"]
          [] op.kind[1] = "demote"  -> [g EXCEPT !.members[p].role = "member"]
          [] op.kind[1] = "rename"  -> [g EXCEPT !.displayName = p]
          [] OTHER                  -> g

\* A group under change with the side effects collected so far.
Untouched(g) == [g |-> g, rotate |-> FALSE, clear |-> FALSE]

Land(acc, op, me) ==
    LET g == [executeMutation(acc.g, op) EXCEPT
                 !.currentEpoch = op.epoch, !.lastOpDigest = Digest(op),
                 !.recentOpDigests = recordDigest(@, Digest(op), op.epoch)]
        removes == op.kind[1] = "remove"
    IN  [g |-> g,
         rotate |-> acc.rotate \/ (removes /\ Target(op) # me /\ me \in activeMembers(g)),
         clear |-> acc.clear \/ (removes /\ Target(op) = me)]

\* The parked operations by epoch, those of one epoch in the order they came.
Insert(s, op) ==
    LET k == CHOOSE n \in 0 .. Len(s) :
                 \A j \in 1 .. Len(s) : j <= n <=> s[j].epoch <= op.epoch
    IN  [j \in 1 .. Len(s) + 1 |-> IF j <= k THEN s[j] ELSE IF j = k + 1 THEN op ELSE s[j - 1]]

InEpochOrder(ops) ==
    LET sorted[i \in 0 .. Len(ops)] ==
            IF i = 0 THEN <<>> ELSE Insert(sorted[i - 1], ops[i])
    IN  sorted[Len(ops)]

\* A parked operation is stale and dropped, next and tried once, or still
\* early and kept.
Retry(acc, op, me) ==
    CASE op.epoch <= acc.g.currentEpoch -> acc
      [] op.epoch = acc.g.currentEpoch + 1 ->
            IF NextVerdict(acc.g, op) = "applied" THEN Land(acc, op, me) ELSE acc
      [] OTHER -> [acc EXCEPT !.g.pendingOps = Append(@, op)]

replayPending(acc, me) ==
    LET ops == InEpochOrder(acc.g.pendingOps)
        after[i \in 0 .. Len(ops)] ==
            IF i = 0 THEN [acc EXCEPT !.g.pendingOps = <<>>]
            ELSE Retry(after[i - 1], ops[i], me)
    IN  after[Len(ops)]

queuePending(g, op) ==
    LET own == SelectSeq(g.pendingOps, LAMBDA x : x.by = op.by)
    IN  IF \/ Len(g.pendingOps) >= pendingOpsCap
           \/ Len(own) >= pendingOpsPerOperatorCap
           \/ \E i \in DOMAIN g.pendingOps : g.pendingOps[i] = op
        THEN g
        ELSE [g EXCEPT !.pendingOps = Append(@, op)]

\* An apply that leaves the queue alone.
MutApply(g, op, me) ==
    CASE Verdict(g, op, me) = "applied" -> Land(Untouched(g), op, me)
      [] Verdict(g, op, me) = "queued" -> Untouched(queuePending(g, op))
      [] OTHER -> Untouched(g)

apply(g, op, me) ==
    CASE Verdict(g, op, me) = "applied" -> replayPending(Land(Untouched(g), op, me), me)
      [] Verdict(g, op, me) = "queued" -> Untouched(queuePending(g, op))
      [] OTHER -> Untouched(g)

----------------------------------------------------------------------------
(* A new copy: from the Create, or from a snapshot *)

NoRow == [role |-> "none", joinedAtEpoch |-> 0, status |-> "absent", addedBy |-> Creator]

\* ChatGroup.create(fromCreate:), the same for the creator and the invited.
Founded(op) ==
    [members |-> [p \in Devices |->
                     IF p = op.by THEN Row("admin", 0, op.by)
                     ELSE IF p \in Target(op) THEN Row("member", 0, op.by)
                     ELSE NoRow],
     displayName |-> FirstName, currentEpoch |-> 0, lastOpDigest |-> Digest(op),
     recentOpDigests |-> (0 :> Digest(op)), pendingOps |-> <<>>,
     myCurrentDistributionId |-> 0, mySkdmRecipients |-> {}, pendingInvitation |-> TRUE]

Bootstrapped(m) ==
    [members |-> m.members, displayName |-> m.displayName,
     currentEpoch |-> m.currentEpoch, lastOpDigest |-> m.lastOpDigest,
     recentOpDigests |-> (m.currentEpoch :> m.lastOpDigest), pendingOps |-> <<>>,
     myCurrentDistributionId |-> 0, mySkdmRecipients |-> {}, pendingInvitation |-> TRUE]

----------------------------------------------------------------------------
(* Messages, and what follows a change: keys to new members, a new chain *)

OpMsg(p, op) == [type |-> "op", to |-> p, op |-> op]
KeyMsg(p, d, n) == [type |-> "key", to |-> p, from |-> d, chain |-> n]
BootMsg(p, d, g) ==
    [type |-> "bootstrap", to |-> p, from |-> d, members |-> g.members,
     displayName |-> g.displayName, currentEpoch |-> g.currentEpoch,
     lastOpDigest |-> g.lastOpDigest]

\* The outcome of a handler: the group, the messages sent, the chains created.
Result(g, msgs, n) == [g |-> g, msgs |-> msgs, n |-> n]

Others(g, d, reach) == (activeMembers(g) \ {d}) \cap reach

rotateMyGroupChain(g, d, reach, n) ==
    LET op == signOp(d, g, <<"rotate", n + 1>>)
        h == apply(g, op, d).g
        to == Others(h, d, reach)
    IN  IF d \notin activeMembers(g) THEN Result(g, {}, n)
        ELSE IF Verdict(g, op, d) # "applied" THEN Result(g, {}, n + 1)
        ELSE Result([h EXCEPT !.myCurrentDistributionId = n + 1, !.mySkdmRecipients = to],
                    {OpMsg(p, op) : p \in to} \cup {KeyMsg(p, d, n + 1) : p \in to}, n + 1)

ensureMySKDMReachesActiveMembers(g, d, reach, n) ==
    LET needs == Others(g, d, reach) \ g.mySkdmRecipients
    IN  IF g.myCurrentDistributionId = 0 THEN Result(g, {}, n)
        ELSE Result([g EXCEPT !.mySkdmRecipients = @ \cup needs],
                    {KeyMsg(p, d, g.myCurrentDistributionId) : p \in needs}, n)

enrolMyChainOnFirstJoin(g, d, reach, n) ==
    LET to == Others(g, d, reach)
    IN  IF g.myCurrentDistributionId # 0 THEN Result(g, {}, n)
        ELSE Result([g EXCEPT !.myCurrentDistributionId = n + 1, !.mySkdmRecipients = to,
                              !.members[d].status = "active"],
                    {KeyMsg(p, d, n + 1) : p \in to}, n + 1)

\* Removing a member does not replace the key it holds.
MutPostMutation(acc, d, reach, n) ==
    IF acc.g.pendingInvitation THEN Result(acc.g, {}, n)
    ELSE ensureMySKDMReachesActiveMembers(acc.g, d, reach, n)

applyPostMutationSideEffects(acc, d, reach, n) ==
    LET back == d \in activeMembers(acc.g)
        m == IF acc.clear /\ back THEN n + 1 ELSE n
        g == IF acc.clear
             THEN [acc.g EXCEPT !.myCurrentDistributionId = IF back THEN m ELSE 0,
                                !.mySkdmRecipients = {}]
             ELSE acc.g
    IN  IF (acc.clear /\ ~back) \/ g.pendingInvitation THEN Result(g, {}, m)
        ELSE IF acc.rotate THEN rotateMyGroupChain(g, d, reach, m)
        ELSE ensureMySKDMReachesActiveMembers(g, d, reach, m)

=============================================================================
