-------------------------- MODULE GroupKeysProofs --------------------------
(***************************************************************************)
(* The inductive invariant of GroupLog, for any devices, first members,    *)
(* reach, caps and number of acts and crashes: members with one log have   *)
(* one group, nothing that may be applied waits, logs only grow, and who   *)
(* has been removed was not given the chain in use.                        *)
(***************************************************************************)
EXTENDS GroupLog, GroupLogProofs

USE SMTT(20), ZenonT(20)

\* Histories extend each other transitively.
LEMMA LongerTrans ==
  ASSUME NEW a \in Digests, NEW b \in Digests, NEW c \in Digests, Longer(a, b), Longer(b, c)
  PROVE  Longer(a, c)
  <1>1. Len(a) \in Nat /\ Len(b) \in Nat /\ Len(c) \in Nat BY DEF Digests
  <1>2. Len(a) <= Len(b) /\ Len(b) <= Len(c) BY DEF Longer
  <1>3. ASSUME NEW i \in 1 .. Len(a) PROVE c[i] = a[i]
    <2>1. i \in 1 .. Len(b) BY <1>1, <1>2
    <2> QED BY <2>1 DEF Longer
  <1> QED BY <1>1, <1>2, <1>3 DEF Longer

\* What a handler's answer r keeps, sent by device d whose group was old.
Kept(r, old, d, mint, given) ==
    /\ Honest(r, old, d, mint, given)
    /\ KeysOK(old, d, given) => KeysOK(r.g, d, given \cup Sent(d, r.msgs))
    /\ \A m \in r.msgs : m.type \in {"op", "key"}

\* An answer given from a later point is one from the earlier.
LEMMA KeptFrom ==
  ASSUME NEW mint \in Mints, NEW d \in Devices, NEW mid \in Mints, mint[d] <= mid[d],
         mid = [mint EXCEPT ![d] = mid[d]], NEW r, NEW g, NEW given,
         Kept(r, g, d, mid, given), NEW old,
         old.lastOpDigest \in Digests, g.lastOpDigest \in Digests,
         Longer(old.lastOpDigest, g.lastOpDigest),
         KeysOK(old, d, given) => KeysOK(g, d, given)
  PROVE  Kept(r, old, d, mint, given)
  <1> DEFINE later == [mint EXCEPT ![d] = r.n]
  <1>1. mint[d] \in Nat /\ mid[d] \in Nat /\ [mid EXCEPT ![d] = r.n] = later BY Zenon DEF Mints
  <1> HIDE DEF later
  <1>2. /\ r.n \in Nat /\ mid[d] <= r.n /\ Own(r.g, d, later)
        /\ Longer(g.lastOpDigest, r.g.lastOpDigest)
        /\ \A m \in r.msgs : GoodMsg(m, later)
        /\ Issued(given \cup Sent(d, r.msgs), later)
    BY <1>1, Zenon DEF Honest, Kept
  <1>3. mint[d] <= r.n BY <1>1, <1>2
  <1>4. r.g.lastOpDigest \in Digests BY <1>2 DEF Own, WellKept, IsGroup
  <1>5. Longer(old.lastOpDigest, r.g.lastOpDigest) BY <1>2, <1>4, LongerTrans
  <1>6. Honest(r, old, d, mint, given) BY <1>2, <1>3, <1>5, Zenon DEF Honest, later
  <1> QED BY <1>6 DEF Kept

\* The empty answer.
LEMMA IdleKept ==
  ASSUME NEW mint \in Mints, NEW d \in Devices, NEW g, Own(g, d, mint), NEW given,
         Issued(given, mint), NEW old, Longer(old.lastOpDigest, g.lastOpDigest),
         KeysOK(old, d, given) => KeysOK(g, d, given)
  PROVE  Kept(Result(g, {}, mint[d]), old, d, mint, given)
  <1> DEFINE r == Result(g, {}, mint[d])
  <1>1. Honest(r, old, d, mint, given) /\ r.g = g /\ Sent(d, r.msgs) = {} BY NothingDone
  <1>2. r.msgs = {} BY DEF Result
  <1> HIDE DEF r
  <1>3. given \cup Sent(d, r.msgs) = given BY <1>1
  <1>4. Kept(r, old, d, mint, given) BY <1>1, <1>2, <1>3 DEF Kept
  <1> QED BY <1>4 DEF r

\* applyPostMutationSideEffects by a device that was not removed: whoever was
\* removed since loses the key.
LEMMA StayKeeps ==
  ASSUME HasLeast, NEW mint \in Mints, NEW d \in Devices, NEW old, Own(old, d, mint), NEW acc,
         IsAcc(acc), WellKept(acc.g, mint), Since(old, acc, d), NEW given,
         Issued(given, mint), NEW reach, ~acc.clear
  PROVE  Kept(applyPostMutationSideEffects(acc, d, reach, mint[d]), old, d, mint, given)
  <1> DEFINE g == acc.g
             r == applyPostMutationSideEffects(acc, d, reach, mint[d])
  <1>1. /\ old.lastOpDigest \in Digests /\ g.lastOpDigest \in Digests
        /\ g.pendingInvitation \in BOOLEAN /\ acc.rotate \in BOOLEAN
        /\ mint[d] <= mint[d] /\ mint = [mint EXCEPT ![d] = mint[d]]
    BY DEF Mints, Own, WellKept, IsGroup, IsAcc
  <1>2. /\ Longer(old.lastOpDigest, g.lastOpDigest)
        /\ g.myCurrentDistributionId = old.myCurrentDistributionId
        /\ g.pendingInvitation = old.pendingInvitation
        /\ d \notin activeMembers(g) => d \notin activeMembers(old)
    BY DEF Since
  <1>3. \A p : <<d, 0, p>> \notin given BY DEF Issued
  <1>4. Own(g, d, mint) BY <1>2 DEF Own
  <1>5. r = IF g.pendingInvitation THEN Result(g, {}, mint[d])
            ELSE IF acc.rotate THEN rotateMyGroupChain(g, d, reach, mint[d])
            ELSE ensureMySKDMReachesActiveMembers(g, d, reach, mint[d])
    BY Zenon DEF applyPostMutationSideEffects
  <1>6. g.pendingInvitation \/ d \notin activeMembers(g) \/ ~acc.rotate =>
           (KeysOK(old, d, given) => KeysOK(g, d, given))
    <2> SUFFICES ASSUME KeysOK(old, d, given),
                        g.pendingInvitation \/ d \notin activeMembers(g) \/ ~acc.rotate
                 PROVE  KeysOK(g, d, given)
      OBVIOUS
    <2> DEFINE c == g.myCurrentDistributionId
    <2>1. d \notin activeMembers(old) => c = 0 BY <1>2 DEF KeysOK
    <2>2. g.pendingInvitation => \A p : <<d, c, p>> \notin given BY <1>2 DEF KeysOK
    <2>3. ASSUME NEW p \in Devices, g.members[p].status = "removed"
          PROVE  <<d, c, p>> \notin given
      <3>1. old.members[p].status = "removed" => <<d, c, p>> \notin given BY <1>2 DEF KeysOK
      <3>2. ~acc.rotate => old.members[p].status = "removed" \/ d \notin activeMembers(old)
        BY <2>3 DEF Since
      <3> QED BY <1>2, <1>3, <2>1, <2>2, <3>1, <3>2
    <2> QED BY <1>2, <2>1, <2>2, <2>3 DEF KeysOK
  <1> HIDE DEF r, g
  <1>7. CASE g.pendingInvitation
    <2>1. r = Result(g, {}, mint[d]) BY <1>5, <1>7
    <2> QED BY <1>2, <1>4, <1>6, <1>7, <2>1, IdleKept DEF r
  <1>8. CASE ~g.pendingInvitation /\ acc.rotate /\ d \in activeMembers(g)
    <2>1. r = rotateMyGroupChain(g, d, reach, mint[d]) BY <1>5, <1>8
    <2>2. /\ Honest(r, g, d, mint, given)
          /\ KeysOK(r.g, d, given \cup Sent(d, r.msgs))
          /\ \A m \in r.msgs : m.type \in {"op", "key"}
      BY <1>4, <1>8, <2>1, RotateKeeps, Zenon
    <2>3. Honest(r, old, d, mint, given)
      <3>1. /\ r.n \in Nat /\ mint[d] <= r.n /\ Own(r.g, d, [mint EXCEPT ![d] = r.n])
            /\ Longer(g.lastOpDigest, r.g.lastOpDigest)
            /\ \A m \in r.msgs : GoodMsg(m, [mint EXCEPT ![d] = r.n])
            /\ Issued(given \cup Sent(d, r.msgs), [mint EXCEPT ![d] = r.n])
        BY <2>2, Zenon DEF Honest
      <3>2. r.g.lastOpDigest \in Digests BY <3>1 DEF Own, WellKept, IsGroup
      <3>3. Longer(old.lastOpDigest, r.g.lastOpDigest) BY <1>1, <1>2, <3>1, <3>2, LongerTrans
      <3> QED BY <3>1, <3>3, Zenon DEF Honest
    <2> QED BY <2>2, <2>3 DEF Kept, r
  <1>9. CASE ~g.pendingInvitation /\ acc.rotate /\ d \notin activeMembers(g)
    <2>1. r = Result(g, {}, mint[d]) BY <1>5, <1>9 DEF rotateMyGroupChain
    <2> QED BY <1>2, <1>4, <1>6, <1>9, <2>1, IdleKept DEF r
  <1>10. CASE ~g.pendingInvitation /\ ~acc.rotate
    <2>1. r = ensureMySKDMReachesActiveMembers(g, d, reach, mint[d]) BY <1>5, <1>10
    <2>2. /\ Honest(r, g, d, mint, given)
          /\ ~g.pendingInvitation /\ KeysOK(g, d, given) =>
                 KeysOK(r.g, d, given \cup Sent(d, r.msgs))
          /\ \A m \in r.msgs : m.type \in {"op", "key"}
      BY <1>4, <2>1, EnsureKeeps, Zenon
    <2>3. Kept(r, g, d, mint, given) BY <1>10, <2>2 DEF Kept
    <2> QED BY <1>1, <1>2, <1>6, <1>10, <2>3, KeptFrom DEF r
  <1> QED BY <1>1, <1>7, <1>8, <1>9, <1>10 DEF r

\* applyPostMutationSideEffects by a device that was removed: without a chain
\* it has given no key; taken back, it starts a new one.
LEMMA ReturnKeeps ==
  ASSUME HasLeast, NEW mint \in Mints, NEW d \in Devices, NEW old, Own(old, d, mint), NEW acc,
         IsAcc(acc), WellKept(acc.g, mint), Since(old, acc, d), NEW given,
         Issued(given, mint), NEW reach, acc.clear
  PROVE  Kept(applyPostMutationSideEffects(acc, d, reach, mint[d]), old, d, mint, given)
  <1> DEFINE r == applyPostMutationSideEffects(acc, d, reach, mint[d])
  <1>1. /\ mint[d] \in Nat /\ old.lastOpDigest \in Digests
        /\ acc.g.lastOpDigest \in Digests
        /\ IsGroup(acc.g) /\ acc.g.members \in Members
        /\ acc.g.pendingInvitation \in BOOLEAN /\ acc.rotate \in BOOLEAN
        /\ Longer(old.lastOpDigest, acc.g.lastOpDigest)
    BY DEF Mints, Own, WellKept, IsGroup, IsAcc, Since
  <1>2. CASE d \notin activeMembers(acc.g)
    <2> DEFINE g == [acc.g EXCEPT !.myCurrentDistributionId = 0, !.mySkdmRecipients = {}]
    <2>1. r = Result(g, {}, mint[d]) BY <1>2 DEF applyPostMutationSideEffects
    <2>a. g = [acc.g EXCEPT !.myCurrentDistributionId = 0, !.mySkdmRecipients = {}] OBVIOUS
    <2> HIDE DEF r, g
    <2>2. g = Refit(acc.g, acc.g.members, 0, {}, acc.g.pendingInvitation)
      BY <1>1, <2>a, Rechained, Zenon
    <2>3. /\ WellKept(g, mint) /\ g.lastOpDigest = acc.g.lastOpDigest
          /\ g.members = acc.g.members /\ g.myCurrentDistributionId = 0
      <3>1. Fits(acc.g, mint, acc.g.members, 0, acc.g.pendingInvitation) BY <1>1 DEF Fits, Own
      <3>2. Fitted(g, acc.g, mint, acc.g.members, 0, acc.g.pendingInvitation)
        BY <2>2, <3>1, RefitKeeps, Zenon
      <3> QED BY <3>2, Zenon DEF Fitted
    <2>4. 0 <= mint[d] BY <1>1
    <2>5. Own(g, d, mint) BY <2>3, <2>4 DEF Own
    <2>6. \A p : <<d, 0, p>> \notin given BY DEF Issued
    <2>7. KeysOK(g, d, given) BY <2>3, <2>6, Zenon DEF KeysOK
    <2> QED BY <1>1, <2>1, <2>3, <2>5, <2>7, IdleKept DEF r
  <1>3. CASE d \in activeMembers(acc.g)
    <2> DEFINE c == mint[d] + 1
               mid == [mint EXCEPT ![d] = c]
               g == [acc.g EXCEPT !.myCurrentDistributionId = c, !.mySkdmRecipients = {}]
    <2>1. /\ c \in Nat /\ mint[d] <= c /\ ~(c <= mint[d])
          /\ mid \in Mints /\ mid[d] = c /\ Above(mid, mint)
      BY <1>1 DEF Mints, Above
    <2>2. r = IF g.pendingInvitation THEN Result(g, {}, c)
              ELSE IF acc.rotate THEN rotateMyGroupChain(g, d, reach, c)
              ELSE ensureMySKDMReachesActiveMembers(g, d, reach, c)
      BY <1>3, Zenon DEF applyPostMutationSideEffects
    <2>3. mid = [mint EXCEPT ![d] = mid[d]] BY <2>1, Zenon
    <2>a. g = [acc.g EXCEPT !.myCurrentDistributionId = c, !.mySkdmRecipients = {}] OBVIOUS
    <2> HIDE DEF r, g, mid, c
    <2>4. g = Refit(acc.g, acc.g.members, c, {}, acc.g.pendingInvitation)
      BY <1>1, <2>a, Rechained, Zenon
    <2>5. WellKept(acc.g, mid) BY <2>1, LaterFresh
    <2>6. /\ WellKept(g, mid) /\ g.lastOpDigest = acc.g.lastOpDigest
          /\ g.members = acc.g.members /\ g.myCurrentDistributionId = c
          /\ g.pendingInvitation = acc.g.pendingInvitation
      <3>1. Fits(acc.g, mid, acc.g.members, c, acc.g.pendingInvitation)
        BY <1>1, <2>1, <2>5, Zenon DEF Fits
      <3>2. Fitted(g, acc.g, mid, acc.g.members, c, acc.g.pendingInvitation)
        BY <2>4, <3>1, RefitKeeps, Zenon
      <3> QED BY <3>2, Zenon DEF Fitted
    <2>7. c <= c BY <2>1
    <2>8. Own(g, d, mid) BY <2>1, <2>6, <2>7 DEF Own
    <2>9. Issued(given, mid)
      <3> SUFFICES ASSUME NEW q \in Devices, NEW y, NEW p, <<q, y, p>> \in given
                   PROVE  y \in Nat /\ 1 <= y /\ y <= mid[q]
        BY DEF Issued
      <3>1. y \in Nat /\ 1 <= y /\ y <= mint[q] BY DEF Issued
      <3>2. mint[q] \in Nat /\ mid[q] \in Nat /\ mint[q] <= mid[q]
        BY <2>1 DEF Above, Mints
      <3> QED BY <3>1, <3>2
    <2>10. \A p : <<d, c, p>> \notin given BY <2>1 DEF Issued
    <2>11. d \in activeMembers(g) BY <1>3, <2>6 DEF activeMembers
    <2>12. KeysOK(g, d, given) BY <2>6, <2>10, <2>11 DEF KeysOK
    <2>13. g.lastOpDigest \in Digests /\ Longer(old.lastOpDigest, g.lastOpDigest)
      BY <1>1, <2>6
    <2>14. Longer(g.lastOpDigest, g.lastOpDigest)
      <3>1. Len(g.lastOpDigest) \in Nat BY <2>13 DEF Digests
      <3> QED BY <3>1 DEF Longer
    <2>15. CASE g.pendingInvitation
      <3>1. r = Result(g, {}, mid[d]) BY <2>1, <2>2, <2>15
      <3>2. Kept(r, g, d, mid, given) BY <2>1, <2>8, <2>9, <2>14, <3>1, IdleKept
      <3> QED BY <1>1, <2>1, <2>3, <2>12, <2>13, <3>2, KeptFrom DEF r
    <2>16. CASE ~g.pendingInvitation /\ acc.rotate
      <3>1. r = rotateMyGroupChain(g, d, reach, mid[d]) BY <2>1, <2>2, <2>16, Zenon
      <3>2. /\ Honest(r, g, d, mid, given)
            /\ KeysOK(r.g, d, given \cup Sent(d, r.msgs))
            /\ \A m \in r.msgs : m.type \in {"op", "key"}
        BY <2>1, <2>8, <2>9, <2>11, <2>16, <3>1, RotateKeeps, Zenon
      <3>3. Kept(r, g, d, mid, given) BY <3>2 DEF Kept
      <3> QED BY <1>1, <2>1, <2>3, <2>12, <2>13, <3>3, KeptFrom DEF r
    <2>17. CASE ~g.pendingInvitation /\ ~acc.rotate
      <3>1. r = ensureMySKDMReachesActiveMembers(g, d, reach, mid[d]) BY <2>1, <2>2, <2>17
      <3>2. /\ Honest(r, g, d, mid, given)
            /\ ~g.pendingInvitation /\ KeysOK(g, d, given) =>
                   KeysOK(r.g, d, given \cup Sent(d, r.msgs))
            /\ \A m \in r.msgs : m.type \in {"op", "key"}
        BY <2>1, <2>8, <2>9, <3>1, EnsureKeeps, Zenon
      <3>3. Kept(r, g, d, mid, given) BY <2>17, <3>2, Zenon DEF Kept
      <3> QED BY <1>1, <2>1, <2>3, <2>12, <2>13, <3>3, KeptFrom DEF r
    <2> QED BY <1>1, <2>6, <2>15, <2>16, <2>17 DEF r
  <1> QED BY <1>2, <1>3

\* Either way.
LEMMA PostKeeps ==
  ASSUME HasLeast, NEW mint \in Mints, NEW d \in Devices, NEW old, Own(old, d, mint), NEW acc,
         IsAcc(acc), WellKept(acc.g, mint), Since(old, acc, d), NEW given,
         Issued(given, mint), NEW reach
  PROVE  Kept(applyPostMutationSideEffects(acc, d, reach, mint[d]), old, d, mint, given)
  <1>1. acc.clear \in BOOLEAN BY DEF IsAcc
  <1> QED BY <1>1, StayKeeps, ReturnKeeps

---------------------------------------------------------------------------
(* The inductive invariant *)

\* Every device's group is well kept, what is under way is well made, keys are
\* given away after they are created, and without a crash nobody removed holds
\* a chain in use.  Before the group is created there is nothing.
GroupInv ==
    /\ minted \in Mints /\ crashes \in Nat /\ group = [d \in Devices |-> group[d]]
    /\ \A d \in InGroup : Own(group[d], d, minted)
    /\ \A m \in net : GoodMsg(m, minted)
    /\ Issued(shipped, minted)
    /\ minted[Creator] = 0 => net = {} /\ InGroup = {}
    /\ crashes = 0 => \A d \in InGroup : KeysOK(group[d], d, shipped)

\* Whoever keeps the group keeps its log.
Grows ==
    \A d \in Devices : (group[d] # NoGroup /\ group'[d] # NoGroup) =>
        Longer(group[d].lastOpDigest, group'[d].lastOpDigest)

\* A history extends itself.
LEMMA LongerSelf ==
  ASSUME NEW a \in Digests
  PROVE  Longer(a, a)
  <1>1. Len(a) \in Nat BY DEF Digests
  <1> QED BY <1>1 DEF Longer

\* Creating chains takes nothing from messages either.
LEMMA LaterGood ==
  ASSUME NEW mint, NEW later, Above(later, mint), NEW m, GoodMsg(m, mint)
  PROVE  GoodMsg(m, later)
  <1>1. \A d \in Digests : Fresh(d, mint) => Fresh(d, later) BY LaterFresh
  <1>2. ASSUME m.type = "op" PROVE GoodOp(m.op, later)
    <2>1. /\ m.op \in Ops /\ Fresh(m.op.parent, mint)
          /\ m.op.kind[1] = "rotate" => m.op.kind[2] <= mint[m.op.by]
          /\ m.op.kind[1] = "create" => m.op.parent = << >> /\ m.op.epoch = 0
      BY <1>2 DEF GoodMsg, GoodOp
    <2>2. m.op.parent \in Digests /\ m.op.by \in Devices /\ m.op.kind \in Kinds
      BY <2>1 DEF Ops
    <2>3. ASSUME m.op.kind[1] = "rotate" PROVE m.op.kind[2] <= later[m.op.by]
      <3>1. m.op.kind[2] \in Nat BY <2>2, <2>3 DEF Kinds, OnPeer
      <3>2. m.op.kind[2] <= mint[m.op.by] BY <2>1, <2>3
      <3>3. /\ mint[m.op.by] \in Nat /\ later[m.op.by] \in Nat
            /\ mint[m.op.by] <= later[m.op.by]
        BY <2>2 DEF Above, Mints
      <3> QED BY <3>1, <3>2, <3>3
    <2> QED BY <1>1, <2>1, <2>2, <2>3 DEF GoodOp
  <1>3. ASSUME m.type = "bootstrap" PROVE GoodSnapshot(m, later)
    BY <1>1, <1>3 DEF GoodMsg, GoodSnapshot
  <1> QED BY <1>2, <1>3 DEF GoodMsg

\* A device's answer, saved, lost in a crash or followed by leaving, keeps the
\* invariant.
LEMMA Answered ==
  ASSUME GroupInv, NEW d \in InGroup, NEW r, Honest(r, group[d], d, minted, shipped),
         crashes = 0 => KeysOK(r.g, d, shipped \cup Sent(d, r.msgs)),
         net' \subseteq net \cup r.msgs,
         minted' = [minted EXCEPT ![d] = r.n],
         shipped' = shipped \cup Sent(d, r.msgs),
         \/ group' = [group EXCEPT ![d] = r.g] /\ crashes' = crashes
         \/ group' = [group EXCEPT ![d] = NoGroup] /\ crashes' = crashes
         \/ group' = group /\ crashes' = crashes + 1
  PROVE  GroupInv' /\ Grows
  <1>1. /\ d \in Devices /\ minted \in Mints /\ crashes \in Nat
        /\ group = [e \in Devices |-> group[e]]
        /\ \A e \in InGroup : Own(group[e], e, minted) /\ e \in Devices
        /\ minted[Creator] # 0
        /\ crashes = 0 => \A e \in InGroup : KeysOK(group[e], e, shipped)
    BY DEF GroupInv, InGroup
  <1>2. /\ r.n \in Nat /\ minted[d] <= r.n /\ Own(r.g, d, minted')
        /\ Longer(group[d].lastOpDigest, r.g.lastOpDigest)
        /\ \A m \in r.msgs : GoodMsg(m, minted')
        /\ Issued(shipped', minted')
    BY Zenon DEF Honest
  <1>3. Above(minted', minted) BY <1>1, <1>2 DEF Above, Mints
  <1>4. /\ minted' \in Mints /\ crashes' \in Nat /\ group' = [e \in Devices |-> group'[e]]
        /\ crashes' = 0 => crashes = 0
    BY <1>1, <1>3 DEF Above
  <1>5. /\ \A e \in Devices \ {d} : group'[e] = group[e]
        /\ group'[d] = r.g \/ group'[d] = NoGroup \/ (group'[d] = group[d] /\ crashes' = crashes + 1)
    BY <1>1
  <1>6. ASSUME NEW e \in Devices, Own(group[e], e, minted) PROVE Own(group[e], e, minted')
    <2>1. WellKept(group[e], minted') BY <1>3, <1>6, LaterFresh, Zenon DEF Own
    <2>2. group[e].myCurrentDistributionId \in Nat BY <1>6 DEF Own, WellKept, IsGroup
    <2>3. /\ minted[e] \in Nat /\ minted'[e] \in Nat /\ minted[e] <= minted'[e]
          /\ group[e].myCurrentDistributionId <= minted[e]
      BY <1>3, <1>6 DEF Above, Mints, Own
    <2>4. group[e].myCurrentDistributionId <= minted'[e] BY <2>2, <2>3
    <2> QED BY <2>1, <2>4 DEF Own
  <1>7. \A e \in InGroup' : e \in Devices /\ group'[e] # NoGroup /\ (e # d => e \in InGroup)
    BY <1>5, Zenon DEF InGroup
  <1>8. ASSUME NEW e \in InGroup' PROVE Own(group[e]', e, minted')
    <2>1. e # d => Own(group'[e], e, minted') BY <1>1, <1>5, <1>6, <1>7, Zenon
    <2>2. e = d => Own(group'[e], e, minted') BY <1>1, <1>2, <1>5, <1>6, <1>7, Zenon
    <2> QED BY <2>1, <2>2
  <1>9. ASSUME NEW m \in net' PROVE GoodMsg(m, minted')
    <2>1. m \in net => GoodMsg(m, minted') BY <1>3, LaterGood DEF GroupInv
    <2> QED BY <1>2, <2>1, Zenon
  <1>10. minted'[Creator] # 0
    <2>1. Creator \in Devices BY GroupAssumption
    <2>2. /\ minted[Creator] \in Nat /\ minted'[Creator] \in Nat
          /\ minted[Creator] <= minted'[Creator]
      BY <1>3, <2>1 DEF Above, Mints
    <2> QED BY <1>1, <2>2
  <1>11. ASSUME crashes' = 0, NEW e \in InGroup' PROVE KeysOK(group[e]', e, shipped')
    <2>1. crashes = 0 /\ crashes' # crashes + 1 BY <1>1, <1>11
    <2>2. CASE e = d
      <3>1. group'[e] = r.g BY <1>5, <1>7, <2>1, <2>2
      <3> QED BY <2>1, <2>2, <3>1
    <2>3. CASE e # d
      <3>1. KeysOK(group[e], e, shipped) /\ group'[e] = group[e]
        BY <1>1, <1>5, <1>7, <2>1, <2>3
      <3>2. \A n, p : <<e, n, p>> \in shipped' => <<e, n, p>> \in shipped
        BY <2>3 DEF Sent
      <3> QED BY <3>1, <3>2, Zenon DEF KeysOK
    <2> QED BY <2>2, <2>3
  <1>12. Grows
    <2> SUFFICES ASSUME NEW e \in Devices, group[e] # NoGroup, group'[e] # NoGroup
                 PROVE  Longer(group[e].lastOpDigest, group'[e].lastOpDigest)
      BY DEF Grows
    <2>1. e \in InGroup BY DEF InGroup
    <2>2. group[e].lastOpDigest \in Digests BY <1>1, <2>1, Zenon DEF Own, WellKept, IsGroup
    <2>3. Longer(group[e].lastOpDigest, group[e].lastOpDigest) BY <2>2, LongerSelf
    <2> QED BY <1>2, <1>5, <2>3, Zenon
  <1> QED BY <1>2, <1>4, <1>8, <1>9, <1>10, <1>11, <1>12, Zenon DEF GroupInv

---------------------------------------------------------------------------
(* What a user does *)

\* Finish, as the lemma on answers has it.
LEMMA FinishIs ==
  ASSUME GroupInv, NEW d \in InGroup, NEW r, NEW taken, Finish(d, r, taken),
         Honest(r, group[d], d, minted, shipped),
         crashes = 0 => KeysOK(r.g, d, shipped \cup Sent(d, r.msgs))
  PROVE  GroupInv' /\ Grows
  <1>1. /\ net' \subseteq net \cup r.msgs
        /\ minted' = [minted EXCEPT ![d] = r.n]
        /\ shipped' = shipped \cup Sent(d, r.msgs)
        /\ \/ group' = [group EXCEPT ![d] = r.g] /\ crashes' = crashes
           \/ group' = group /\ crashes' = crashes + 1
    BY Zenon DEF Finish, Sent
  <1> QED BY <1>1, Answered, Zenon

\* The facts every action of a device with the group starts from.
LEMMA OwnGroup ==
  ASSUME GroupInv, NEW d \in Devices, group[d] # NoGroup
  PROVE  /\ d \in InGroup /\ Own(group[d], d, minted)
         /\ minted \in Mints /\ Issued(shipped, minted)
         /\ IsGroup(group[d]) /\ group[d].lastOpDigest \in Digests
         /\ Longer(group[d].lastOpDigest, group[d].lastOpDigest)
         /\ crashes = 0 => KeysOK(group[d], d, shipped)
  <1>1. d \in InGroup BY DEF InGroup
  <1>2. Own(group[d], d, minted) BY <1>1, Zenon DEF GroupInv
  <1>3. IsGroup(group[d]) /\ group[d].lastOpDigest \in Digests
    BY <1>2, Zenon DEF Own, WellKept, IsGroup
  <1> QED BY <1>1, <1>2, <1>3, LongerSelf DEF GroupInv

\* RotateKey keeps the invariant.
LEMMA RotateKeyInv ==
  ASSUME HasLeast, GroupInv, NEW d \in Devices, RotateKey(d)
  PROVE  GroupInv' /\ Grows
  <1>1. /\ group[d] # NoGroup /\ ~group[d].pendingInvitation /\ d \in activeMembers(group[d])
    BY DEF RotateKey, Joined
  <1>2. PICK reach \in Reach[d] :
            Finish(d, rotateMyGroupChain(group[d], d, reach, minted[d]), {})
    BY DEF RotateKey
  <1> DEFINE r == rotateMyGroupChain(group[d], d, reach, minted[d])
  <1>3. /\ Honest(r, group[d], d, minted, shipped)
        /\ KeysOK(r.g, d, shipped \cup Sent(d, r.msgs))
    BY <1>1, OwnGroup, RotateKeeps, Zenon
  <1> HIDE DEF r
  <1> QED BY <1>1, <1>2, <1>3, OwnGroup, FinishIs, Zenon DEF r

\* resendMyKeys keeps the invariant.
LEMMA ResendInv ==
  ASSUME GroupInv, NEW d \in Devices, resendMyKeys(d)
  PROVE  GroupInv' /\ Grows
  <1> DEFINE g == [group[d] EXCEPT !.mySkdmRecipients = {}]
  <1>1. group[d] # NoGroup /\ ~group[d].pendingInvitation BY DEF resendMyKeys, Joined
  <1>2. PICK reach \in Reach[d] :
            Finish(d, ensureMySKDMReachesActiveMembers(g, d, reach, minted[d]), {})
    BY DEF resendMyKeys
  <1> DEFINE r == ensureMySKDMReachesActiveMembers(g, d, reach, minted[d])
  <1>3. /\ d \in InGroup /\ Own(group[d], d, minted) /\ minted \in Mints
        /\ Issued(shipped, minted) /\ IsGroup(group[d])
        /\ crashes = 0 => KeysOK(group[d], d, shipped)
    BY <1>1, OwnGroup, Zenon
  <1>a. g = [group[d] EXCEPT !.mySkdmRecipients = {}] OBVIOUS
  <1> HIDE DEF g
  <1>4. g = Refit(group[d], group[d].members, group[d].myCurrentDistributionId, {},
                  group[d].pendingInvitation)
    BY <1>3, <1>a, Readdressed
  <1>5. /\ group[d].members \in Members /\ group[d].myCurrentDistributionId \in Nat
        /\ group[d].pendingInvitation \in BOOLEAN /\ WellKept(group[d], minted)
    BY <1>3, Zenon DEF Own, IsGroup
  <1>6. /\ WellKept(g, minted) /\ g.lastOpDigest = group[d].lastOpDigest
        /\ g.members = group[d].members
        /\ g.myCurrentDistributionId = group[d].myCurrentDistributionId
        /\ g.pendingInvitation = group[d].pendingInvitation
    <2> DEFINE o == group[d]
    <2>1. Fits(o, minted, o.members, o.myCurrentDistributionId, o.pendingInvitation)
      BY <1>5, Zenon DEF Fits
    <2>2. Fitted(g, o, minted, o.members, o.myCurrentDistributionId, o.pendingInvitation)
      BY <1>4, <2>1, RefitKeeps, Zenon
    <2> QED BY <2>2, Zenon DEF Fitted
  <1>7. Own(g, d, minted) BY <1>3, <1>6, Zenon DEF Own
  <1>8. KeysOK(group[d], d, shipped) => KeysOK(g, d, shipped)
    BY <1>6 DEF KeysOK, activeMembers
  <1>9. /\ Honest(r, g, d, minted, shipped)
        /\ ~g.pendingInvitation /\ KeysOK(g, d, shipped) =>
              KeysOK(r.g, d, shipped \cup Sent(d, r.msgs))
    BY <1>3, <1>7, EnsureKeeps, Zenon
  <1> HIDE DEF r
  <1>10. Honest(r, group[d], d, minted, shipped) BY <1>6, <1>9, Zenon DEF Honest
  <1>11. crashes = 0 => KeysOK(r.g, d, shipped \cup Sent(d, r.msgs))
    BY <1>1, <1>3, <1>6, <1>8, <1>9
  <1> QED BY <1>2, <1>3, <1>10, <1>11, FinishIs, Zenon DEF r

\* acceptGroupInvitation keeps the invariant: nothing was given before.
LEMMA AcceptInv ==
  ASSUME GroupInv, NEW d \in Devices, acceptGroupInvitation(d)
  PROVE  GroupInv' /\ Grows
  <1> DEFINE g == [group[d] EXCEPT !.pendingInvitation = FALSE]
  <1>1. group[d] # NoGroup /\ d \in activeMembers(group[d]) BY DEF acceptGroupInvitation
  <1>2. PICK reach \in Reach[d] :
            Finish(d, enrolMyChainOnFirstJoin(g, d, reach, minted[d]), {})
    BY Zenon DEF acceptGroupInvitation
  <1> DEFINE r == enrolMyChainOnFirstJoin(g, d, reach, minted[d])
  <1>3. /\ d \in InGroup /\ Own(group[d], d, minted) /\ minted \in Mints
        /\ Issued(shipped, minted) /\ IsGroup(group[d])
        /\ crashes = 0 => KeysOK(group[d], d, shipped)
    BY <1>1, OwnGroup
  <1>a. g = [group[d] EXCEPT !.pendingInvitation = FALSE] OBVIOUS
  <1> HIDE DEF g
  <1>4. g = Refit(group[d], group[d].members, group[d].myCurrentDistributionId,
                  group[d].mySkdmRecipients, FALSE)
    BY <1>3, <1>a, Decided, Zenon
  <1>5. /\ group[d].members \in Members /\ group[d].myCurrentDistributionId \in Nat
        /\ WellKept(group[d], minted)
    BY <1>3 DEF Own, IsGroup
  <1>6. /\ WellKept(g, minted) /\ g.lastOpDigest = group[d].lastOpDigest
        /\ g.members = group[d].members
        /\ g.myCurrentDistributionId = group[d].myCurrentDistributionId
        /\ ~g.pendingInvitation
    <2> DEFINE o == group[d]
    <2>1. Fits(o, minted, o.members, o.myCurrentDistributionId, FALSE) BY <1>5, Zenon DEF Fits
    <2>2. Fitted(g, o, minted, o.members, o.myCurrentDistributionId, FALSE)
      BY <1>4, <2>1, RefitKeeps, Zenon
    <2> QED BY <2>2, Zenon DEF Fitted
  <1>7. Own(g, d, minted) BY <1>3, <1>6, Zenon DEF Own
  <1>8. KeysOK(group[d], d, shipped) => KeysOK(g, d, shipped)
    BY <1>6 DEF KeysOK, activeMembers
  <1>9. d \in activeMembers(g) BY <1>1, <1>6 DEF activeMembers
  <1>10. /\ Honest(r, g, d, minted, shipped)
         /\ KeysOK(g, d, shipped) => KeysOK(r.g, d, shipped \cup Sent(d, r.msgs))
    BY <1>3, <1>6, <1>7, <1>9, EnrolKeeps, Zenon
  <1> HIDE DEF r
  <1>11. Honest(r, group[d], d, minted, shipped) BY <1>6, <1>10, Zenon DEF Honest
  <1>12. crashes = 0 => KeysOK(r.g, d, shipped \cup Sent(d, r.msgs))
    BY <1>3, <1>8, <1>10, Zenon
  <1> QED BY <1>2, <1>3, <1>11, <1>12, FinishIs, Zenon DEF r

\* Leaving keeps the invariant: the row goes, whatever was sent before.
LEMMA LeaveInv ==
  ASSUME HasLeast, GroupInv, NEW d \in Devices, leaveGroup(d) \/ declineGroupInvitation(d)
  PROVE  GroupInv' /\ Grows
  <1> DEFINE idle == Result(group[d], {}, minted[d])
  <1>1. group[d] # NoGroup BY Zenon DEF leaveGroup, declineGroupInvitation, Joined
  <1>2. /\ d \in InGroup /\ Own(group[d], d, minted) /\ minted \in Mints
        /\ Issued(shipped, minted)
        /\ Longer(group[d].lastOpDigest, group[d].lastOpDigest)
        /\ crashes = 0 => KeysOK(group[d], d, shipped)
    BY <1>1, OwnGroup
  <1>3. /\ Honest(idle, group[d], d, minted, shipped) /\ idle.g = group[d]
        /\ Sent(d, idle.msgs) = {}
    BY <1>2, NothingDone, Zenon
  <1>4. idle.msgs = {} /\ idle.n = minted[d] /\ [minted EXCEPT ![d] = minted[d]] = minted
    BY <1>2 DEF Result, Mints
  <1>5. KeysOK(group[d], d, shipped) => KeysOK(idle.g, d, shipped \cup Sent(d, idle.msgs))
    BY <1>3, Zenon
  <1>6. CASE declineGroupInvitation(d)
    <2>1. /\ group' = [group EXCEPT ![d] = NoGroup]
          /\ UNCHANGED <<net, minted, shipped, crashes>>
      BY <1>6 DEF declineGroupInvitation
    <2> HIDE DEF idle
    <2>2. /\ net' \subseteq net \cup idle.msgs /\ minted' = [minted EXCEPT ![d] = idle.n]
          /\ shipped' = shipped \cup Sent(d, idle.msgs)
      BY <1>3, <1>4, <2>1
    <2> QED BY <1>2, <1>3, <1>5, <2>1, <2>2, Answered, Zenon
  <1>7. CASE leaveGroup(d)
    <2>1. PICK reach \in Reach[d] :
            LET last == IF group[d].myCurrentDistributionId # 0
                        THEN rotateMyGroupChain(group[d], d, reach, minted[d]) ELSE idle
            IN  /\ net' = net \cup last.msgs
                /\ minted' = [minted EXCEPT ![d] = last.n]
                /\ shipped' = shipped \cup Sent(d, last.msgs)
                /\ group' = [group EXCEPT ![d] = NoGroup]
      BY <1>7, Zenon DEF leaveGroup, Sent
    <2> DEFINE rot == rotateMyGroupChain(group[d], d, reach, minted[d])
               last == IF group[d].myCurrentDistributionId # 0 THEN rot ELSE idle
    <2>2. crashes' = crashes /\ ~group[d].pendingInvitation BY <1>7, Zenon DEF leaveGroup, Joined
    <2>3. CASE d \in activeMembers(group[d])
      <3>1. /\ Honest(rot, group[d], d, minted, shipped)
            /\ KeysOK(rot.g, d, shipped \cup Sent(d, rot.msgs))
        BY <1>2, <2>2, <2>3, RotateKeeps, Zenon
      <3> HIDE DEF rot, idle
      <3>2. /\ Honest(last, group[d], d, minted, shipped)
            /\ crashes = 0 => KeysOK(last.g, d, shipped \cup Sent(d, last.msgs))
        BY <1>2, <1>3, <1>5, <3>1, Zenon
      <3>3. /\ net' \subseteq net \cup last.msgs /\ minted' = [minted EXCEPT ![d] = last.n]
            /\ shipped' = shipped \cup Sent(d, last.msgs)
            /\ group' = [group EXCEPT ![d] = NoGroup]
        BY <2>1, Zenon DEF rot
      <3> HIDE DEF last
      <3> QED BY <1>2, <2>2, <3>2, <3>3, Answered, Zenon
    <2>4. CASE d \notin activeMembers(group[d])
      <3>1. rot = idle BY <2>4, Zenon DEF rotateMyGroupChain
      <3> HIDE DEF rot, idle
      <3>2. /\ net' \subseteq net \cup idle.msgs /\ minted' = [minted EXCEPT ![d] = idle.n]
            /\ shipped' = shipped \cup Sent(d, idle.msgs)
            /\ group' = [group EXCEPT ![d] = NoGroup]
        BY <2>1, <3>1 DEF rot
      <3> QED BY <1>2, <1>3, <1>5, <2>2, <3>2, Answered, Zenon
    <2> QED BY <2>3, <2>4
  <1> QED BY <1>6, <1>7

---------------------------------------------------------------------------
(* How a device comes to the group *)

\* The group a Create describes is well kept.
LEMMA FoundedKept ==
  ASSUME NEW mint \in Mints, NEW op \in Ops, op.kind[1] = "create", op.parent = << >>
  PROVE  LET g == Founded(op)
         IN  /\ WellKept(g, mint) /\ g.myCurrentDistributionId = 0
             /\ g.lastOpDigest = << EntryOf(op) >>
             /\ g.pendingInvitation = TRUE
             /\ g.members[op.by].status = "pendingSKDM"
             /\ \A p \in Devices : g.members[p].status # "removed"
  <1> DEFINE S == op.kind[2]
             e == EntryOf(op)
             ms == [p \in Devices |-> IF p = op.by THEN Row("admin", 0, op.by)
                                      ELSE IF p \in S THEN Row("member", 0, op.by)
                                      ELSE NoRow]
             g == Founded(op)
  <1>1. op.by \in Devices /\ op.kind \in Kinds /\ op.root \in Roots /\ op.epoch \in Nat
    BY DEF Ops
  <1>2. S \subseteq Devices BY <1>1 DEF Kinds, OnPeer
  <1>3. e \in Logged /\ e[2] = op.by /\ e[4] = op.kind BY <1>1 DEF EntryOf, Logged
  <1>4. Digest(op) = << e >> /\ Len(<< e >>) = 1 /\ << e >>[1] = e /\ << e >> \in Digests
    BY <1>3 DEF Digest, EntryOf, Digests
  <1>5. g = [members |-> ms, displayName |-> FirstName, currentEpoch |-> 0,
             lastOpDigest |-> << e >>, recentOpDigests |-> (0 :> << e >>),
             pendingOps |-> << >>, myCurrentDistributionId |-> 0,
             mySkdmRecipients |-> {}, pendingInvitation |-> TRUE]
    BY <1>4 DEF Founded, Target
  <1>6. /\ ms \in Members /\ DOMAIN ms = Devices
        /\ \A p \in Devices :
              ms[p] = IF p = op.by THEN Row("admin", 0, op.by)
                      ELSE IF p \in S THEN Row("member", 0, op.by) ELSE NoRow
    BY <1>1, GroupAssumption, Zenon DEF Members, Rows, Row, NoRow, Roles, Statuses
  <1>7. /\ \A p \in {op.by} \cup S : ms[p].status = "pendingSKDM"
        /\ \A p \in Devices \ ({op.by} \cup S) : ms[p].status = "absent"
        /\ HashOf(ms[op.by]) = <<"admin", 0, FALSE, op.by>>
        /\ \A p \in S \ {op.by} : HashOf(ms[p]) = <<"member", 0, FALSE, op.by>>
    <2>1. ms[op.by] = Row("admin", 0, op.by) BY <1>1, <1>6
    <2>2. \A p \in S \ {op.by} : ms[p] = Row("member", 0, op.by) BY <1>2, <1>6, Zenon
    <2>3. \A p \in Devices \ ({op.by} \cup S) : ms[p] = NoRow BY <1>6, Zenon
    <2> HIDE DEF ms
    <2>4. \A role : /\ Row(role, 0, op.by).status = "pendingSKDM"
                    /\ HashOf(Row(role, 0, op.by)) = <<role, 0, FALSE, op.by>>
      BY Zenon DEF Row, HashOf
    <2>5. NoRow.status = "absent" BY DEF NoRow
    <2> HIDE DEF HashOf, Row
    <2> QED BY <2>1, <2>2, <2>3, <2>4, <2>5, Zenon
  <1> HIDE DEF ms, g, e
  <1>8. memberSetRoot(ms) = RootAfter(e)
    <2> DEFINE D == {op.by} \cup S
    <2>1. {q \in Devices : ms[q].status # "absent"} = D
      <3>1. D \subseteq Devices BY <1>1, <1>2
      <3> QED BY <1>7, <3>1
    <2>2. memberSetRoot(ms) = [q \in D |-> HashOf(ms[q])]
      BY <1>6, <2>1, RootIs, Zenon
    <2>3. RootAfter(e) = [q \in D |-> IF q = op.by THEN <<"admin", 0, FALSE, op.by>>
                                      ELSE <<"member", 0, FALSE, op.by>>]
      BY <1>3 DEF RootAfter
    <2>4. \A q \in D : HashOf(ms[q]) = IF q = op.by THEN <<"admin", 0, FALSE, op.by>>
                                       ELSE <<"member", 0, FALSE, op.by>>
      BY <1>7, Zenon
    <2> HIDE DEF D, HashOf
    <2> QED BY <2>2, <2>3, <2>4, Zenon
  <1>9. NameIs(<< e >>, FirstName) /\ Fresh(<< e >>, mint)
    <2>1. \A i \in 1 .. Len(<< e >>) : << e >>[i] = e BY <1>4
    <2>2. e[4][1] = "create" BY <1>3
    <2>3. \A i \in 1 .. Len(<< e >>) : << e >>[i][4][1] = "create" BY <2>1, <2>2
    <2> QED BY <2>3 DEF NameIs, Renames, Fresh
  <1>10. /\ g.members = ms /\ g.displayName = FirstName /\ g.lastOpDigest = << e >>
         /\ g.currentEpoch = 0 /\ g.pendingOps = << >> /\ g.myCurrentDistributionId = 0
         /\ g.pendingInvitation = TRUE /\ g.mySkdmRecipients = {}
         /\ g.recentOpDigests = (0 :> << e >>)
    BY <1>5
  <1>11. << >> \in Seq(LogOps) /\ << >> \in Seq(FreshOps(mint)) /\ Len(<< >>) = 0 OBVIOUS
  <1>12. IsGroup(g) BY <1>4, <1>5, <1>6, <1>10, <1>11 DEF IsGroup
  <1>13. Faithful(g, mint) BY <1>4, <1>8, <1>9, <1>10 DEF Faithful, Commits
  <1>14. WellKept(g, mint) BY <1>10, <1>11, <1>12, <1>13 DEF WellKept
  <1>15. \A p \in Devices : ms[p].status # "removed"
    <2>1. \A p \in Devices : p \in {op.by} \cup S \/ p \in Devices \ ({op.by} \cup S) OBVIOUS
    <2> QED BY <1>7, <2>1
  <1> QED BY <1>7, <1>10, <1>14, <1>15 DEF g, e

\* A device without the group takes one.
LEMMA JoinsInv ==
  ASSUME GroupInv, NEW d \in Devices, group[d] = NoGroup, NEW g, WellKept(g, minted),
         g.myCurrentDistributionId = 0, group' = [group EXCEPT ![d] = g],
         net # {}, net' \subseteq net, minted' = minted, shipped' = shipped,
         crashes' = crashes
  PROVE  GroupInv' /\ Grows
  <1>1. /\ minted \in Mints /\ crashes \in Nat /\ group = [e \in Devices |-> group[e]]
        /\ minted[Creator] # 0 /\ Issued(shipped, minted)
    BY DEF GroupInv
  <1>2. Own(g, d, minted)
    <2>1. 0 <= minted[d] BY <1>1 DEF Mints
    <2> QED BY <2>1 DEF Own
  <1>3. \A p : <<d, 0, p>> \notin shipped BY <1>1 DEF Issued
  <1>4. KeysOK(g, d, shipped) BY <1>3 DEF KeysOK
  <1>5. /\ group' = [e \in Devices |-> group'[e]] /\ group'[d] = g
        /\ \A e \in Devices \ {d} : group'[e] = group[e]
    BY <1>1
  <1>6. \A e \in InGroup' : e \in Devices /\ (e # d => e \in InGroup /\ group'[e] = group[e])
    BY <1>5 DEF InGroup
  <1>7. ASSUME NEW e \in InGroup' PROVE Own(group[e]', e, minted')
    BY <1>2, <1>5, <1>6 DEF GroupInv
  <1>8. ASSUME crashes' = 0, NEW e \in InGroup' PROVE KeysOK(group[e]', e, shipped')
    BY <1>4, <1>5, <1>6, <1>8 DEF GroupInv
  <1>9. \A m \in net' : GoodMsg(m, minted') BY DEF GroupInv
  <1>10. Grows
    <2> SUFFICES ASSUME NEW e \in Devices, group[e] # NoGroup, group'[e] # NoGroup
                 PROVE  Longer(group[e].lastOpDigest, group'[e].lastOpDigest)
      BY DEF Grows
    <2>1. e # d /\ group'[e] = group[e] BY <1>5
    <2> QED BY <2>1, OwnGroup
  <1> QED BY <1>1, <1>5, <1>7, <1>8, <1>9, <1>10 DEF GroupInv

\* Dropping messages changes nothing.
LEMMA DropsInv ==
  ASSUME GroupInv, UNCHANGED <<group, minted, shipped, crashes>>, net' \subseteq net
  PROVE  GroupInv' /\ Grows
  <1>1. InGroup' = InGroup BY DEF InGroup
  <1>2. GroupInv' BY <1>1 DEF GroupInv
  <1>3. Grows BY OwnGroup DEF Grows
  <1> QED BY <1>2, <1>3

\* handleCreate keeps the invariant.
LEMMA CreateInv ==
  ASSUME GroupInv, NEW d \in Devices, NEW m \in net, handleCreate(d, m)
  PROVE  GroupInv' /\ Grows
  <1>1. /\ m.type = "op" /\ m.op.kind[1] = "create"
        /\ net' \subseteq net /\ minted' = minted /\ shipped' = shipped /\ crashes' = crashes
        /\ \/ group' = group
           \/ group[d] = NoGroup /\ group' = [group EXCEPT ![d] = Founded(m.op)]
    BY DEF handleCreate, Take
  <1>2. m.op \in Ops /\ m.op.parent = << >> BY <1>1 DEF GroupInv, GoodMsg, GoodOp
  <1>3. minted \in Mints BY DEF GroupInv
  <1>4. WellKept(Founded(m.op), minted) /\ Founded(m.op).myCurrentDistributionId = 0
    BY <1>1, <1>2, <1>3, FoundedKept, Zenon
  <1>5. CASE group' = group BY <1>1, <1>5, DropsInv
  <1>6. CASE group[d] = NoGroup /\ group' = [group EXCEPT ![d] = Founded(m.op)]
    <2>1. net # {} OBVIOUS
    <2> QED BY <1>1, <1>4, <1>6, <2>1, JoinsInv, Zenon
  <1> QED BY <1>1, <1>5, <1>6

\* handleGroupBootstrap keeps the invariant.
LEMMA BootstrapInv ==
  ASSUME GroupInv, NEW d \in Devices, NEW m \in net, handleGroupBootstrap(d, m)
  PROVE  GroupInv' /\ Grows
  <1> DEFINE g == Bootstrapped(m)
  <1>1. /\ m.type = "bootstrap"
        /\ net' \subseteq net /\ minted' = minted /\ shipped' = shipped /\ crashes' = crashes
        /\ \/ group' = group
           \/ group[d] = NoGroup /\ group' = [group EXCEPT ![d] = g]
    BY DEF handleGroupBootstrap, Take
  <1>2. /\ m.members \in Members /\ m.currentEpoch \in Nat /\ m.lastOpDigest \in Digests
        /\ Commits(m.lastOpDigest, m.members, m.displayName)
        /\ Fresh(m.lastOpDigest, minted)
    BY <1>1 DEF GroupInv, GoodMsg, GoodSnapshot
  <1>3. g = [members |-> m.members, displayName |-> m.displayName,
             currentEpoch |-> m.currentEpoch, lastOpDigest |-> m.lastOpDigest,
             recentOpDigests |-> (m.currentEpoch :> m.lastOpDigest), pendingOps |-> << >>,
             myCurrentDistributionId |-> 0, mySkdmRecipients |-> {},
             pendingInvitation |-> TRUE]
    BY DEF Bootstrapped
  <1> HIDE DEF g
  <1>4. /\ g.members = m.members /\ g.displayName = m.displayName
        /\ g.currentEpoch = m.currentEpoch /\ g.lastOpDigest = m.lastOpDigest
        /\ g.recentOpDigests = (m.currentEpoch :> m.lastOpDigest) /\ g.pendingOps = << >>
        /\ g.myCurrentDistributionId = 0 /\ g.mySkdmRecipients = {}
        /\ g.pendingInvitation = TRUE
    BY <1>3
  <1>5. << >> \in Seq(LogOps) /\ << >> \in Seq(FreshOps(minted)) /\ Len(<< >>) = 0 OBVIOUS
  <1>6. IsGroup(g) BY <1>2, <1>3, <1>4, <1>5 DEF IsGroup
  <1>7. WellKept(g, minted) BY <1>2, <1>4, <1>5, <1>6 DEF WellKept, Faithful
  <1>8. CASE group' = group BY <1>1, <1>8, DropsInv
  <1>9. CASE group[d] = NoGroup /\ group' = [group EXCEPT ![d] = g]
    <2>1. net # {} OBVIOUS
    <2> QED BY <1>1, <1>4, <1>7, <1>9, <2>1, JoinsInv, Zenon
  <1> QED BY <1>1, <1>8, <1>9 DEF g

---------------------------------------------------------------------------
(* What arrives, and what an admin signs *)

\* An operation that is not applied is parked at most.
LEMMA NotApplied ==
  ASSUME NEW mint, NEW me \in Devices, NEW g, WellKept(g, mint), NEW op \in FreshOps(mint),
         Verdict(g, op, me) # "applied"
  PROVE  LET h == apply(g, op, me).g IN WellKept(h, mint) /\ SameButQueue(h, g)
  <1>1. op \in LogOps /\ IsGroup(g) BY DEF FreshOps, WellKept
  <1>2. SameButQueue(g, g) BY DEF SameButQueue
  <1>3. CASE Verdict(g, op, me) = "queued"
    <2>1. apply(g, op, me) = Untouched(queuePending(g, op)) BY <1>3 DEF apply
    <2>2. apply(g, op, me).g = queuePending(g, op) BY <2>1 DEF Untouched
    <2>3. op.epoch > g.currentEpoch + 1 BY <1>1, <1>3, VerdictIs
    <2> QED BY <2>2, <2>3, QueueKeeps, Zenon
  <1>4. CASE Verdict(g, op, me) # "queued"
    <2>1. apply(g, op, me) = Untouched(g) BY <1>4 DEF apply
    <2>2. apply(g, op, me).g = g BY ONLY <2>1 DEF Untouched
    <2> QED BY <1>2, <2>2
  <1> QED BY <1>3, <1>4

\* An operation under way may be applied or parked.
LEMMA OpUnderWay ==
  ASSUME GroupInv, NEW m \in net, m.type = "op", m.op.kind[1] # "create"
  PROVE  m.op \in FreshOps(minted)
  <1>1. GoodOp(m.op, minted) BY DEF GroupInv, GoodMsg
  <1> QED BY <1>1 DEF GoodOp, FreshOps, LogOps

\* handleGroupOp keeps the invariant.
LEMMA GroupOpInv ==
  ASSUME HasLeast, GroupInv, NEW d \in Devices, NEW m \in net, handleGroupOp(d, m)
  PROVE  GroupInv' /\ Grows
  <1> DEFINE g == group[d]
             a == apply(g, m.op, d)
  <1>1. m.type = "op" /\ m.op.kind[1] # "create" /\ g # NoGroup BY Zenon DEF handleGroupOp
  <1>2. m.op \in FreshOps(minted) BY <1>1, OpUnderWay, Zenon
  <1>3. /\ d \in InGroup /\ Own(g, d, minted) /\ minted \in Mints
        /\ Issued(shipped, minted) /\ WellKept(g, minted)
        /\ Longer(g.lastOpDigest, g.lastOpDigest)
        /\ crashes = 0 => KeysOK(g, d, shipped)
    BY <1>1, OwnGroup DEF Own
  <1>4. CASE Verdict(g, m.op, d) = "applied"
    <2>1. PICK reach \in Reach[d] :
              Finish(d, applyPostMutationSideEffects(a, d, reach, minted[d]), {m})
      BY <1>4 DEF handleGroupOp
    <2> DEFINE r == applyPostMutationSideEffects(a, d, reach, minted[d])
    <2>2. IsAcc(a) /\ WellKept(a.g, minted) /\ Since(g, a, d) BY <1>2, <1>3, ApplyKeeps, Zenon
    <2> HIDE DEF a
    <2>3. Kept(r, g, d, minted, shipped) BY <1>3, <2>2, PostKeeps, ZenonT(60)
    <2> HIDE DEF r
    <2>4. /\ Honest(r, g, d, minted, shipped)
          /\ crashes = 0 => KeysOK(r.g, d, shipped \cup Sent(d, r.msgs))
      BY <1>3, <2>3 DEF Kept
    <2> QED BY <1>3, <2>1, <2>4, FinishIs, ZenonT(60) DEF r
  <1>5. CASE Verdict(g, m.op, d) # "applied"
    <2> DEFINE h == a.g
               r == Result(h, {}, minted[d])
    <2>1. /\ net' \subseteq net /\ group' = [group EXCEPT ![d] = h]
          /\ minted' = minted /\ shipped' = shipped /\ crashes' = crashes
      BY <1>5, Zenon DEF handleGroupOp, Take
    <2>2. WellKept(h, minted) /\ SameButQueue(h, g) BY <1>2, <1>3, <1>5, NotApplied, ZenonT(60)
    <2> HIDE DEF h, a
    <2>3. Own(h, d, minted) BY <1>3, <2>2 DEF Own, SameButQueue
    <2>4. Longer(g.lastOpDigest, h.lastOpDigest) BY <1>3, <2>2 DEF SameButQueue
    <2>5. Honest(r, g, d, minted, shipped) /\ r.g = h /\ Sent(d, r.msgs) = {}
      BY <1>3, <2>3, <2>4, NothingDone, Zenon
    <2>6. r.msgs = {} /\ r.n = minted[d] BY Zenon DEF Result
    <2> HIDE DEF r
    <2>7. KeysOK(g, d, shipped) => KeysOK(h, d, shipped)
      BY <2>2, Zenon DEF KeysOK, SameButQueue, activeMembers
    <2>8. crashes = 0 => KeysOK(r.g, d, shipped \cup Sent(d, r.msgs)) BY <1>3, <2>5, <2>7, Zenon
    <2>9. minted' = [minted EXCEPT ![d] = r.n] BY <1>3, <2>1, <2>6, Zenon DEF Mints
    <2>10. /\ net' \subseteq net \cup r.msgs /\ shipped' = shipped \cup Sent(d, r.msgs)
           /\ group' = [group EXCEPT ![d] = r.g] /\ crashes' = crashes
      BY <2>1, <2>5
    <2> QED BY <1>3, <2>5, <2>8, <2>9, <2>10, Answered, Zenon
  <1> QED BY <1>4, <1>5

\* handleGroupKeyDistribution keeps the invariant.
LEMMA KeyInv ==
  ASSUME HasLeast, GroupInv, NEW d \in Devices, NEW m \in net, handleGroupKeyDistribution(d, m)
  PROVE  GroupInv' /\ Grows
  <1> DEFINE g == group[d]
  <1>1. g # NoGroup BY DEF handleGroupKeyDistribution
  <1>2. CASE m.from \notin activeMembers(g)
    <2>1. UNCHANGED <<group, minted, shipped, crashes>> /\ net' \subseteq net
      BY <1>2 DEF handleGroupKeyDistribution, Take
    <2> QED BY <2>1, DropsInv
  <1>3. CASE m.from \in activeMembers(g)
    <2> DEFINE h == [g EXCEPT !.members[m.from].status = "active"]
               ms == [g.members EXCEPT ![m.from].status = "active"]
               a == Untouched(h)
    <2>1. PICK reach \in Reach[d] :
              Finish(d, applyPostMutationSideEffects(a, d, reach, minted[d]), {m})
      BY <1>3 DEF handleGroupKeyDistribution
    <2> DEFINE r == applyPostMutationSideEffects(a, d, reach, minted[d])
    <2>2. /\ d \in InGroup /\ Own(g, d, minted) /\ minted \in Mints
          /\ Issued(shipped, minted) /\ WellKept(g, minted) /\ IsGroup(g)
          /\ Longer(g.lastOpDigest, g.lastOpDigest)
          /\ crashes = 0 => KeysOK(g, d, shipped)
      BY <1>1, OwnGroup, Zenon DEF Own
    <2>3. /\ g.members \in Members /\ g.myCurrentDistributionId \in Nat
          /\ g.pendingInvitation \in BOOLEAN
          /\ m.from \in Devices /\ g.members[m.from].status \in {"active", "pendingSKDM"}
      BY <1>3, <2>2, ZenonT(60) DEF IsGroup, activeMembers
    <2>4. h = Refit(g, ms, g.myCurrentDistributionId, g.mySkdmRecipients, g.pendingInvitation)
      <3>1. PICK f : f = h BY Zenon
      <3>2. f = Refit(g, ms, g.myCurrentDistributionId, g.mySkdmRecipients, g.pendingInvitation)
        BY <2>2, <3>1, Restated
      <3> QED BY <3>1, <3>2
    <2>5. /\ ms \in Members /\ memberSetRoot(ms) = memberSetRoot(g.members)
          /\ \A q \in Devices : ms[q].status = "removed" <=> g.members[q].status = "removed"
          /\ \A q \in Devices : ms[q].status \in {"active", "pendingSKDM"} <=>
                                g.members[q].status \in {"active", "pendingSKDM"}
      BY <2>3, Activated, Zenon
    <2> HIDE DEF ms, h
    <2>6. /\ WellKept(h, minted) /\ h.lastOpDigest = g.lastOpDigest /\ h.members = ms
          /\ h.myCurrentDistributionId = g.myCurrentDistributionId
          /\ h.pendingInvitation = g.pendingInvitation
      <3>1. Fits(g, minted, ms, g.myCurrentDistributionId, g.pendingInvitation)
        BY <2>2, <2>3, <2>5, Zenon DEF Fits
      <3>2. Fitted(h, g, minted, ms, g.myCurrentDistributionId, g.pendingInvitation)
        BY <2>4, <3>1, RefitKeeps, Zenon
      <3> QED BY <3>2, Zenon DEF Fitted
    <2>7. IsGroup(h) BY <2>6, Zenon DEF WellKept
    <2>8. IsAcc(a) /\ a.g = h BY <2>7, UntouchedIs
    <2> HIDE DEF a
    <2>9. activeMembers(h) = activeMembers(g) BY <2>5, <2>6, Zenon DEF activeMembers
    <2>10. Since(g, a, d) BY <2>2, <2>5, <2>6, <2>8, <2>9, Zenon DEF Since
    <2>11. Kept(r, g, d, minted, shipped) BY <2>2, <2>6, <2>8, <2>10, PostKeeps, Zenon
    <2> HIDE DEF r
    <2>12. /\ Honest(r, g, d, minted, shipped)
           /\ crashes = 0 => KeysOK(r.g, d, shipped \cup Sent(d, r.msgs))
      BY <2>2, <2>11, Zenon DEF Kept
    <2> QED BY <2>1, <2>2, <2>12, FinishIs, Zenon DEF r
  <1> QED BY <1>2, <1>3

\* The side effects answer with a result.
LEMMA PostIsResult ==
  ASSUME NEW acc, NEW d, NEW reach, NEW n
  PROVE  LET r == applyPostMutationSideEffects(acc, d, reach, n)
         IN  r = Result(r.g, r.msgs, r.n)
  <1>1. \A g, msgs, k : LET r == Result(g, msgs, k) IN r = Result(r.g, r.msgs, r.n)
    BY DEF Result
  <1>2. \E g, msgs, k : applyPostMutationSideEffects(acc, d, reach, n) = Result(g, msgs, k)
    <2>1. \A h, k : \E g, msgs, j : rotateMyGroupChain(h, d, reach, k) = Result(g, msgs, j)
      BY Zenon DEF rotateMyGroupChain
    <2>2. \A h, k : \E g, msgs, j :
             ensureMySKDMReachesActiveMembers(h, d, reach, k) = Result(g, msgs, j)
      BY Zenon DEF ensureMySKDMReachesActiveMembers
    <2> DEFINE back == d \in activeMembers(acc.g)
               m == IF acc.clear /\ back THEN n + 1 ELSE n
               g == IF acc.clear
                    THEN [acc.g EXCEPT !.myCurrentDistributionId = IF back THEN m ELSE 0,
                                       !.mySkdmRecipients = {}]
                    ELSE acc.g
               post == applyPostMutationSideEffects(acc, d, reach, n)
    <2>3. post = IF (acc.clear /\ ~back) \/ g.pendingInvitation THEN Result(g, {}, m)
                 ELSE IF acc.rotate THEN rotateMyGroupChain(g, d, reach, m)
                 ELSE ensureMySKDMReachesActiveMembers(g, d, reach, m)
      BY DEF applyPostMutationSideEffects
    <2> HIDE DEF back, m, g
    <2>4. \/ post = Result(g, {}, m) \/ post = rotateMyGroupChain(g, d, reach, m)
          \/ post = ensureMySKDMReachesActiveMembers(g, d, reach, m)
      BY <2>3
    <2> HIDE DEF post
    <2>5. CASE post = Result(g, {}, m) BY <2>5 DEF post
    <2>6. CASE post = rotateMyGroupChain(g, d, reach, m)
      <3>1. \E h, msgs, j : rotateMyGroupChain(g, d, reach, m) = Result(h, msgs, j) BY <2>1
      <3> QED BY <2>6, <3>1 DEF post
    <2>7. CASE post = ensureMySKDMReachesActiveMembers(g, d, reach, m)
      <3>1. \E h, msgs, j : ensureMySKDMReachesActiveMembers(g, d, reach, m) = Result(h, msgs, j)
        BY <2>2
      <3> QED BY <2>7, <3>1 DEF post
    <2> QED BY <2>4, <2>5, <2>6, <2>7
  <1> QED BY <1>1, <1>2

\* An answer with more messages, none of them a key.
LEMMA WithMore ==
  ASSUME NEW mint \in Mints, NEW d \in Devices, NEW post, NEW old, NEW given,
         Kept(post, old, d, mint, given), post = Result(post.g, post.msgs, post.n),
         NEW ops, NEW boot, \A m \in ops \cup boot : m.type # "key" /\ GoodMsg(m, mint)
  PROVE  LET r == [post EXCEPT !.msgs = @ \cup ops \cup boot]
         IN  /\ Honest(r, old, d, mint, given)
             /\ KeysOK(old, d, given) => KeysOK(r.g, d, given \cup Sent(d, r.msgs))
  <1> DEFINE r == [post EXCEPT !.msgs = @ \cup ops \cup boot]
             later == [mint EXCEPT ![d] = post.n]
  <1>1. /\ r.g = post.g /\ r.n = post.n /\ r.msgs = post.msgs \cup (ops \cup boot)
    <2>1. r = Result(post.g, (post.msgs \cup ops) \cup boot, post.n) BY DEF Result
    <2> QED BY <2>1 DEF Result
  <1> HIDE DEF r
  <1>2. /\ post.n \in Nat /\ mint[d] <= post.n /\ Own(post.g, d, later)
        /\ Longer(old.lastOpDigest, post.g.lastOpDigest)
        /\ \A m \in post.msgs : GoodMsg(m, later)
        /\ Issued(given \cup Sent(d, post.msgs), later)
    BY Zenon DEF Kept, Honest
  <1>3. Above(later, mint) BY <1>2 DEF Above, Mints
  <1>4. Sent(d, r.msgs) = Sent(d, post.msgs) BY <1>1, Zenon DEF Sent
  <1> HIDE DEF later
  <1>5. \A m \in r.msgs : GoodMsg(m, later) BY <1>1, <1>2, <1>3, LaterGood, Zenon
  <1>6. Honest(r, old, d, mint, given) BY <1>1, <1>2, <1>4, <1>5, Zenon DEF Honest, later
  <1>7. KeysOK(old, d, given) => KeysOK(r.g, d, given \cup Sent(d, r.msgs))
    BY <1>1, <1>4, Zenon DEF Kept
  <1> QED BY <1>6, <1>7 DEF r

\* What an admin signs keeps the invariant, whatever the change is.
LEMMA SignInv ==
  ASSUME HasLeast, GroupInv, NEW d \in Devices, group[d] # NoGroup, NEW kind \in Kinds,
         kind[1] # "create", kind[1] # "rotate", SignAndBroadcast(d, kind)
  PROVE  GroupInv' /\ Grows
  <1> DEFINE g == group[d]
             op == signOp(d, g, kind)
             acc == apply(g, op, d)
  <1>1. PICK reach \in Reach[d] :
          LET post == applyPostMutationSideEffects(acc, d, reach, minted[d])
              ops == {OpMsg(p, op) : p \in Others(acc.g, d, reach)}
              boot == IF kind[1] = "add" /\ kind[2] \in reach
                      THEN {BootMsg(kind[2], d, acc.g)} ELSE {}
          IN  Finish(d, [post EXCEPT !.msgs = @ \cup ops \cup boot], {})
    BY Zenon DEF SignAndBroadcast
  <1> DEFINE post == applyPostMutationSideEffects(acc, d, reach, minted[d])
             ops == {OpMsg(p, op) : p \in Others(acc.g, d, reach)}
             boot == IF kind[1] = "add" /\ kind[2] \in reach
                     THEN {BootMsg(kind[2], d, acc.g)} ELSE {}
             r == [post EXCEPT !.msgs = @ \cup ops \cup boot]
  <1>2. /\ d \in InGroup /\ Own(g, d, minted) /\ minted \in Mints
        /\ Issued(shipped, minted) /\ WellKept(g, minted) /\ IsGroup(g)
        /\ crashes = 0 => KeysOK(g, d, shipped)
    BY OwnGroup, Zenon DEF Own
  <1>3. /\ op.epoch = g.currentEpoch + 1 /\ op.parent = g.lastOpDigest /\ op.by = d
        /\ op.root = memberSetRoot(g.members) /\ op.kind = kind
        /\ op = [epoch |-> op.epoch, parent |-> op.parent, by |-> op.by, root |-> op.root,
                 kind |-> op.kind]
    BY Zenon DEF signOp
  <1> HIDE DEF op
  <1>4. /\ g.currentEpoch + 1 \in Nat /\ g.lastOpDigest \in Digests
        /\ memberSetRoot(g.members) \in Roots /\ Fresh(g.lastOpDigest, minted)
    <2>1. g.members \in Members /\ g.currentEpoch \in Nat /\ g.lastOpDigest \in Digests
      BY <1>2, ZenonT(60) DEF IsGroup
    <2>2. Fresh(g.lastOpDigest, minted) BY <1>2 DEF WellKept, Faithful
    <2>3. memberSetRoot(g.members) \in Roots BY <2>1, RootType, Zenon
    <2>4. g.currentEpoch + 1 \in Nat BY ONLY <2>1
    <2> QED BY <2>1, <2>2, <2>3, <2>4, Zenon
  <1>5. op \in Ops BY <1>3, <1>4 DEF Ops
  <1>6. op \in FreshOps(minted) /\ GoodOp(op, minted)
    BY <1>3, <1>4, <1>5, Zenon DEF FreshOps, LogOps, GoodOp
  <1>7. IsAcc(acc) /\ WellKept(acc.g, minted) /\ Since(g, acc, d)
    BY <1>2, <1>6, ApplyKeeps, Zenon
  <1> HIDE DEF acc
  <1>8. Kept(post, g, d, minted, shipped) BY <1>2, <1>7, PostKeeps, Zenon
  <1>9. post = Result(post.g, post.msgs, post.n) BY PostIsResult, Zenon
  <1> HIDE DEF post
  <1>10. \A m \in ops : m.type # "key" /\ GoodMsg(m, minted)
    <2> SUFFICES ASSUME NEW p PROVE LET m == OpMsg(p, op)
                                    IN  m.type # "key" /\ GoodMsg(m, minted)
      OBVIOUS
    <2>1. OpMsg(p, op).type = "op" /\ OpMsg(p, op).op = op BY Zenon DEF OpMsg
    <2> QED BY <1>6, <2>1, Zenon DEF GoodMsg
  <1>11. \A m \in boot : m.type # "key" /\ GoodMsg(m, minted)
    <2> DEFINE m == BootMsg(kind[2], d, acc.g)
    <2>1. /\ m.type = "bootstrap" /\ m.members = acc.g.members
          /\ m.displayName = acc.g.displayName /\ m.currentEpoch = acc.g.currentEpoch
          /\ m.lastOpDigest = acc.g.lastOpDigest
      BY DEF BootMsg
    <2> HIDE DEF m
    <2>2. GoodSnapshot(m, minted)
      BY <1>7, <2>1, Zenon DEF GoodSnapshot, WellKept, IsGroup, Faithful
    <2>3. m.type # "key" /\ GoodMsg(m, minted) BY <2>1, <2>2 DEF GoodMsg
    <2>4. boot \subseteq {m} BY Zenon DEF m
    <2> QED BY <2>3, <2>4, Zenon
  <1>12. \A m \in ops \cup boot : m.type # "key" /\ GoodMsg(m, minted) BY <1>10, <1>11
  <1>13. Finish(d, r, {}) BY <1>1 DEF post
  <1> HIDE DEF ops, boot
  <1>14. /\ Honest(r, g, d, minted, shipped)
         /\ KeysOK(g, d, shipped) => KeysOK(r.g, d, shipped \cup Sent(d, r.msgs))
    BY <1>2, <1>8, <1>9, <1>12, WithMore, Zenon
  <1> HIDE DEF r
  <1> QED BY <1>2, <1>13, <1>14, FinishIs, Zenon

\* createGroup keeps the invariant.
LEMMA CreatorInv ==
  ASSUME GroupInv, createGroup(Creator)
  PROVE  GroupInv' /\ Grows
  <1> DEFINE d == Creator
  <1>1. /\ d \in Devices /\ minted \in Mints /\ minted[d] = 0 /\ crashes \in Nat
        /\ InGroup = {} /\ net = {} /\ Issued(shipped, minted)
        /\ group = [e \in Devices |-> group[e]]
    BY GroupAssumption DEF GroupInv, createGroup
  <1>2. PICK S \in Invitees, reach \in Reach[d] :
          LET op == [epoch |-> 0, parent |-> << >>, by |-> d,
                     root |-> memberSetRoot([p \in Devices |-> NoRow]),
                     kind |-> <<"create", S>>]
              to == S \cap reach
          IN  /\ group' = [group EXCEPT ![d] =
                    [Founded(op) EXCEPT !.pendingInvitation = FALSE,
                                        !.myCurrentDistributionId = 1,
                                        !.mySkdmRecipients = to,
                                        !.members[d].status = "active"]]
              /\ net' = net \cup {OpMsg(p, op) : p \in to} \cup {KeyMsg(p, d, 1) : p \in to}
              /\ minted' = [minted EXCEPT ![d] = 1]
              /\ shipped' = shipped \cup {<<d, 1, p>> : p \in to}
              /\ UNCHANGED crashes
    BY Zenon DEF createGroup
  <1> DEFINE nobody == [p \in Devices |-> NoRow]
             op == [epoch |-> 0, parent |-> << >>, by |-> d,
                    root |-> memberSetRoot(nobody), kind |-> <<"create", S>>]
             to == S \cap reach
             f == Founded(op)
             h == [f EXCEPT !.pendingInvitation = FALSE]
             ms == [f.members EXCEPT ![d].status = "active"]
             g == Enrolled(h, 1, to, d)
  <1>3. /\ group' = [group EXCEPT ![d] = g] /\ crashes' = crashes
        /\ net' = net \cup {OpMsg(p, op) : p \in to} \cup {KeyMsg(p, d, 1) : p \in to}
        /\ minted' = [minted EXCEPT ![d] = 1]
        /\ shipped' = shipped \cup {<<d, 1, p>> : p \in to}
    BY <1>2 DEF Enrolled
  <1>4. nobody \in Members
    BY GroupAssumption DEF Members, Rows, NoRow, Roles, Statuses
  <1>5. memberSetRoot(nobody) \in Roots BY <1>4, RootType, Zenon
  <1> HIDE DEF nobody
  <1>6. <<"create", S>> \in Kinds BY GroupAssumption DEF Kinds
  <1>7. << >> \in Digests /\ Len(<< >>) = 0 BY DEF Digests
  <1>8. /\ op \in Ops /\ op.kind = <<"create", S>> /\ op.kind[1] = "create"
        /\ op.parent = << >> /\ op.by = d /\ op.epoch = 0
    BY <1>1, <1>5, <1>6, <1>7 DEF Ops
  <1> HIDE DEF op
  <1>9. Above(minted', minted) /\ minted' \in Mints /\ minted'[d] = 1
    BY <1>1, <1>3 DEF Above, Mints
  <1>10. /\ WellKept(f, minted') /\ f.members[d].status = "pendingSKDM"
         /\ \A p \in Devices : f.members[p].status # "removed"
         /\ f.pendingInvitation = TRUE
    BY <1>8, <1>9, FoundedKept, Zenon
  <1> HIDE DEF f
  <1>11. IsGroup(f) /\ f.members \in Members BY <1>10, Zenon DEF WellKept, IsGroup
  <1>12. /\ ms \in Members /\ memberSetRoot(ms) = memberSetRoot(f.members)
         /\ \A q \in Devices : ms[q].status = "removed" <=> f.members[q].status = "removed"
         /\ \A q \in Devices : ms[q].status \in {"active", "pendingSKDM"} <=>
                               f.members[q].status \in {"active", "pendingSKDM"}
    BY <1>1, <1>10, <1>11, Activated
  <1>13. h = Refit(f, f.members, f.myCurrentDistributionId, f.mySkdmRecipients, FALSE)
    <2>1. PICK b : b = h BY Zenon
    <2>2. b = Refit(f, f.members, f.myCurrentDistributionId, f.mySkdmRecipients, FALSE)
      BY <1>11, <2>1, Decided, Zenon
    <2> QED BY <2>1, <2>2, Zenon
  <1>14. g = Refit(f, ms, 1, to, FALSE)
    <2> HIDE DEF h
    <2>1. h = Refit(f, f.members, f.myCurrentDistributionId, f.mySkdmRecipients, FALSE)
      BY <1>13
    <2>2. /\ h.members = f.members /\ h.pendingInvitation = FALSE
          /\ \A ns, c, x : Refit(h, ns, c, x, FALSE) = Refit(f, ns, c, x, FALSE)
      BY <2>1, Zenon DEF Refit
    <2>3. IsGroup(h)
      <3>1. f.myCurrentDistributionId \in Nat BY <1>11 DEF IsGroup
      <3>2. Fits(f, minted', f.members, f.myCurrentDistributionId, FALSE)
        BY <1>10, <1>11, <3>1, Zenon DEF Fits
      <3>3. Fitted(h, f, minted', f.members, f.myCurrentDistributionId, FALSE)
        BY <2>1, <3>2, RefitKeeps, Zenon
      <3> QED BY <3>3, Zenon DEF Fitted, WellKept
    <2>4. g = Refit(h, [h.members EXCEPT ![d].status = "active"], 1, to, h.pendingInvitation)
      <3>1. PICK b : b = g OBVIOUS
      <3>2. b = Enrolled(h, 1, to, d) BY <3>1 DEF Enrolled
      <3>3. b = Refit(h, [h.members EXCEPT ![d].status = "active"], 1, to, h.pendingInvitation)
        BY <2>3, <3>2, EnrolledIs
      <3> QED BY <3>1, <3>3
    <2>5. g = Refit(h, ms, 1, to, FALSE) BY <2>2, <2>4, Zenon
    <2> QED BY <2>2, <2>5, Zenon
  <1> HIDE DEF g, ms, h
  <1>15. /\ WellKept(g, minted') /\ g.members = ms
         /\ g.myCurrentDistributionId = 1 /\ ~g.pendingInvitation
    <2>1. Fits(f, minted', ms, 1, FALSE) BY <1>10, <1>12 DEF Fits
    <2>2. Fitted(g, f, minted', ms, 1, FALSE) BY <1>14, <2>1, RefitKeeps, Zenon
    <2> QED BY <2>2, Zenon DEF Fitted
  <1>16. Own(g, d, minted') BY <1>9, <1>15 DEF Own
  <1>17. /\ group' = [e \in Devices |-> group'[e]] /\ group'[d] = g
         /\ \A e \in InGroup' : e = d
    BY <1>1, <1>3, Zenon DEF InGroup
  <1>18. KeysOK(g, d, shipped')
    <2>1. d \in activeMembers(g) BY <1>1, <1>10, <1>12, <1>15 DEF activeMembers
    <2>2. \A p \in Devices : g.members[p].status # "removed" BY <1>10, <1>12, <1>15, Zenon
    <2> QED BY <1>15, <2>1, <2>2, Zenon DEF KeysOK
  <1>19. Issued(shipped', minted')
    <2> SUFFICES ASSUME NEW q \in Devices, NEW y, NEW p, <<q, y, p>> \in shipped'
                 PROVE  y \in Nat /\ 1 <= y /\ y <= minted'[q]
      BY Zenon DEF Issued
    <2>1. CASE <<q, y, p>> \in shipped
      <3>1. y \in Nat /\ 1 <= y /\ y <= minted[q] BY <1>1, <2>1 DEF Issued
      <3>2. minted[q] \in Nat /\ minted'[q] \in Nat /\ minted[q] <= minted'[q]
        BY <1>9, Zenon DEF Above, Mints
      <3> QED BY <3>1, <3>2
    <2>2. CASE <<q, y, p>> \in {<<d, 1, z>> : z \in to}
      <3>1. q = d /\ y = 1 BY <2>2
      <3> QED BY <1>9, <3>1
    <2> QED BY <1>3, <2>1, <2>2, Zenon
  <1>20. \A m \in net' : GoodMsg(m, minted')
    <2>1. GoodOp(op, minted') BY <1>7, <1>8 DEF GoodOp, Fresh
    <2>2. \A p : LET m == OpMsg(p, op) IN m.type = "op" /\ m.op = op BY DEF OpMsg
    <2>3. \A p : KeyMsg(p, d, 1).type = "key" BY Zenon DEF KeyMsg
    <2>4. \A p : GoodMsg(OpMsg(p, op), minted') BY <2>1, <2>2 DEF GoodMsg
    <2>5. \A p : GoodMsg(KeyMsg(p, d, 1), minted') BY <2>3, Zenon DEF GoodMsg
    <2> QED BY <1>1, <1>3, <2>4, <2>5, Zenon
  <1>21. Grows BY <1>1 DEF Grows, InGroup
  <1>22. minted'[Creator] # 0 BY <1>9
  <1> QED BY <1>1, <1>3, <1>9, <1>16, <1>17, <1>18, <1>19, <1>20, <1>21, <1>22, ZenonT(60) DEF GroupInv

---------------------------------------------------------------------------
(* Every step, and what follows *)

\* What the screens offer an admin is signed.
LEMMA AdminInv ==
  ASSUME HasLeast, GroupInv, NEW d \in Devices,
         \/ \E p \in Devices : \/ inviteToGroup(d, p) \/ removeFromGroup(d, p)
                               \/ promoteToAdmin(d, p) \/ demoteFromAdmin(d, p)
         \/ \E name \in Names : renameGroup(d, name)
  PROVE  GroupInv' /\ Grows
  <1>1. PICK kind \in {<<"add", p>> : p \in Devices} \cup {<<"remove", p>> : p \in Devices}
                      \cup {<<"promote", p>> : p \in Devices}
                      \cup {<<"demote", p>> : p \in Devices}
                      \cup {<<"rename", x>> : x \in Names} :
          group[d] # NoGroup /\ SignAndBroadcast(d, kind)
    BY Zenon DEF inviteToGroup, removeFromGroup, promoteToAdmin, demoteFromAdmin, renameGroup, Joined
  <1>2. kind \in Kinds BY DEF Kinds, OnPeer
  <1>3. kind[1] # "create" /\ kind[1] # "rotate" OBVIOUS
  <1> QED BY <1>1, <1>2, <1>3, SignInv, Zenon

\* Whatever arrives.
LEMMA ReceiveInv ==
  ASSUME HasLeast, GroupInv, NEW d \in Devices, NEW m \in net, Receive(d, m)
  PROVE  GroupInv' /\ Grows
  <1>1. CASE DropUnknownGroup(d, m)
    <2>1. UNCHANGED <<group, minted, shipped, crashes>> /\ net' \subseteq net
      BY <1>1, Zenon DEF DropUnknownGroup, Take
    <2> QED BY <2>1, DropsInv
  <1> QED BY <1>1, CreateInv, GroupOpInv, BootstrapInv, KeyInv, Zenon DEF Receive

\* Nothing exists before the group is created.
LEMMA InitInv == Init => GroupInv
  <1> SUFFICES ASSUME Init PROVE GroupInv
    OBVIOUS
  <1>1. /\ minted \in Mints /\ crashes \in Nat /\ group = [d \in Devices |-> group[d]]
        /\ net = {} /\ shipped = {}
    BY DEF Init, Mints
  <1>2. InGroup = {} BY DEF Init, InGroup
  <1>3. Issued(shipped, minted) BY <1>1 DEF Issued
  <1> QED BY <1>1, <1>2, <1>3 DEF GroupInv

\* A step keeps the invariant and every log.
LEMMA NextInv == HasLeast /\ GroupInv /\ [Next]_vars => GroupInv' /\ Grows
  <1> SUFFICES ASSUME HasLeast, GroupInv, [Next]_vars PROVE GroupInv' /\ Grows
    OBVIOUS
  <1>1. CASE UNCHANGED vars
    <2>1. UNCHANGED <<group, minted, shipped, crashes>> /\ net' \subseteq net
      BY <1>1 DEF vars
    <2> QED BY <2>1, DropsInv
  <1>2. CASE createGroup(Creator) BY <1>2, CreatorInv, Zenon
  <1>3. ASSUME NEW d \in Devices,
               \/ \E p \in Devices : \/ inviteToGroup(d, p) \/ removeFromGroup(d, p)
                                     \/ promoteToAdmin(d, p) \/ demoteFromAdmin(d, p)
               \/ \E name \in Names : renameGroup(d, name)
               \/ RotateKey(d) \/ resendMyKeys(d) \/ acceptGroupInvitation(d)
               \/ declineGroupInvitation(d) \/ leaveGroup(d)
               \/ \E m \in net : Receive(d, m)
        PROVE  GroupInv' /\ Grows
    <2>1. CASE RotateKey(d) BY <1>3, <2>1, RotateKeyInv
    <2>2. CASE resendMyKeys(d) BY <1>3, <2>2, ResendInv
    <2>3. CASE acceptGroupInvitation(d) BY <1>3, <2>3, AcceptInv
    <2>4. CASE declineGroupInvitation(d) \/ leaveGroup(d) BY <1>3, <2>4, LeaveInv, Zenon
    <2>5. CASE \E m \in net : Receive(d, m) BY <1>3, <2>5, ReceiveInv
    <2> QED BY <1>3, <2>1, <2>2, <2>3, <2>4, <2>5, AdminInv
  <1> QED BY <1>1, <1>2, <1>3, Zenon DEF Next

---------------------------------------------------------------------------
(* The replay's order *)

LOCAL INSTANCE WellFoundedInduction

\* Every set of numbers with a member has a least one.
LEMMA Order == HasLeast
  <1> SUFFICES ASSUME NEW T \in SUBSET Nat, T # {} PROVE \E n \in T : \A m \in T : n <= m
    BY DEF HasLeast
  <1>1. PICK n \in T : \A m \in T : <<m, n>> \notin OpToRel(<, Nat)
    BY NatLessThanWellFounded, WFMin, Zenon
  <1>2. \A m \in T : ~(m < n) BY <1>1, Zenon DEF OpToRel
  <1> QED BY <1>2

---------------------------------------------------------------------------
(* What holds of every behaviour *)

\* The inductive invariant of the group: every copy is well kept, every message
\* under way is one of the log, and keys went to members only.
THEOREM GroupHolds == Spec => []GroupInv
  <1> QED BY InitInv, NextInv, Order, PTL DEF Spec

\* A digest determines the group: two devices with the same last digest hold
\* the same members with the same roles, and the same name (GroupApply.apply).
THEOREM SameLog == Spec => []SameLogSameGroup
  <1>1. GroupInv => SameLogSameGroup
    <2> SUFFICES ASSUME GroupInv, NEW d \in InGroup, NEW e \in InGroup,
                        group[d].lastOpDigest = group[e].lastOpDigest
                 PROVE  /\ memberSetRoot(group[d].members) = memberSetRoot(group[e].members)
                        /\ group[d].displayName = group[e].displayName
      BY Zenon DEF SameLogSameGroup
    <2>1. \A c \in InGroup : /\ group[c].lastOpDigest \in Digests
                             /\ Commits(group[c].lastOpDigest, group[c].members,
                                        group[c].displayName)
      BY Zenon DEF GroupInv, Own, WellKept, Faithful, IsGroup
    <2>2. /\ memberSetRoot(group[d].members) = memberSetRoot(group[e].members)
          /\ NameIs(group[d].lastOpDigest, group[d].displayName)
          /\ NameIs(group[d].lastOpDigest, group[e].displayName)
      BY <2>1, Zenon DEF Commits
    <2> QED BY <2>1, <2>2, NameUnique, Zenon
  <1> QED BY <1>1, GroupHolds, PTL

\* Nothing waits in pendingOps that could be applied (replayPending).
THEOREM NothingWaits == Spec => []NothingAppliableWaits
  <1>1. GroupInv => NothingAppliableWaits
    <2> SUFFICES ASSUME GroupInv, NEW d \in InGroup, NEW i \in DOMAIN group[d].pendingOps
                 PROVE  group[d].pendingOps[i].epoch > group[d].currentEpoch + 1
      BY DEF NothingAppliableWaits
    <2>1. WellKept(group[d], minted) BY DEF GroupInv, Own
    <2>2. group[d].pendingOps \in Seq(FreshOps(minted)) BY <2>1 DEF WellKept
    <2>3. i \in 1 .. Len(group[d].pendingOps) BY ONLY <2>2
    <2> QED BY <2>1, <2>3, Zenon DEF WellKept
  <1> QED BY <1>1, GroupHolds, PTL

\* A device that has seen a member removed sends under no chain that member was
\* given, unless a crash lost a change (applyPostMutationSideEffects).
THEOREM RemovedOut == Spec => []RemovedHoldsNoKey
  <1>1. GroupInv => RemovedHoldsNoKey
    BY DEF GroupInv, KeysOK, RemovedHoldsNoKey
  <1> QED BY <1>1, GroupHolds, PTL

\* The log of a device that keeps the group only grows: no branch replaces
\* another (GroupApply.apply's parent check, handleCreate, handleGroupBootstrap).
THEOREM LogGrows == Spec => LogOnlyGrows
  <1> DEFINE A == \A d \in Devices : (group[d] # NoGroup /\ group'[d] # NoGroup) =>
                     LET log == group[d].lastOpDigest
                         now == group'[d].lastOpDigest
                     IN  Len(log) <= Len(now) /\ SubSeq(now, 1, Len(log)) = log
  <1>1. ASSUME GroupInv, [Next]_vars PROVE A
    <2> SUFFICES ASSUME NEW d \in Devices, group[d] # NoGroup, group'[d] # NoGroup
                 PROVE  LET log == group[d].lastOpDigest
                            now == group'[d].lastOpDigest
                        IN  Len(log) <= Len(now) /\ SubSeq(now, 1, Len(log)) = log
      OBVIOUS
    <2> DEFINE a == group[d].lastOpDigest
               b == group'[d].lastOpDigest
    <2>1. GroupInv' /\ Grows BY <1>1, NextInv, Order
    <2>2. Longer(a, b) BY <2>1 DEF Grows
    <2>3. d \in InGroup /\ d \in InGroup' BY Zenon DEF InGroup
    <2>4. a \in Digests BY <1>1, <2>3, Zenon DEF GroupInv, Own, WellKept, IsGroup
    <2>5. b \in Digests BY <2>1, <2>3, Zenon DEF GroupInv, Own, WellKept, IsGroup
    <2> HIDE DEF a, b
    <2>6. /\ a \in Seq(Logged) /\ b \in Seq(Logged) /\ Len(a) <= Len(b)
          /\ \A i \in 1 .. Len(a) : b[i] = a[i]
      BY <2>2, <2>4, <2>5 DEF Longer, Digests
    <2>7. SubSeq(b, 1, Len(a)) = a BY <2>6
    <2> QED BY <2>6, <2>7 DEF a, b
  <1> QED BY <1>1, GroupHolds, PTL DEF Spec, LogOnlyGrows

=============================================================================
