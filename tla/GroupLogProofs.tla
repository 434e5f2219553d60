--------------------------- MODULE GroupLogProofs ---------------------------
(***************************************************************************)
(* Proofs about the operators of GroupApply, for any devices, names and    *)
(* caps: that the replay sorts, what a digest commits to, what apply and   *)
(* the replay of the queue keep, and whom the handlers give the chain in   *)
(* use.  GroupKeysProofs proves the properties of GroupLog from them.      *)
(***************************************************************************)
EXTENDS GroupApply, TLAPS

USE SMTT(20), ZenonT(20)

---------------------------------------------------------------------------
(* The order of the replay *)

\* Every set of numbers with a member has a least one. It is a hypothesis of
\* the lemmas about the replay; GroupKeysProofs proves it.
HasLeast == \A T \in SUBSET Nat : T # {} => \E n \in T : \A m \in T : n <= m

\* s holds operations of O, by epoch.
Ordered(s, O) ==
    s \in Seq(O) /\ \A i, j \in 1 .. Len(s) : i <= j => s[i].epoch <= s[j].epoch

\* r is s with one more operation.
Grown(r, s, op) ==
    /\ Len(r) = Len(s) + 1
    /\ \A i \in 1 .. Len(s) + 1 : r[i] = op \/ \E j \in 1 .. Len(s) : r[i] = s[j]

\* f is the table that InEpochOrder fills.
SortsInto(f, ops) ==
    /\ f[0] = << >> /\ \A i \in 1 .. Len(ops) : f[i] = Insert(f[i - 1], ops[i])
    /\ InEpochOrder(ops) = f[Len(ops)]

\* InEpochOrder sorts: the same operations, by epoch.
LEMMA Sorted ==
  HasLeast => \A O : \A ops \in Seq(O) : (\A op \in O : op.epoch \in Nat) =>
     /\ Ordered(InEpochOrder(ops), O) /\ Len(InEpochOrder(ops)) = Len(ops)
     /\ \A i \in 1 .. Len(ops) : \E j \in 1 .. Len(ops) : InEpochOrder(ops)[i] = ops[j]
  <1>LeastOf.
      ASSUME HasLeast, NEW T, T \subseteq Nat, T # {}
      PROVE  \E n \in T : \A m \in T : n <= m
      BY <1>LeastOf DEF HasLeast
  \* One more operation finds its place.
  <1>Inserted.
    ASSUME HasLeast, NEW O, \A op \in O : op.epoch \in Nat, NEW s, Ordered(s, O), NEW op \in O,
           NEW r, r = Insert(s, op)
    PROVE  Ordered(r, O) /\ Grown(r, s, op)
    <2> USE <1>Inserted
    <2> DEFINE n == Len(s)
               Place(k) == k \in 0 .. n /\ \A j \in 1 .. n : j <= k <=> s[j].epoch <= op.epoch
               Late == {j \in 1 .. n : ~(s[j].epoch <= op.epoch)}
               k == CHOOSE c \in 0 .. n : \A j \in 1 .. n : j <= c <=> s[j].epoch <= op.epoch
               t == [j \in 1 .. n + 1 |-> IF j <= k THEN s[j] ELSE IF j = k + 1 THEN op ELSE s[j - 1]]
    <2>1. /\ s \in Seq(O) /\ n \in Nat /\ op.epoch \in Nat
          /\ \A j \in 1 .. n : s[j] \in O /\ s[j].epoch \in Nat
          /\ \A i, j \in 1 .. n : i <= j => s[i].epoch <= s[j].epoch
      BY DEF Ordered
    <2>2. r = t BY DEF Insert
    <2> HIDE DEF n
    <2>3. \E c : Place(c)
      <3>1. CASE Late = {}
        <4>1. Place(n) BY <2>1, <3>1
        <4> QED BY <4>1
      <3>2. CASE Late # {}
        <4>1. Late \subseteq Nat BY <2>1
        <4> HIDE DEF Late
        <4>2. PICK c \in Late : \A m \in Late : c <= m BY <3>2, <4>1, <1>LeastOf, Zenon
        <4> USE DEF Late
        <4>3. c \in 1 .. n /\ ~(s[c].epoch <= op.epoch) OBVIOUS
        <4>4. c - 1 \in 0 .. n BY <2>1, <4>3
        <4>5. ASSUME NEW j \in 1 .. n, j <= c - 1 PROVE s[j].epoch <= op.epoch
          <5>1. ~(c <= j) BY <2>1, <4>3, <4>5
          <5> QED BY <4>2, <5>1
        <4>6. ASSUME NEW j \in 1 .. n, ~(j <= c - 1) PROVE ~(s[j].epoch <= op.epoch)
          <5>1. c <= j BY <2>1, <4>3, <4>6
          <5>2. s[c].epoch <= s[j].epoch BY <2>1, <4>3, <5>1
          <5>3. s[c].epoch \in Nat /\ s[j].epoch \in Nat BY <2>1, <4>3
          <5> QED BY <2>1, <4>3, <5>2, <5>3
        <4>7. Place(c - 1) BY <4>4, <4>5, <4>6
        <4> QED BY <4>7
      <3> QED BY <3>1, <3>2
    <2>4. k \in 0 .. n /\ \A j \in 1 .. n : j <= k <=> s[j].epoch <= op.epoch BY <2>3
    <2> HIDE DEF k
    <2>5. ASSUME NEW j \in 1 .. n + 1
          PROVE  /\ t[j] \in O
                 /\ t[j] = op \/ \E i \in 1 .. n : t[j] = s[i]
      <3>1. t[j] = IF j <= k THEN s[j] ELSE IF j = k + 1 THEN op ELSE s[j - 1] OBVIOUS
      <3> HIDE DEF t
      <3>2. CASE j <= k
        <4>1. j \in 1 .. n BY <2>1, <2>4, <3>2
        <4> QED BY <2>1, <3>1, <3>2, <4>1
      <3>3. CASE j = k + 1
        <4>1. ~(j <= k) BY <2>4, <3>3
        <4> QED BY <3>1, <3>3, <4>1
      <3>4. CASE ~(j <= k) /\ j # k + 1
        <4>1. j - 1 \in 1 .. n BY <2>1, <2>4, <3>4
        <4> QED BY <2>1, <3>1, <3>4, <4>1
      <3> QED BY <3>2, <3>3, <3>4
    <2>6. t \in Seq(O) /\ Len(t) = n + 1
      <3>1. t \in [1 .. n + 1 -> O] BY <2>5
      <3> HIDE DEF t
      <3> QED BY <2>1, <3>1
    <2>7. ASSUME NEW i \in 1 .. n + 1, NEW j \in 1 .. n + 1, i <= j PROVE t[i].epoch <= t[j].epoch
      <3>1. /\ t[i] = IF i <= k THEN s[i] ELSE IF i = k + 1 THEN op ELSE s[i - 1]
            /\ t[j] = IF j <= k THEN s[j] ELSE IF j = k + 1 THEN op ELSE s[j - 1]
        OBVIOUS
      <3> HIDE DEF t
      <3>2. CASE j <= k
        <4>1. i <= k /\ i \in 1 .. n /\ j \in 1 .. n BY <2>1, <2>4, <2>7, <3>2
        <4> QED BY <2>1, <2>7, <3>1, <3>2, <4>1
      <3>3. CASE j = k + 1
        <4>1. CASE i <= k
          <5>1. i \in 1 .. n /\ ~(j <= k) BY <2>1, <2>4, <3>3, <4>1
          <5> QED BY <2>4, <3>1, <3>3, <4>1, <5>1
        <4>2. CASE ~(i <= k)
          <5>1. i = k + 1 /\ ~(j <= k) BY <2>1, <2>4, <2>7, <3>3, <4>2
          <5> QED BY <2>1, <3>1, <3>3, <4>2, <5>1
        <4> QED BY <4>1, <4>2
      <3>4. CASE ~(j <= k) /\ j # k + 1
        <4>1. j - 1 \in 1 .. n /\ ~(j - 1 <= k) BY <2>1, <2>4, <3>4
        <4>2. t[j] = s[j - 1] /\ s[j - 1].epoch \in Nat BY <2>1, <3>1, <3>4, <4>1
        <4>3. CASE i <= k
          <5>1. i \in 1 .. n /\ i <= j - 1 BY <2>1, <2>4, <3>4, <4>3
          <5> QED BY <2>1, <3>1, <4>1, <4>2, <4>3, <5>1
        <4>4. CASE i = k + 1
          <5>1. ~(i <= k) BY <2>4, <4>4
          <5>2. t[i] = op BY <3>1, <4>4, <5>1
          <5>3. ~(s[j - 1].epoch <= op.epoch) BY <2>4, <4>1
          <5> QED BY <2>1, <4>2, <5>2, <5>3
        <4>5. CASE ~(i <= k) /\ i # k + 1
          <5>1. i - 1 \in 1 .. n /\ i - 1 <= j - 1 BY <2>1, <2>4, <2>7, <4>5
          <5> QED BY <2>1, <3>1, <4>1, <4>2, <4>5, <5>1
        <4> QED BY <4>3, <4>4, <4>5
      <3> QED BY <3>2, <3>3, <3>4
    <2> HIDE DEF t
    <2>8. Ordered(t, O) BY <2>6, <2>7 DEF Ordered
    <2> QED BY <2>2, <2>5, <2>6, <2>8 DEF n, Grown
  \* There is one for every queue.
  <1>SortIs.
    ASSUME HasLeast, NEW ops, Len(ops) \in Nat
    PROVE  \E f : SortsInto(f, ops)
    <2> USE <1>SortIs
    <2> DEFINE Body(f, n) == [i \in 0 .. n |-> IF i = 0 THEN << >> ELSE Insert(f[i - 1], ops[i])]
               Fails == {n \in Nat : ~\E f : f = Body(f, n)}
               table == CHOOSE f : f = Body(f, Len(ops))
    <2>1. InEpochOrder(ops) = table[Len(ops)] BY Zenon DEF InEpochOrder
    <2>2. Fails = {}
      <3> SUFFICES ASSUME Fails # {} PROVE FALSE OBVIOUS
      <3>1. PICK n \in Fails : \A m \in Fails : n <= m BY <1>LeastOf, Zenon
      <3>2. n \in Nat /\ ~\E f : f = Body(f, n) OBVIOUS
      <3>3. n # 0
        <4>1. Body([i \in {0} |-> << >>], 0) = [i \in {0} |-> << >>] OBVIOUS
        <4> QED BY <3>2, <4>1, Zenon
      <3>4. n - 1 \in Nat /\ n - 1 \notin Fails
        <4>1. n - 1 \in Nat /\ ~(n <= n - 1) BY <3>2, <3>3
        <4> HIDE DEF Fails
        <4> QED BY <3>1, <4>1
      <3>5. PICK f : f = Body(f, n - 1) BY <3>4
      <3> DEFINE h == [i \in 0 .. n |-> IF i = n THEN Insert(f[n - 1], ops[n]) ELSE f[i]]
      <3>6. \A i \in 0 .. n - 1 : f[i] = IF i = 0 THEN << >> ELSE Insert(f[i - 1], ops[i])
        BY <3>5
      <3>7. \A i \in 0 .. n : h[i] = IF i = 0 THEN << >> ELSE Insert(h[i - 1], ops[i])
        <4> SUFFICES ASSUME NEW i \in 0 .. n
                     PROVE  h[i] = IF i = 0 THEN << >> ELSE Insert(h[i - 1], ops[i])
          BY Zenon
        <4>1. CASE i = n
          <5>1. h[i - 1] = f[n - 1] BY <3>2, <3>3, <4>1
          <5> QED BY <3>2, <3>3, <4>1, <5>1
        <4>2. CASE i # n
          <5>1. i \in 0 .. n - 1 /\ h[i] = f[i] BY <3>2, <4>2
          <5>2. i # 0 => h[i - 1] = f[i - 1] BY <3>2, <4>2
          <5> QED BY <3>6, <5>1, <5>2
        <4> QED BY <4>1, <4>2
      <3>8. h = Body(h, n)
        <4>1. h = [i \in 0 .. n |-> h[i]] OBVIOUS
        <4> HIDE DEF h
        <4> QED BY <3>7, <4>1, Zenon
      <3> QED BY <3>2, <3>8, Zenon
    <2>3. \E f : f = Body(f, Len(ops)) BY <2>2
    <2>4. table = Body(table, Len(ops)) BY <2>3
    <2> HIDE DEF table
    <2>5. table[0] = << >> BY <2>4
    <2>6. \A i \in 1 .. Len(ops) : table[i] = Insert(table[i - 1], ops[i])
      <3> SUFFICES ASSUME NEW i \in 1 .. Len(ops) PROVE table[i] = Insert(table[i - 1], ops[i])
        OBVIOUS
      <3>1. i \in 0 .. Len(ops) /\ i # 0 OBVIOUS
      <3> QED BY <2>4, <3>1
    <2>7. SortsInto(table, ops) BY <2>1, <2>5, <2>6 DEF SortsInto
    <2> QED BY <2>7
  <1>Sorts.
    ASSUME HasLeast, NEW O, NEW ops \in Seq(O), \A op \in O : op.epoch \in Nat
    PROVE  /\ Ordered(InEpochOrder(ops), O) /\ Len(InEpochOrder(ops)) = Len(ops)
           /\ \A i \in 1 .. Len(ops) : \E j \in 1 .. Len(ops) : InEpochOrder(ops)[i] = ops[j]
    <2> USE <1>Sorts
    <2> DEFINE n == Len(ops)
    <2>1. n \in Nat /\ \A i \in 1 .. n : ops[i] \in O OBVIOUS
    <2>2. PICK f : SortsInto(f, ops) BY <2>1, <1>SortIs
    <2>3. /\ f[0] = << >> /\ \A i \in 1 .. n : f[i] = Insert(f[i - 1], ops[i])
          /\ InEpochOrder(ops) = f[n]
      BY <2>2 DEF SortsInto
    <2> DEFINE Good(k) == /\ Ordered(f[k], O) /\ Len(f[k]) = k
                          /\ \A i \in 1 .. k : \E j \in 1 .. k : f[k][i] = ops[j]
               Bad == {k \in 0 .. n : ~Good(k)}
    <2> HIDE DEF n
    <2>4. Good(0)
      <3>1. << >> \in Seq(O) /\ Len(<< >>) = 0 OBVIOUS
      <3> QED BY <2>3, <3>1 DEF Ordered
    <2>5. ASSUME NEW k \in 1 .. n, Good(k - 1) PROVE Good(k)
      <3> DEFINE s == f[k - 1]
                 t == f[k]
      <3>1. t = Insert(s, ops[k]) /\ ops[k] \in O BY <2>1, <2>3
      <3>2. Ordered(s, O) /\ Len(s) = k - 1 BY <2>5
      <3>3. \A i \in 1 .. k - 1 : \E j \in 1 .. k - 1 : s[i] = ops[j] BY <2>5
      <3> HIDE DEF s, t
      <3> DEFINE op == ops[k]
      <3> HIDE DEF op
      <3>a. op \in O /\ t = Insert(s, op) BY <3>1 DEF op
      <3>b. Ordered(t, O) /\ Grown(t, s, op) BY <3>2, <3>a, <1>Inserted, Zenon
      <3>4. /\ Ordered(t, O) /\ Len(t) = Len(s) + 1
            /\ \A i \in 1 .. Len(s) + 1 : t[i] = op \/ \E j \in 1 .. Len(s) : t[i] = s[j]
        BY <3>b, Zenon DEF Grown
      <3>5. k \in Nat /\ Len(s) + 1 = k /\ k \in 1 .. k /\ 1 .. k - 1 \subseteq 1 .. k BY <2>1, <3>2
      <3>6. ASSUME NEW i \in 1 .. k PROVE \E j \in 1 .. k : t[i] = ops[j]
        <4>1. CASE t[i] = op BY <3>5, <4>1 DEF op
        <4>2. CASE \E j \in 1 .. k - 1 : t[i] = s[j] BY <3>3, <3>5, <4>2
        <4> QED BY <3>2, <3>4, <3>5, <4>1, <4>2
      <3> QED BY <3>4, <3>5, <3>6 DEF t
    <2> HIDE DEF Good
    <2>6. Bad = {}
      <3> SUFFICES ASSUME Bad # {} PROVE FALSE OBVIOUS
      <3>1. Bad \subseteq Nat BY <2>1
      <3> HIDE DEF Bad
      <3>2. PICK k \in Bad : \A m \in Bad : k <= m BY <3>1, <1>LeastOf, Zenon
      <3> USE DEF Bad
      <3>3. k \in 0 .. n /\ ~Good(k) OBVIOUS
      <3>4. k # 0 BY <2>4, <3>3
      <3>5. k \in 1 .. n /\ k - 1 \in 0 .. n /\ ~(k <= k - 1) BY <2>1, <3>3, <3>4
      <3>6. Good(k - 1) BY <3>2, <3>5
      <3> QED BY <2>5, <3>3, <3>5, <3>6
    <2>7. Good(n) BY <2>1, <2>6
    <2> QED BY <2>3, <2>7 DEF Good, n
  <1> QED BY <1>Sorts

---------------------------------------------------------------------------
(* Types *)

Roles == {"none", "member", "admin"}
Statuses == {"absent", "active", "pendingSKDM", "removed"}
Rows == [role : Roles, joinedAtEpoch : Nat, status : Statuses, addedBy : Devices]
Members == [Devices -> Rows]
RowHashes == Roles \X Nat \X BOOLEAN \X Devices
Roots == UNION {[D -> RowHashes] : D \in SUBSET Devices}
OnPeer == {"add", "remove", "promote", "demote"} \X Devices
Kinds ==
    OnPeer \cup {<<"create", S>> : S \in SUBSET Devices}
           \cup {<<"rename", x>> : x \in Names} \cup {<<"rotate", n>> : n \in Nat}
Logged == Nat \X Devices \X Roots \X Kinds
Digests == Seq(Logged)
Ops == [epoch : Nat, parent : Digests, by : Devices, root : Roots, kind : Kinds]
LogOps == {op \in Ops : op.kind[1] # "create"}

IsGroup(g) ==
    /\ g = [members |-> g.members, displayName |-> g.displayName,
            currentEpoch |-> g.currentEpoch, lastOpDigest |-> g.lastOpDigest,
            recentOpDigests |-> g.recentOpDigests, pendingOps |-> g.pendingOps,
            myCurrentDistributionId |-> g.myCurrentDistributionId,
            mySkdmRecipients |-> g.mySkdmRecipients,
            pendingInvitation |-> g.pendingInvitation]
    /\ g.members \in Members
    /\ g.currentEpoch \in Nat
    /\ g.lastOpDigest \in Digests
    /\ g.pendingOps \in Seq(LogOps)
    /\ g.myCurrentDistributionId \in Nat
    /\ g.pendingInvitation \in BOOLEAN

\* The members after an operation.
MembersAfter(members, op) ==
    LET p == op.kind[2]
    IN  CASE op.kind[1] = "add"     -> [members EXCEPT ![p] = Row("member", op.epoch, op.by)]
          [] op.kind[1] = "remove"  -> [members EXCEPT ![p] = [members[p] EXCEPT !.status = "removed"]]
          [] op.kind[1] = "promote" -> [members EXCEPT ![p] = [members[p] EXCEPT !.role = "admin"]]
          [] op.kind[1] = "demote"  -> [members EXCEPT ![p] = [members[p] EXCEPT !.role = "member"]]
          [] OTHER                  -> members

---------------------------------------------------------------------------
(* What a digest commits to *)

\* The member-set root after the last operation of a history: each carries
\* the root before it.
RootAfter(e) ==
    LET root == e[3]
        p == e[4][2]
    IN  CASE e[4][1] = "create" ->
                [q \in {e[2]} \cup p |-> IF q = e[2] THEN <<"admin", 0, FALSE, e[2]>>
                                         ELSE <<"member", 0, FALSE, e[2]>>]
          [] e[4][1] = "add" ->
                [q \in DOMAIN root \cup {p} |->
                    IF q = p THEN <<"member", e[1], FALSE, e[2]>> ELSE root[q]]
          [] e[4][1] = "remove" ->
                [q \in DOMAIN root |->
                    IF q = p THEN <<root[q][1], root[q][2], TRUE, root[q][4]>> ELSE root[q]]
          [] e[4][1] = "promote" ->
                [q \in DOMAIN root |->
                    IF q = p THEN <<"admin", root[q][2], root[q][3], root[q][4]>> ELSE root[q]]
          [] e[4][1] = "demote" ->
                [q \in DOMAIN root |->
                    IF q = p THEN <<"member", root[q][2], root[q][3], root[q][4]>> ELSE root[q]]
          [] OTHER -> root

Renames(digest, i) == digest[i][4][1] = "rename"

\* The name is that of the last rename, or the first one.
NameIs(digest, name) ==
    \/ /\ \A i \in 1 .. Len(digest) : ~Renames(digest, i)
       /\ name = FirstName
    \/ \E i \in 1 .. Len(digest) :
          /\ Renames(digest, i) /\ name = digest[i][4][2]
          /\ \A j \in i + 1 .. Len(digest) : ~Renames(digest, j)

\* The members and the name are those the digest commits to.
Commits(digest, members, name) ==
    /\ Len(digest) > 0
    /\ memberSetRoot(members) = RootAfter(digest[Len(digest)])
    /\ NameIs(digest, name)

\* The entry of an operation in the history.
EntryOf(op) == <<op.epoch, op.by, op.root, op.kind>>

\* The row a root has for a member.
HashOf(row) == <<row.role, row.joinedAtEpoch, row.status = "removed", row.addedBy>>

\* A root is one of its type.
LEMMA RootType ==
  ASSUME NEW m \in Members
  PROVE  /\ memberSetRoot(m) \in Roots
         /\ DOMAIN memberSetRoot(m) = {q \in Devices : m[q].status # "absent"}
  <1> DEFINE D == {q \in Devices : m[q].status # "absent"}
  <1>1. \A p \in D : <<m[p].role, m[p].joinedAtEpoch, m[p].status = "removed", m[p].addedBy>>
                        \in RowHashes
    BY Zenon DEF Members, Rows, RowHashes
  <1>2. memberSetRoot(m) \in [D -> RowHashes] BY <1>1 DEF memberSetRoot
  <1>3. D \in SUBSET Devices OBVIOUS
  <1> HIDE DEF D
  <1> QED BY <1>2, <1>3 DEF Roots, D

\* The name a digest gives is one.
LEMMA NameUnique ==
  ASSUME NEW digest \in Digests, NEW x, NEW y, NameIs(digest, x), NameIs(digest, y)
  PROVE  x = y
  <1>1. Len(digest) \in Nat BY DEF Digests
  <1>2. CASE \A i \in 1 .. Len(digest) : ~Renames(digest, i)
    BY <1>2 DEF NameIs
  <1>3. CASE \E i \in 1 .. Len(digest) : Renames(digest, i)
    <2>1. PICK i \in 1 .. Len(digest) :
              /\ Renames(digest, i) /\ x = digest[i][4][2]
              /\ \A k \in i + 1 .. Len(digest) : ~Renames(digest, k)
      BY <1>3 DEF NameIs
    <2>2. PICK j \in 1 .. Len(digest) :
              /\ Renames(digest, j) /\ y = digest[j][4][2]
              /\ \A k \in j + 1 .. Len(digest) : ~Renames(digest, k)
      BY <1>3 DEF NameIs
    <2>3. ~(i < j) /\ ~(j < i) BY <1>1, <2>1, <2>2
    <2>4. i = j BY <1>1, <2>3
    <2> QED BY <2>1, <2>2, <2>4
  <1> QED BY <1>2, <1>3

\* A root, point by point.
LEMMA RootIs ==
  ASSUME NEW m \in Members
  PROVE  memberSetRoot(m) = [p \in {q \in Devices : m[q].status # "absent"} |-> HashOf(m[p])]
  BY DEF memberSetRoot, HashOf

---------------------------------------------------------------------------
(* One operation lands *)

IsAcc(a) ==
    /\ a = [g |-> a.g, rotate |-> a.rotate, clear |-> a.clear]
    /\ IsGroup(a.g)
    /\ a.rotate \in BOOLEAN /\ a.clear \in BOOLEAN

\* No rotation in the history is of a chain its device has yet to create.
Fresh(digest, mint) ==
    \A i \in 1 .. Len(digest) :
        digest[i][4][1] = "rotate" => digest[i][4][2] <= mint[digest[i][2]]

FreshOps(mint) ==
    {op \in LogOps : /\ Fresh(op.parent, mint)
                     /\ op.kind[1] = "rotate" => op.kind[2] <= mint[op.by]}

Faithful(g, mint) ==
    /\ Commits(g.lastOpDigest, g.members, g.displayName)
    /\ Fresh(g.lastOpDigest, mint)

Longer(d, e) == Len(d) <= Len(e) /\ \A i \in 1 .. Len(d) : e[i] = d[i]

\* How a group under change differs from what it was: the log is longer, and
\* a removal is not forgotten by the side effects, unless the device had been
\* removed itself.
Since(old, a, me) ==
    /\ Longer(old.lastOpDigest, a.g.lastOpDigest)
    /\ \A p \in Devices : a.g.members[p].status = "removed" =>
          \/ old.members[p].status = "removed"
          \/ a.rotate \/ a.clear
          \/ me \notin activeMembers(old)
    /\ me \notin activeMembers(a.g) => me \notin activeMembers(old) \/ a.clear
    /\ a.g.myCurrentDistributionId = old.myCurrentDistributionId
    /\ a.g.pendingInvitation = old.pendingInvitation

\* An operation that may be applied is next, continues the log, has the root
\* of the members, and acts on one of them.
LEMMA AppliedIs ==
  ASSUME NEW g, IsGroup(g), NEW op \in LogOps, NextVerdict(g, op) = "applied"
  PROVE  /\ op.parent = g.lastOpDigest
         /\ op.root = memberSetRoot(g.members)
         /\ op.kind[1] \in {"remove", "promote", "demote"} =>
               g.members[op.kind[2]].status \in {"active", "pendingSKDM"}
  <1>1. op.parent = g.lastOpDigest /\ op.root = memberSetRoot(g.members) /\ Mutates(g, op)
    BY DEF NextVerdict
  <1>2. op.kind[1] \in {"remove", "promote", "demote"} => op.kind[2] \in activeMembers(g)
    BY <1>1 DEF Mutates, Target
  <1> QED BY <1>1, <1>2 DEF activeMembers

\* Landing the next operation keeps what the group promises.
LEMMA LandKeeps ==
  \A mint, a : \A me \in Devices, op \in FreshOps(mint) :
     (/\ IsAcc(a) /\ Faithful(a.g, mint)
      /\ op.epoch = a.g.currentEpoch + 1 /\ NextVerdict(a.g, op) = "applied") =>
     LET b == Land(a, op, me)
     IN  /\ IsAcc(b) /\ Faithful(b.g, mint)
         /\ b.g.currentEpoch = a.g.currentEpoch + 1
         /\ b.g.members = MembersAfter(a.g.members, op)
         /\ b.g.pendingOps = a.g.pendingOps
         /\ b.g.lastOpDigest = Append(a.g.lastOpDigest, EntryOf(op))
         /\ \A old : old.lastOpDigest \in Digests /\ Since(old, a, me) => Since(old, b, me)
  \* A row is one of its type after every operation, and so are the members.
  <1>MembersType.
    ASSUME NEW m \in Members, NEW op \in LogOps
    PROVE  MembersAfter(m, op) \in Members
    <2> USE <1>MembersType
    <2>1. op.epoch \in Nat /\ op.by \in Devices /\ op.kind \in Kinds BY DEF LogOps, Ops
    <2>2. Row("member", op.epoch, op.by) \in Rows BY <2>1 DEF Row, Rows, Roles, Statuses
    <2>3. \A p \in Devices : /\ [m[p] EXCEPT !.status = "removed"] \in Rows
                             /\ [m[p] EXCEPT !.role = "admin"] \in Rows
                             /\ [m[p] EXCEPT !.role = "member"] \in Rows
      BY DEF Members, Rows, Roles, Statuses
    <2> QED BY <2>1, <2>2, <2>3, Zenon DEF MembersAfter, Members
  \* What executeMutation leaves of the group.
  <1>ExecIs.
    ASSUME NEW g, IsGroup(g), NEW op \in LogOps
    PROVE  LET h == executeMutation(g, op)
           IN  /\ IsGroup(h)
               /\ h.members = MembersAfter(g.members, op)
               /\ h.displayName = IF op.kind[1] = "rename" THEN op.kind[2] ELSE g.displayName
               /\ h.currentEpoch = g.currentEpoch
               /\ h.lastOpDigest = g.lastOpDigest
               /\ h.pendingOps = g.pendingOps
               /\ h.myCurrentDistributionId = g.myCurrentDistributionId
               /\ h.pendingInvitation = g.pendingInvitation
    <2> USE <1>ExecIs
    <2> DEFINE p == op.kind[2]
               M == MembersAfter(g.members, op)
    <2>1. op.kind \in Kinds BY DEF LogOps, Ops
    <2>2. M \in Members BY <1>MembersType DEF IsGroup
    <2>3. CASE op.kind[1] = "add"
      <3>1. executeMutation(g, op) = [g EXCEPT !.members[p] = Row("member", op.epoch, op.by)]
        BY <2>3 DEF executeMutation, Target
      <3>2. executeMutation(g, op) = [g EXCEPT !.members = M]
        BY <2>3, <3>1 DEF MembersAfter, IsGroup
      <3> HIDE DEF M
      <3> QED BY <2>2, <2>3, <3>2 DEF IsGroup, M
    <2>4. CASE op.kind[1] = "remove"
      <3>1. executeMutation(g, op) = [g EXCEPT !.members[p].status = "removed",
                                               !.mySkdmRecipients = g.mySkdmRecipients \ {p}]
        BY <2>4 DEF executeMutation, Target, IsGroup
      <3>2. executeMutation(g, op) = [g EXCEPT !.members = M,
                                               !.mySkdmRecipients = g.mySkdmRecipients \ {p}]
        BY <2>4, <3>1 DEF MembersAfter, IsGroup
      <3> HIDE DEF M
      <3> QED BY <2>2, <2>4, <3>2, Zenon DEF IsGroup, M
    <2>5. CASE op.kind[1] = "promote"
      <3>1. executeMutation(g, op) = [g EXCEPT !.members[p].role = "admin"]
        BY <2>5 DEF executeMutation, Target
      <3>2. executeMutation(g, op) = [g EXCEPT !.members = M]
        BY <2>5, <3>1 DEF MembersAfter, IsGroup
      <3> HIDE DEF M
      <3> QED BY <2>2, <2>5, <3>2 DEF IsGroup, M
    <2>6. CASE op.kind[1] = "demote"
      <3>1. executeMutation(g, op) = [g EXCEPT !.members[p].role = "member"]
        BY <2>6 DEF executeMutation, Target
      <3>2. executeMutation(g, op) = [g EXCEPT !.members = M]
        BY <2>6, <3>1 DEF MembersAfter, IsGroup
      <3> HIDE DEF M
      <3> QED BY <2>2, <2>6, <3>2 DEF IsGroup, M
    <2>7. CASE op.kind[1] = "rename"
      <3>1. executeMutation(g, op) = [g EXCEPT !.displayName = p]
        BY <2>7 DEF executeMutation, Target
      <3>2. M = g.members BY <2>7 DEF MembersAfter
      <3> QED BY <2>7, <3>1, <3>2 DEF IsGroup
    <2>8. CASE op.kind[1] \notin {"add", "remove", "promote", "demote", "rename"}
      <3>1. executeMutation(g, op) = g BY <2>8 DEF executeMutation
      <3>2. M = g.members BY <2>8 DEF MembersAfter
      <3> QED BY <2>8, <3>1, <3>2
    <2> QED BY <2>3, <2>4, <2>5, <2>6, <2>7, <2>8
  \* One more operation renames the group or leaves its name.
  <1>NameAppend.
    ASSUME NEW digest \in Digests, NEW e \in Logged, NEW x, NameIs(digest, x)
    PROVE  NameIs(Append(digest, e), IF e[4][1] = "rename" THEN e[4][2] ELSE x)
    <2> USE <1>NameAppend
    <2> DEFINE a == Append(digest, e)
               n == Len(digest)
    <2>1. /\ n \in Nat /\ Len(a) = n + 1 /\ a[n + 1] = e
          /\ \A i \in 1 .. n : a[i] = digest[i]
      BY DEF Digests
    <2> HIDE DEF a, n
    <2>2. \A i \in 1 .. n : Renames(a, i) <=> Renames(digest, i) BY <2>1 DEF Renames
    <2>3. Renames(a, n + 1) <=> e[4][1] = "rename" BY <2>1 DEF Renames
    <2>4. CASE e[4][1] = "rename"
      <3>1. \A j \in (n + 1) + 1 .. Len(a) : ~Renames(a, j) BY <2>1
      <3> QED BY <2>1, <2>3, <2>4, <3>1 DEF NameIs, a
    <2>5. CASE e[4][1] # "rename"
      <3>1. CASE \A i \in 1 .. n : ~Renames(digest, i)
        <4>1. \A i \in 1 .. n + 1 : ~Renames(a, i) BY <2>1, <2>2, <2>3, <2>5, <3>1
        <4>2. x = FirstName BY <3>1 DEF NameIs, n
        <4> QED BY <2>1, <2>5, <4>1, <4>2 DEF NameIs, a
      <3>2. CASE ~\A i \in 1 .. n : ~Renames(digest, i)
        <4>1. PICK i \in 1 .. n :
                  /\ Renames(digest, i) /\ x = digest[i][4][2]
                  /\ \A j \in i + 1 .. n : ~Renames(digest, j)
          BY <3>2 DEF NameIs, n
        <4>2. \A j \in i + 1 .. n + 1 : ~Renames(a, j)
          BY <2>1, <2>2, <2>3, <2>5, <4>1
        <4>3. i \in 1 .. Len(a) /\ Renames(a, i) /\ x = a[i][4][2] BY <2>1, <2>2, <4>1
        <4> QED BY <2>1, <2>5, <4>2, <4>3 DEF NameIs, a
      <3> QED BY <3>1, <3>2
    <2> QED BY <2>4, <2>5
  \* The members after an operation have the root that its entry gives.
  <1>RootStep.
    ASSUME NEW m \in Members, NEW op \in LogOps, op.root = memberSetRoot(m),
           op.kind[1] \in {"remove", "promote", "demote"} =>
              m[op.kind[2]].status \in {"active", "pendingSKDM"}
    PROVE  memberSetRoot(MembersAfter(m, op)) = RootAfter(EntryOf(op))
    <2> USE <1>RootStep
    <2> DEFINE p == op.kind[2]
               M == MembersAfter(m, op)
               D == {q \in Devices : m[q].status # "absent"}
               E == {q \in Devices : M[q].status # "absent"}
               e == EntryOf(op)
    <2>1. /\ op.epoch \in Nat /\ op.by \in Devices /\ op.kind \in Kinds
          /\ op.kind[1] # "create"
      BY DEF LogOps, Ops
    <2>2. e[1] = op.epoch /\ e[2] = op.by /\ e[3] = memberSetRoot(m) /\ e[4] = op.kind
      BY DEF EntryOf
    <2>3. M \in Members BY <1>MembersType
    <2>4. /\ DOMAIN memberSetRoot(m) = D
          /\ \A q \in D : memberSetRoot(m)[q] = HashOf(m[q])
      BY RootIs, Zenon
    <2>5. memberSetRoot(M) = [q \in E |-> HashOf(M[q])] BY <2>3, RootIs, Zenon
    <2> HIDE DEF e
    <2>6. CASE op.kind[1] = "add"
      <3>1. p \in Devices BY <2>1, <2>6 DEF Kinds, OnPeer
      <3>2. M = [m EXCEPT ![p] = Row("member", op.epoch, op.by)] BY <2>6 DEF MembersAfter
      <3>3. /\ M[p] = Row("member", op.epoch, op.by)
            /\ \A q \in Devices \ {p} : M[q] = m[q]
        BY <3>1, <3>2 DEF Members
      <3>4. HashOf(M[p]) = <<"member", op.epoch, FALSE, op.by>> /\ M[p].status # "absent"
        <4>1. /\ M[p].role = "member" /\ M[p].joinedAtEpoch = op.epoch
              /\ M[p].status = "pendingSKDM" /\ M[p].addedBy = op.by
          BY <3>3 DEF Row
        <4>2. (M[p].status = "removed") = FALSE BY <4>1
        <4> HIDE DEF M
        <4> QED BY <4>1, <4>2, Zenon DEF HashOf
      <3> HIDE DEF M
      <3>5. E = D \cup {p} BY <3>1, <3>3, <3>4
      <3>6. RootAfter(e) = [q \in D \cup {p} |-> IF q = p THEN <<"member", op.epoch, FALSE, op.by>>
                                                 ELSE memberSetRoot(m)[q]]
        BY <2>2, <2>4, <2>6 DEF RootAfter
      <3>7. \A q \in D \cup {p} : HashOf(M[q]) = IF q = p THEN <<"member", op.epoch, FALSE, op.by>>
                                                 ELSE memberSetRoot(m)[q]
        BY <2>4, <3>3, <3>4, Zenon
      <3> QED BY <2>5, <3>5, <3>6, <3>7, Zenon DEF e, M
    <2>7. CASE op.kind[1] \in {"remove", "promote", "demote"}
      <3> DEFINE H == CASE op.kind[1] = "remove" -> <<m[p].role, m[p].joinedAtEpoch, TRUE, m[p].addedBy>>
                        [] op.kind[1] = "promote" ->
                              <<"admin", m[p].joinedAtEpoch, FALSE, m[p].addedBy>>
                        [] OTHER -> <<"member", m[p].joinedAtEpoch, FALSE, m[p].addedBy>>
      <3>1. p \in Devices /\ p \in D BY <2>1, <2>7 DEF Kinds, OnPeer
      <3>2. m[p] \in Rows /\ m[p].status \in {"active", "pendingSKDM"} BY <2>7, <3>1 DEF Members
      <3>3. /\ \A q \in Devices \ {p} : M[q] = m[q]
            /\ HashOf(M[p]) = H /\ M[p].status # "absent"
        <4>1. CASE op.kind[1] = "remove"
          <5>1. M = [m EXCEPT ![p] = [m[p] EXCEPT !.status = "removed"]]
            BY <4>1 DEF MembersAfter
          <5>2. M[p] = [m[p] EXCEPT !.status = "removed"] /\ \A q \in Devices \ {p} : M[q] = m[q]
            BY <3>1, <5>1 DEF Members
          <5>3. /\ M[p].role = m[p].role /\ M[p].joinedAtEpoch = m[p].joinedAtEpoch
                /\ M[p].status = "removed" /\ M[p].addedBy = m[p].addedBy
            BY <3>2, <5>2 DEF Rows
          <5>4. (M[p].status = "removed") = TRUE BY <5>3
          <5> HIDE DEF M
          <5>5. HashOf(M[p]) = <<m[p].role, m[p].joinedAtEpoch, TRUE, m[p].addedBy>>
            BY <5>3, <5>4, Zenon DEF HashOf
          <5> QED BY <4>1, <5>2, <5>3, <5>5, Zenon DEF M
        <4>2. CASE op.kind[1] = "promote"
          <5>1. M = [m EXCEPT ![p] = [m[p] EXCEPT !.role = "admin"]]
            BY <4>2 DEF MembersAfter
          <5>2. M[p] = [m[p] EXCEPT !.role = "admin"] /\ \A q \in Devices \ {p} : M[q] = m[q]
            BY <3>1, <5>1 DEF Members
          <5>3. /\ M[p].role = "admin" /\ M[p].joinedAtEpoch = m[p].joinedAtEpoch
                /\ M[p].status = m[p].status /\ M[p].addedBy = m[p].addedBy
            BY <3>2, <5>2 DEF Rows
          <5>4. (M[p].status = "removed") = FALSE BY <3>2, <5>3
          <5> HIDE DEF M
          <5>5. HashOf(M[p]) = <<"admin", m[p].joinedAtEpoch, FALSE, m[p].addedBy>>
            BY <5>3, <5>4, Zenon DEF HashOf
          <5> QED BY <3>2, <4>2, <5>2, <5>3, <5>5, Zenon DEF M
        <4>3. CASE op.kind[1] = "demote"
          <5>1. M = [m EXCEPT ![p] = [m[p] EXCEPT !.role = "member"]]
            BY <4>3 DEF MembersAfter
          <5>2. M[p] = [m[p] EXCEPT !.role = "member"] /\ \A q \in Devices \ {p} : M[q] = m[q]
            BY <3>1, <5>1 DEF Members
          <5>3. /\ M[p].role = "member" /\ M[p].joinedAtEpoch = m[p].joinedAtEpoch
                /\ M[p].status = m[p].status /\ M[p].addedBy = m[p].addedBy
            BY <3>2, <5>2 DEF Rows
          <5>4. (M[p].status = "removed") = FALSE BY <3>2, <5>3
          <5> HIDE DEF M
          <5>5. HashOf(M[p]) = <<"member", m[p].joinedAtEpoch, FALSE, m[p].addedBy>>
            BY <5>3, <5>4, Zenon DEF HashOf
          <5> QED BY <3>2, <4>3, <5>2, <5>3, <5>5, Zenon DEF M
        <4> QED BY <2>7, <4>1, <4>2, <4>3
      <3> HIDE DEF M
      <3>4. E = D BY <3>1, <3>3
      <3>5. memberSetRoot(m)[p] = <<m[p].role, m[p].joinedAtEpoch, FALSE, m[p].addedBy>>
        <4>1. (m[p].status = "removed") = FALSE BY <3>2
        <4> QED BY <2>4, <3>1, <4>1, Zenon DEF HashOf
      <3>6. RootAfter(e) = [q \in D |-> IF q = p THEN H ELSE memberSetRoot(m)[q]]
        <4> DEFINE R == memberSetRoot(m)
        <4> HIDE DEF R
        <4>a. R[p][1] = m[p].role /\ R[p][2] = m[p].joinedAtEpoch /\ R[p][3] = FALSE
              /\ R[p][4] = m[p].addedBy
          BY <3>5 DEF R
        <4>1. CASE op.kind[1] = "remove"
          <5>1. RootAfter(e) = [q \in DOMAIN R |-> IF q = p THEN <<R[q][1], R[q][2], TRUE, R[q][4]>> ELSE R[q]]
            BY <2>2, <4>1 DEF RootAfter, R
          <5>2. H = <<m[p].role, m[p].joinedAtEpoch, TRUE, m[p].addedBy>> BY <4>1, Zenon
          <5> HIDE DEF H
          <5>3. \A q \in D : (IF q = p THEN <<R[q][1], R[q][2], TRUE, R[q][4]>> ELSE R[q]) = (IF q = p THEN H ELSE R[q])
            BY <4>a, <5>2, Zenon
          <5> QED BY <2>4, <5>1, <5>3, Zenon DEF R
        <4>2. CASE op.kind[1] = "promote"
          <5>1. RootAfter(e) = [q \in DOMAIN R |-> IF q = p THEN <<"admin", R[q][2], R[q][3], R[q][4]>> ELSE R[q]]
            BY <2>2, <4>2 DEF RootAfter, R
          <5>2. H = <<"admin", m[p].joinedAtEpoch, FALSE, m[p].addedBy>> BY <4>2, Zenon
          <5> HIDE DEF H
          <5>3. \A q \in D : (IF q = p THEN <<"admin", R[q][2], R[q][3], R[q][4]>> ELSE R[q]) = (IF q = p THEN H ELSE R[q])
            BY <4>a, <5>2, Zenon
          <5> QED BY <2>4, <5>1, <5>3 DEF R
        <4>3. CASE op.kind[1] = "demote"
          <5>1. RootAfter(e) = [q \in DOMAIN R |-> IF q = p THEN <<"member", R[q][2], R[q][3], R[q][4]>> ELSE R[q]]
            BY <2>2, <4>3 DEF RootAfter, R
          <5>2. H = <<"member", m[p].joinedAtEpoch, FALSE, m[p].addedBy>> BY <4>3, Zenon
          <5> HIDE DEF H
          <5>3. \A q \in D : (IF q = p THEN <<"member", R[q][2], R[q][3], R[q][4]>> ELSE R[q]) = (IF q = p THEN H ELSE R[q])
            BY <4>a, <5>2, Zenon
          <5> QED BY <2>4, <5>1, <5>3 DEF R
        <4> QED BY <2>7, <4>1, <4>2, <4>3, Zenon
      <3> HIDE DEF H
      <3>7. \A q \in D : HashOf(M[q]) = IF q = p THEN H ELSE memberSetRoot(m)[q]
        BY <2>4, <3>3
      <3> QED BY <2>5, <3>4, <3>6, <3>7 DEF e, M
    <2>8. CASE op.kind[1] \notin {"create", "add", "remove", "promote", "demote"}
      <3>1. M = m BY <2>8 DEF MembersAfter
      <3>2. RootAfter(e) = memberSetRoot(m) BY <2>2, <2>8, Zenon DEF RootAfter
      <3> QED BY <3>1, <3>2 DEF e
    <2> QED BY <2>1, <2>6, <2>7, <2>8
  \* What Land makes of the group, field by field.
  <1>LandIs.
    ASSUME NEW a, IsAcc(a), NEW op \in LogOps, NEW me
    PROVE  LET b == Land(a, op, me)
           IN  /\ IsAcc(b)
               /\ b.g.members = MembersAfter(a.g.members, op)
               /\ b.g.displayName = IF op.kind[1] = "rename" THEN op.kind[2] ELSE a.g.displayName
               /\ b.g.currentEpoch = op.epoch
               /\ b.g.lastOpDigest = Append(op.parent, EntryOf(op))
               /\ b.g.pendingOps = a.g.pendingOps
               /\ b.g.myCurrentDistributionId = a.g.myCurrentDistributionId
               /\ b.g.pendingInvitation = a.g.pendingInvitation
               /\ b.rotate <=> \/ a.rotate
                               \/ /\ op.kind[1] = "remove" /\ op.kind[2] # me
                                  /\ me \in activeMembers(b.g)
               /\ b.clear <=> a.clear \/ (op.kind[1] = "remove" /\ op.kind[2] = me)
    <2> USE <1>LandIs
    <2> DEFINE x == executeMutation(a.g, op)
               R == recordDigest(x.recentOpDigests, Digest(op), op.epoch)
               h == [x EXCEPT !.currentEpoch = op.epoch, !.lastOpDigest = Digest(op),
                              !.recentOpDigests = R]
               b == Land(a, op, me)
               rot == a.rotate \/ (op.kind[1] = "remove" /\ op.kind[2] # me /\ me \in activeMembers(h))
               clr == a.clear \/ (op.kind[1] = "remove" /\ op.kind[2] = me)
    <2>1. /\ IsGroup(x)
          /\ x.members = MembersAfter(a.g.members, op)
          /\ x.displayName = IF op.kind[1] = "rename" THEN op.kind[2] ELSE a.g.displayName
          /\ x.pendingOps = a.g.pendingOps
          /\ x.myCurrentDistributionId = a.g.myCurrentDistributionId
          /\ x.pendingInvitation = a.g.pendingInvitation
      BY <1>ExecIs DEF IsAcc
    <2>2. Digest(op) = Append(op.parent, EntryOf(op)) /\ Digest(op) \in Digests
      <3>1. op.parent \in Digests /\ EntryOf(op) \in Logged BY DEF LogOps, Ops, EntryOf, Logged
      <3> QED BY <3>1 DEF Digest, EntryOf, Digests
    <2>3. op.epoch \in Nat BY DEF LogOps, Ops
    <2>4. b = [g |-> h, rotate |-> rot, clear |-> clr]
      BY DEF Land, Target, IsGroup
    <2> HIDE DEF x, R, b
    <2>5. /\ h.members = x.members /\ h.displayName = x.displayName
          /\ h.currentEpoch = op.epoch /\ h.lastOpDigest = Digest(op)
          /\ h.pendingOps = x.pendingOps
          /\ h.myCurrentDistributionId = x.myCurrentDistributionId
          /\ h.pendingInvitation = x.pendingInvitation
          /\ IsGroup(h)
      <3> DEFINE d == Digest(op)
      <3> HIDE DEF d
      <3>1. h = [x EXCEPT !.currentEpoch = op.epoch, !.lastOpDigest = d, !.recentOpDigests = R]
        BY DEF d
      <3> HIDE DEF h
      <3>2. h = [members |-> x.members, displayName |-> x.displayName,
                 currentEpoch |-> op.epoch, lastOpDigest |-> d,
                 recentOpDigests |-> R, pendingOps |-> x.pendingOps,
                 myCurrentDistributionId |-> x.myCurrentDistributionId,
                 mySkdmRecipients |-> x.mySkdmRecipients,
                 pendingInvitation |-> x.pendingInvitation]
        BY <2>1, <3>1, Zenon DEF IsGroup
      <3> QED BY <2>1, <2>2, <2>3, <3>2 DEF IsGroup, d
    <2> HIDE DEF h
    <2>6. b.g = h /\ b.rotate = rot /\ b.clear = clr BY <2>4
    <2>7. IsAcc(b) BY <2>4, <2>5, <2>6 DEF IsAcc
    <2> QED BY <2>1, <2>2, <2>5, <2>6, <2>7, Zenon DEF b
  \* Entries of a log operation.
  <1>EntryType.
    ASSUME NEW op \in LogOps
    PROVE  /\ EntryOf(op) \in Logged
           /\ EntryOf(op)[2] = op.by /\ EntryOf(op)[4] = op.kind
    BY <1>EntryType DEF LogOps, Ops, EntryOf, Logged
  \* Appending keeps the freshness of a history, and makes it longer.
  <1>AppendFresh.
    ASSUME NEW d \in Digests, NEW e \in Logged, NEW mint, Fresh(d, mint),
           e[4][1] = "rotate" => e[4][2] <= mint[e[2]]
    PROVE  /\ Append(d, e) \in Digests /\ Fresh(Append(d, e), mint)
           /\ Len(Append(d, e)) = Len(d) + 1 /\ Append(d, e)[Len(d) + 1] = e
           /\ \A old \in Digests : Longer(old, d) => Longer(old, Append(d, e))
    <2> USE <1>AppendFresh
    <2> DEFINE a == Append(d, e)
    <2>1. /\ Len(d) \in Nat /\ a \in Digests /\ Len(a) = Len(d) + 1 /\ a[Len(d) + 1] = e
          /\ \A i \in 1 .. Len(d) : a[i] = d[i]
      BY DEF Digests
    <2> HIDE DEF a
    <2>2. Fresh(a, mint)
      <3> SUFFICES ASSUME NEW i \in 1 .. Len(d) + 1, a[i][4][1] = "rotate"
                   PROVE  a[i][4][2] <= mint[a[i][2]]
        BY <2>1 DEF Fresh
      <3>1. CASE i = Len(d) + 1 BY <2>1, <3>1
      <3>2. CASE i \in 1 .. Len(d) BY <2>1, <3>2 DEF Fresh
      <3> QED BY <2>1, <3>1, <3>2
    <2>3. ASSUME NEW old \in Digests, Longer(old, d) PROVE Longer(old, a)
      <3>1. Len(old) \in Nat BY DEF Digests
      <3> QED BY <2>1, <2>3, <3>1 DEF Longer
    <2> QED BY <2>1, <2>2, <2>3 DEF a
  \* Whose status an operation changes.
  <1>StatusAfter.
    ASSUME NEW m \in Members, NEW op \in LogOps, NEW p \in Devices
    PROVE  /\ MembersAfter(m, op)[p].status = "removed" =>
                 m[p].status = "removed" \/ (op.kind[1] = "remove" /\ op.kind[2] = p)
           /\ (m[p].status \in {"active", "pendingSKDM"} /\ ~(op.kind[1] = "remove" /\ op.kind[2] = p))
                 => MembersAfter(m, op)[p].status \in {"active", "pendingSKDM"}
    <2> USE <1>StatusAfter
    <2> DEFINE q == op.kind[2]
    <2>1. op.kind \in Kinds BY DEF LogOps, Ops
    <2>2. m[p] \in Rows BY Zenon DEF Members
    <2>3. CASE op.kind[1] = "add"
      <3>1. MembersAfter(m, op) = [m EXCEPT ![q] = Row("member", op.epoch, op.by)]
        BY <2>3 DEF MembersAfter
      <3>2. MembersAfter(m, op)[p] = IF p = q THEN Row("member", op.epoch, op.by) ELSE m[p]
        BY <3>1 DEF Members
      <3> QED BY <2>3, <3>2 DEF Row
    <2>4. CASE op.kind[1] = "remove"
      <3>1. MembersAfter(m, op) = [m EXCEPT ![q] = [m[q] EXCEPT !.status = "removed"]]
        BY <2>4 DEF MembersAfter
      <3>2. p # q => MembersAfter(m, op)[p] = m[p] BY <3>1 DEF Members
      <3> QED BY <2>4, <3>2
    <2>5. CASE op.kind[1] = "promote"
      <3>1. MembersAfter(m, op) = [m EXCEPT ![q] = [m[q] EXCEPT !.role = "admin"]]
        BY <2>5 DEF MembersAfter
      <3>2. MembersAfter(m, op)[p] = IF p = q THEN [m[p] EXCEPT !.role = "admin"] ELSE m[p]
        BY <3>1 DEF Members
      <3>3. MembersAfter(m, op)[p].status = m[p].status BY <2>2, <3>2 DEF Rows
      <3> QED BY <2>5, <3>3
    <2>6. CASE op.kind[1] = "demote"
      <3>1. MembersAfter(m, op) = [m EXCEPT ![q] = [m[q] EXCEPT !.role = "member"]]
        BY <2>6 DEF MembersAfter
      <3>2. MembersAfter(m, op)[p] = IF p = q THEN [m[p] EXCEPT !.role = "member"] ELSE m[p]
        BY <3>1 DEF Members
      <3>3. MembersAfter(m, op)[p].status = m[p].status BY <2>2, <3>2 DEF Rows
      <3> QED BY <2>6, <3>3
    <2>7. CASE op.kind[1] \notin {"add", "remove", "promote", "demote"}
      <3>1. MembersAfter(m, op) = m BY <2>7, Zenon DEF MembersAfter
      <3> QED BY <2>7, <3>1
    <2> QED BY <2>3, <2>4, <2>5, <2>6, <2>7
  <1>Lands.
    ASSUME NEW mint, NEW a, IsAcc(a), Faithful(a.g, mint), NEW me \in Devices,
           NEW op \in FreshOps(mint), op.epoch = a.g.currentEpoch + 1,
           NextVerdict(a.g, op) = "applied"
    PROVE  LET b == Land(a, op, me)
           IN  /\ IsAcc(b) /\ Faithful(b.g, mint)
               /\ b.g.currentEpoch = a.g.currentEpoch + 1
               /\ b.g.members = MembersAfter(a.g.members, op)
               /\ b.g.pendingOps = a.g.pendingOps
               /\ b.g.lastOpDigest = Append(a.g.lastOpDigest, EntryOf(op))
               /\ \A old : old.lastOpDigest \in Digests /\ Since(old, a, me) => Since(old, b, me)
    <2> USE <1>Lands
    <2> DEFINE b == Land(a, op, me)
               e == EntryOf(op)
    <2>1. op \in LogOps /\ (op.kind[1] = "rotate" => op.kind[2] <= mint[op.by])
      BY DEF FreshOps
    <2>2. /\ IsGroup(a.g) /\ a.g.members \in Members /\ a.g.lastOpDigest \in Digests
      BY Zenon DEF IsAcc, IsGroup
    <2>3. /\ op.parent = a.g.lastOpDigest
          /\ op.root = memberSetRoot(a.g.members)
          /\ op.kind[1] \in {"remove", "promote", "demote"} =>
                a.g.members[op.kind[2]].status \in {"active", "pendingSKDM"}
      BY <2>1, <2>2, AppliedIs, Zenon
    <2>4. /\ IsAcc(b)
          /\ b.g.members = MembersAfter(a.g.members, op)
          /\ b.g.displayName = IF op.kind[1] = "rename" THEN op.kind[2] ELSE a.g.displayName
          /\ b.g.currentEpoch = op.epoch
          /\ b.g.lastOpDigest = Append(a.g.lastOpDigest, e)
          /\ b.g.pendingOps = a.g.pendingOps
          /\ b.g.myCurrentDistributionId = a.g.myCurrentDistributionId
          /\ b.g.pendingInvitation = a.g.pendingInvitation
          /\ b.rotate <=> \/ a.rotate
                          \/ /\ op.kind[1] = "remove" /\ op.kind[2] # me
                             /\ me \in activeMembers(b.g)
          /\ b.clear <=> a.clear \/ (op.kind[1] = "remove" /\ op.kind[2] = me)
      BY <2>1, <2>3, <1>LandIs
    <2>5. e \in Logged /\ e[2] = op.by /\ e[4] = op.kind BY <2>1, <1>EntryType
    <2>6. /\ Fresh(b.g.lastOpDigest, mint)
          /\ Len(b.g.lastOpDigest) = Len(a.g.lastOpDigest) + 1
          /\ b.g.lastOpDigest[Len(a.g.lastOpDigest) + 1] = e
          /\ \A old \in Digests : Longer(old, a.g.lastOpDigest) => Longer(old, b.g.lastOpDigest)
      BY <2>1, <2>2, <2>4, <2>5, <1>AppendFresh DEF Faithful
    <2>7. memberSetRoot(b.g.members) = RootAfter(e) BY <2>1, <2>2, <2>3, <2>4, <1>RootStep, Zenon
    <2>8. NameIs(b.g.lastOpDigest, b.g.displayName)
      BY <2>2, <2>4, <2>5, <1>NameAppend, ZenonT(60) DEF Faithful, Commits
    <2>9. Faithful(b.g, mint)
      <3>1. Len(a.g.lastOpDigest) \in Nat BY <2>2 DEF Digests
      <3>2. Len(b.g.lastOpDigest) > 0 BY ONLY <2>6, <3>1
      <3> QED BY <2>6, <2>7, <2>8, <3>2 DEF Faithful, Commits
    <2> HIDE DEF b, e
    <2>10. ASSUME NEW old, old.lastOpDigest \in Digests, Since(old, a, me)
           PROVE  Since(old, b, me)
      <3>1. Longer(old.lastOpDigest, b.g.lastOpDigest) BY <2>6, <2>10, Zenon DEF Since
      <3>2. me \in activeMembers(a.g) /\ ~(op.kind[1] = "remove" /\ op.kind[2] = me) =>
                me \in activeMembers(b.g)
        BY ONLY <2>1, <2>2, <2>4, <1>StatusAfter DEF activeMembers
      <3>3. me \notin activeMembers(b.g) => me \notin activeMembers(old) \/ b.clear
        BY <2>4, <2>10, <3>2 DEF Since
      <3>4. ASSUME NEW p \in Devices, b.g.members[p].status = "removed"
            PROVE  \/ old.members[p].status = "removed" \/ b.rotate \/ b.clear
                   \/ me \notin activeMembers(old)
        <4>1. a.g.members[p].status = "removed" \/ (op.kind[1] = "remove" /\ op.kind[2] = p)
          BY ONLY <2>1, <2>2, <2>4, <3>4, <1>StatusAfter
        <4>2. CASE a.g.members[p].status = "removed"
          BY <2>4, <2>10, <4>2, Zenon DEF Since
        <4>3. CASE op.kind[1] = "remove" /\ op.kind[2] = p
          BY <2>4, <3>3, <4>3
        <4> QED BY <4>1, <4>2, <4>3, Zenon
      <3> QED BY <2>4, <2>10, <3>1, <3>3, <3>4 DEF Since
    <2> QED BY <2>3, <2>4, <2>9, <2>10, Zenon DEF b, e
  <1> QED BY <1>Lands

---------------------------------------------------------------------------
(* The queue *)

\* What a group keeps when only its queue changes.
SameButQueue(h, g) ==
    /\ h.members = g.members /\ h.displayName = g.displayName
    /\ h.currentEpoch = g.currentEpoch /\ h.lastOpDigest = g.lastOpDigest
    /\ h.myCurrentDistributionId = g.myCurrentDistributionId
    /\ h.pendingInvitation = g.pendingInvitation

\* Replacing the queue of a group.
LEMMA Requeued ==
  ASSUME NEW g, IsGroup(g), NEW q \in Seq(LogOps)
  PROVE  LET h == [g EXCEPT !.pendingOps = q]
         IN  IsGroup(h) /\ h.pendingOps = q /\ SameButQueue(h, g)
  <1> DEFINE h == [g EXCEPT !.pendingOps = q]
  <1>1. h = [members |-> g.members, displayName |-> g.displayName,
             currentEpoch |-> g.currentEpoch, lastOpDigest |-> g.lastOpDigest,
             recentOpDigests |-> g.recentOpDigests, pendingOps |-> q,
             myCurrentDistributionId |-> g.myCurrentDistributionId,
             mySkdmRecipients |-> g.mySkdmRecipients,
             pendingInvitation |-> g.pendingInvitation]
    BY DEF IsGroup
  <1> HIDE DEF h
  <1>2. /\ h.members = g.members /\ h.displayName = g.displayName
        /\ h.currentEpoch = g.currentEpoch /\ h.lastOpDigest = g.lastOpDigest
        /\ h.recentOpDigests = g.recentOpDigests /\ h.pendingOps = q
        /\ h.myCurrentDistributionId = g.myCurrentDistributionId
        /\ h.mySkdmRecipients = g.mySkdmRecipients
        /\ h.pendingInvitation = g.pendingInvitation
    BY <1>1
  <1>3. IsGroup(h) BY <1>1, <1>2 DEF IsGroup
  <1> QED BY <1>2, <1>3 DEF h, SameButQueue

\* What stays true of the group while replayPending walks the queue: whatever
\* was kept is early, and no later than the operation just tried.
Walked(b, mint, bound) ==
    /\ IsAcc(b) /\ Faithful(b.g, mint)
    /\ b.g.pendingOps \in Seq(FreshOps(mint))
    /\ \A i \in 1 .. Len(b.g.pendingOps) :
          /\ b.g.pendingOps[i].epoch > b.g.currentEpoch + 1
          /\ b.g.pendingOps[i].epoch <= bound

\* f is the table that replayPending fills.
Fills(f, acc, ops, me) ==
    /\ f[0] = [acc EXCEPT !.g.pendingOps = <<>>]
    /\ \A i \in 1 .. Len(ops) : f[i] = Retry(f[i - 1], ops[i], me)
    /\ replayPending(acc, me) = f[Len(ops)]

\* What holds of every device's group at rest: it is well formed and faithful
\* to its log, and what waits in the queue is too early for it.
WellKept(g, mint) ==
    /\ IsGroup(g) /\ Faithful(g, mint)
    /\ g.pendingOps \in Seq(FreshOps(mint))
    /\ \A i \in 1 .. Len(g.pendingOps) : g.pendingOps[i].epoch > g.currentEpoch + 1

Parked(g, digest) == \E i \in 1 .. Len(g.pendingOps) : g.pendingOps[i].parent = digest

---------------------------------------------------------------------------
(* apply *)

Mints == [Devices -> Nat]

Above(later, mint) ==
    /\ mint \in Mints /\ later \in Mints
    /\ \A d \in Devices : mint[d] <= later[d]

\* Creating chains takes nothing from what was known of the older ones.
LEMMA LaterFresh ==
  ASSUME NEW mint, NEW later, Above(later, mint)
  PROVE  /\ \A d \in Digests : Fresh(d, mint) => Fresh(d, later)
         /\ FreshOps(mint) \subseteq FreshOps(later)
         /\ \A g : WellKept(g, mint) => WellKept(g, later)
  <1>1. ASSUME NEW x, NEW p \in Devices, <<"rotate", x>> \in Kinds, x <= mint[p]
        PROVE  x <= later[p]
    <2>1. x \in Nat BY <1>1 DEF Kinds, OnPeer
    <2> QED BY <1>1, <2>1 DEF Above, Mints
  <1>2. \A k \in Kinds : k[1] = "rotate" => k = <<"rotate", k[2]>> BY DEF Kinds, OnPeer
  <1>3. ASSUME NEW d \in Digests, Fresh(d, mint) PROVE Fresh(d, later)
    <2> SUFFICES ASSUME NEW i \in 1 .. Len(d), d[i][4][1] = "rotate"
                 PROVE  d[i][4][2] <= later[d[i][2]]
      BY DEF Fresh
    <2>1. d[i] \in Logged BY DEF Digests
    <2>2. d[i][2] \in Devices /\ d[i][4] \in Kinds BY <2>1 DEF Logged
    <2>3. d[i][4][2] <= mint[d[i][2]] BY <1>3 DEF Fresh
    <2>4. d[i][4] = <<"rotate", d[i][4][2]>> BY <1>2, <2>2
    <2> QED BY <1>1, <2>2, <2>3, <2>4, Zenon
  <1>4. ASSUME NEW op \in FreshOps(mint) PROVE op \in FreshOps(later)
    <2>1. /\ op \in LogOps /\ op.parent \in Digests /\ op.by \in Devices /\ op.kind \in Kinds
          /\ Fresh(op.parent, mint) /\ (op.kind[1] = "rotate" => op.kind[2] <= mint[op.by])
      BY DEF FreshOps, LogOps, Ops
    <2>2. op.kind[1] = "rotate" => op.kind[2] <= later[op.by] BY <1>1, <1>2, <2>1
    <2> QED BY <1>3, <2>1, <2>2 DEF FreshOps
  <1>5. ASSUME NEW g, WellKept(g, mint) PROVE WellKept(g, later)
    <2>1. g.lastOpDigest \in Digests BY <1>5 DEF WellKept, IsGroup
    <2>2. Faithful(g, later) BY <1>3, <1>5, <2>1 DEF WellKept, Faithful
    <2>3. g.pendingOps \in Seq(FreshOps(later))
      <3>1. FreshOps(mint) \subseteq FreshOps(later) BY <1>4
      <3>2. g.pendingOps \in Seq(FreshOps(mint)) BY <1>5 DEF WellKept
      <3> QED BY <3>1, <3>2
    <2> QED BY <1>5, <2>2, <2>3 DEF WellKept
  <1> QED BY <1>3, <1>4, <1>5

\* Nothing has happened to a group that is untouched.
LEMMA UntouchedIs ==
  ASSUME NEW g, IsGroup(g), NEW me
  PROVE  /\ Untouched(g).g = g /\ ~Untouched(g).rotate /\ ~Untouched(g).clear
         /\ IsAcc(Untouched(g)) /\ Since(g, Untouched(g), me)
  <1>1. Untouched(g).g = g /\ Untouched(g).rotate = FALSE /\ Untouched(g).clear = FALSE
    BY DEF Untouched
  <1>2. IsAcc(Untouched(g)) BY <1>1 DEF IsAcc, Untouched
  <1>3. Len(g.lastOpDigest) \in Nat BY DEF IsGroup, Digests
  <1>4. Longer(g.lastOpDigest, g.lastOpDigest) BY <1>3 DEF Longer
  <1> HIDE DEF Untouched
  <1> QED BY <1>1, <1>2, <1>4 DEF Since

\* Parking an operation that is too early.
LEMMA QueueKeeps ==
  ASSUME NEW mint, NEW g, WellKept(g, mint), NEW op \in FreshOps(mint),
         op.epoch > g.currentEpoch + 1
  PROVE  /\ WellKept(queuePending(g, op), mint)
         /\ SameButQueue(queuePending(g, op), g)
  <1>1. queuePending(g, op) = g \/ queuePending(g, op) = [g EXCEPT !.pendingOps = Append(@, op)]
    BY DEF queuePending
  <1>2. CASE queuePending(g, op) = g BY <1>2 DEF SameButQueue
  <1>3. CASE queuePending(g, op) = [g EXCEPT !.pendingOps = Append(@, op)]
    <2> DEFINE q == Append(g.pendingOps, op)
               h == queuePending(g, op)
    <2>1. h = [g EXCEPT !.pendingOps = q] BY <1>3
    <2>2. /\ q \in Seq(FreshOps(mint)) /\ Len(g.pendingOps) \in Nat
          /\ Len(q) = Len(g.pendingOps) + 1 /\ q[Len(g.pendingOps) + 1] = op
          /\ \A i \in 1 .. Len(g.pendingOps) : q[i] = g.pendingOps[i]
      BY DEF WellKept
    <2> HIDE DEF h, q
    <2>3. FreshOps(mint) \subseteq LogOps BY DEF FreshOps
    <2>4. q \in Seq(LogOps) BY <2>2, <2>3
    <2>5. IsGroup(h) /\ h.pendingOps = q /\ SameButQueue(h, g)
      BY <2>1, <2>4, Requeued DEF WellKept
    <2>6. \A i \in 1 .. Len(q) : q[i].epoch > g.currentEpoch + 1
      BY <2>2 DEF WellKept
    <2>7. Faithful(h, mint) BY <2>5 DEF WellKept, Faithful, SameButQueue
    <2>8. WellKept(h, mint) BY <2>2, <2>5, <2>6, <2>7 DEF WellKept, SameButQueue
    <2> QED BY <2>5, <2>8 DEF h
  <1> QED BY <1>1, <1>2, <1>3

\* The verdicts, by how the epoch of the operation stands to the group's.
LEMMA VerdictIs ==
  ASSUME NEW g, IsGroup(g), NEW op \in LogOps, NEW me
  PROVE  /\ Verdict(g, op, me) = "applied" <=>
               op.epoch = g.currentEpoch + 1 /\ NextVerdict(g, op) = "applied"
         /\ Verdict(g, op, me) = "queued" => op.epoch > g.currentEpoch + 1
  <1>1. g.currentEpoch \in Nat /\ op.epoch \in Nat BY DEF IsGroup, LogOps, Ops
  <1>2. CASE op.epoch > g.currentEpoch + 1
    <2>1. op.epoch # g.currentEpoch + 1 BY <1>1, <1>2
    <2>2. Verdict(g, op, me) = "queued" BY <1>2, <2>1 DEF Verdict
    <2> QED BY <1>2, <2>1, <2>2
  <1>3. CASE op.epoch = g.currentEpoch + 1
    <2>1. ~(op.epoch > g.currentEpoch + 1) BY <1>1, <1>3
    <2>2. Verdict(g, op, me) = NextVerdict(g, op) BY <1>3, <2>1 DEF Verdict
    <2>3. NextVerdict(g, op) # "queued" BY DEF NextVerdict
    <2> QED BY <1>3, <2>2, <2>3
  <1>4. CASE ~(op.epoch > g.currentEpoch + 1) /\ op.epoch # g.currentEpoch + 1
    <2>1. Verdict(g, op, me) \in {"preJoinHistory", "equivocation", "duplicate"}
      BY <1>4 DEF Verdict
    <2> QED BY <1>4, <2>1
  <1> QED BY <1>2, <1>3, <1>4

\* Whatever arrives, apply leaves a well-kept group whose log continues the
\* old one.
LEMMA ApplyKeeps ==
  HasLeast => \A mint, g : \A me \in Devices, op \in FreshOps(mint) :
     WellKept(g, mint) =>
     LET a == apply(g, op, me)
     IN  /\ IsAcc(a) /\ WellKept(a.g, mint) /\ Since(g, a, me)
         /\ (Verdict(g, op, me) = "applied"
              /\ ~Parked(g, Append(g.lastOpDigest, EntryOf(op)))) =>
               a.g.members = MembersAfter(g.members, op)
  \* The same inside a group under change.
  <1>AccRequeued.
    ASSUME NEW a, IsAcc(a), NEW q \in Seq(LogOps), NEW b,
           b = [g |-> [a.g EXCEPT !.pendingOps = q], rotate |-> a.rotate, clear |-> a.clear]
    PROVE  /\ IsAcc(b) /\ b.g.pendingOps = q /\ SameButQueue(b.g, a.g)
           /\ \A mint : Faithful(a.g, mint) => Faithful(b.g, mint)
           /\ \A old, me : Since(old, a, me) => Since(old, b, me)
    <2> USE <1>AccRequeued
    <2> DEFINE h == [a.g EXCEPT !.pendingOps = q]
    <2>1. IsGroup(h) /\ h.pendingOps = q /\ SameButQueue(h, a.g)
      BY Requeued DEF IsAcc
    <2>2. b.g = h /\ b.rotate = a.rotate /\ b.clear = a.clear OBVIOUS
    <2>3. b = [g |-> b.g, rotate |-> b.rotate, clear |-> b.clear] OBVIOUS
    <2> HIDE DEF h
    <2>4. IsAcc(b) BY <2>1, <2>2, <2>3 DEF IsAcc
    <2>5. ASSUME NEW mint, Faithful(a.g, mint) PROVE Faithful(b.g, mint)
      BY <2>1, <2>2, <2>5 DEF Faithful, SameButQueue
    <2>6. ASSUME NEW old, NEW me, Since(old, a, me) PROVE Since(old, b, me)
      BY <2>1, <2>2, <2>6 DEF Since, SameButQueue, activeMembers
    <2> QED BY <2>1, <2>2, <2>4, <2>5, <2>6, Zenon
  \* One parked operation: stale, next, or kept.
  <1>RetryKeeps.
    ASSUME NEW mint, NEW me \in Devices, NEW op \in FreshOps(mint), NEW b,
           Walked(b, mint, op.epoch)
    PROVE  LET c == Retry(b, op, me)
           IN  /\ Walked(c, mint, op.epoch)
               /\ \A old : old.lastOpDigest \in Digests /\ Since(old, b, me) => Since(old, c, me)
               /\ op.parent # b.g.lastOpDigest =>
                     c.g.members = b.g.members /\ c.g.lastOpDigest = b.g.lastOpDigest
    <2> USE <1>RetryKeeps
    <2> DEFINE c == Retry(b, op, me)
    <2>1. op \in LogOps /\ op.epoch \in Nat /\ FreshOps(mint) \subseteq LogOps
      BY DEF FreshOps, LogOps, Ops
    <2>2. IsAcc(b) /\ IsGroup(b.g) /\ b.g.currentEpoch \in Nat /\ Faithful(b.g, mint)
      BY DEF Walked, IsAcc, IsGroup
    <2>3. CASE op.epoch <= b.g.currentEpoch
      <3>1. op.epoch # b.g.currentEpoch + 1 BY <2>1, <2>2, <2>3
      <3>2. c = b BY <2>3, <3>1 DEF Retry
      <3> HIDE DEF c
      <3> QED BY <3>2 DEF c
    <2>4. CASE op.epoch = b.g.currentEpoch + 1 /\ NextVerdict(b.g, op) # "applied"
      <3>1. ~(op.epoch <= b.g.currentEpoch) BY <2>2, <2>4
      <3>2. c = b BY <2>4, <3>1, Zenon DEF Retry
      <3> HIDE DEF c
      <3> QED BY <3>2 DEF c
    <2>5. CASE op.epoch = b.g.currentEpoch + 1 /\ NextVerdict(b.g, op) = "applied"
      <3>1. ~(op.epoch <= b.g.currentEpoch) BY <2>2, <2>5
      <3>2. c = Land(b, op, me) BY <2>5, <3>1, Zenon DEF Retry
      <3> HIDE DEF c
      <3>3. /\ IsAcc(c) /\ Faithful(c.g, mint)
            /\ c.g.currentEpoch = b.g.currentEpoch + 1
            /\ c.g.pendingOps = b.g.pendingOps
            /\ \A old : old.lastOpDigest \in Digests /\ Since(old, b, me) => Since(old, c, me)
        BY ONLY <2>2, <2>5, <3>2, LandKeeps
      <3>4. op.parent = b.g.lastOpDigest BY <2>1, <2>2, <2>5, AppliedIs, Zenon
      <3>5. \A i \in 1 .. Len(b.g.pendingOps) : FALSE
        <4> SUFFICES ASSUME NEW i \in 1 .. Len(b.g.pendingOps) PROVE FALSE OBVIOUS
        <4>1. b.g.pendingOps[i] \in FreshOps(mint) BY DEF Walked
        <4>2. b.g.pendingOps[i].epoch \in Nat BY <4>1, Zenon DEF FreshOps, LogOps, Ops
        <4> QED BY <2>1, <2>2, <2>5, <4>2 DEF Walked
      <3>6. Walked(c, mint, op.epoch) BY <3>3, <3>5, Zenon DEF Walked
      <3> QED BY <3>3, <3>4, <3>6 DEF c
    <2>6. CASE ~(op.epoch <= b.g.currentEpoch) /\ op.epoch # b.g.currentEpoch + 1
      <3> DEFINE q == Append(b.g.pendingOps, op)
      <3>1. c = [b EXCEPT !.g.pendingOps = q] BY <2>6 DEF Retry
      <3>2. c = [g |-> [b.g EXCEPT !.pendingOps = q], rotate |-> b.rotate, clear |-> b.clear]
        BY <2>2, <3>1, Zenon DEF IsAcc
      <3>3. /\ q \in Seq(FreshOps(mint)) /\ Len(b.g.pendingOps) \in Nat
            /\ Len(q) = Len(b.g.pendingOps) + 1 /\ q[Len(b.g.pendingOps) + 1] = op
            /\ \A i \in 1 .. Len(b.g.pendingOps) : q[i] = b.g.pendingOps[i]
        BY DEF Walked
      <3> HIDE DEF c, q
      <3>4. q \in Seq(LogOps) BY <2>1, <3>3
      <3>5. /\ IsAcc(c) /\ c.g.pendingOps = q /\ SameButQueue(c.g, b.g)
            /\ Faithful(c.g, mint)
            /\ \A old : Since(old, b, me) => Since(old, c, me)
        <4>1. /\ IsAcc(c) /\ c.g.pendingOps = q /\ SameButQueue(c.g, b.g)
              /\ \A m : Faithful(b.g, m) => Faithful(c.g, m)
              /\ \A old, x : Since(old, b, x) => Since(old, c, x)
          BY ONLY <2>2, <3>2, <3>4, <1>AccRequeued
        <4> QED BY <2>2, <4>1
      <3>6. ASSUME NEW i \in 1 .. Len(q)
            PROVE  q[i].epoch > b.g.currentEpoch + 1 /\ q[i].epoch <= op.epoch
        <4>1. CASE i = Len(b.g.pendingOps) + 1 BY <2>1, <2>2, <2>6, <3>3, <4>1
        <4>2. CASE i \in 1 .. Len(b.g.pendingOps) BY <3>3, <4>2, Zenon DEF Walked
        <4> QED BY <3>3, <4>1, <4>2
      <3>7. Walked(c, mint, op.epoch) BY <3>3, <3>5, <3>6, Zenon DEF Walked, SameButQueue
      <3> QED BY <3>5, <3>7 DEF SameButQueue, c
    <2> QED BY <2>3, <2>4, <2>5, <2>6, Zenon
  <1>LeastOf.
    ASSUME HasLeast, NEW T, T \subseteq Nat, T # {}
    PROVE  \E n \in T : \A m \in T : n <= m
    BY <1>LeastOf DEF HasLeast
  \* It exists for any queue, and takes the sorted operations one by one.
  <1>ReplayIs.
    ASSUME HasLeast, NEW acc, NEW me, Len(InEpochOrder(acc.g.pendingOps)) \in Nat
    PROVE  \E f : Fills(f, acc, InEpochOrder(acc.g.pendingOps), me)
    <2> USE <1>ReplayIs
    <2> DEFINE ops == InEpochOrder(acc.g.pendingOps)
               start == [acc EXCEPT !.g.pendingOps = <<>>]
               Body(f, n) == [i \in 0 .. n |-> IF i = 0 THEN start
                                               ELSE Retry(f[i - 1], ops[i], me)]
               Fails == {n \in Nat : ~\E f : f = Body(f, n)}
               table == CHOOSE f : f = Body(f, Len(ops))
    <2>1. replayPending(acc, me) = table[Len(ops)] BY DEF replayPending
    <2>a. Len(ops) \in Nat OBVIOUS
    <2> HIDE DEF ops, start
    <2>2. Fails = {}
      <3> SUFFICES ASSUME Fails # {} PROVE FALSE OBVIOUS
      <3>1. PICK n \in Fails : \A m \in Fails : n <= m BY <1>LeastOf, Zenon
      <3>2. n \in Nat /\ ~\E f : f = Body(f, n) OBVIOUS
      <3>3. n # 0
        <4>1. Body([i \in {0} |-> start], 0) = [i \in {0} |-> start]
          OBVIOUS
        <4> QED BY <3>2, <4>1, Zenon
      <3>4. n - 1 \in Nat /\ n - 1 \notin Fails BY <3>1, <3>2, <3>3
      <3>5. PICK f : f = Body(f, n - 1) BY <3>4
      <3> DEFINE h == [i \in 0 .. n |-> IF i = n THEN Retry(f[n - 1], ops[n], me) ELSE f[i]]
      <3>6. \A i \in 0 .. n - 1 :
                f[i] = IF i = 0 THEN start ELSE Retry(f[i - 1], ops[i], me)
        BY <3>5
      <3>7. \A i \in 0 .. n : h[i] = IF i = 0 THEN start ELSE Retry(h[i - 1], ops[i], me)
        <4> SUFFICES ASSUME NEW i \in 0 .. n
                     PROVE  h[i] = IF i = 0 THEN start ELSE Retry(h[i - 1], ops[i], me)
          BY Zenon
        <4>1. CASE i = n
          <5>1. h[i - 1] = f[n - 1] BY <3>2, <3>3, <4>1
          <5> QED BY <3>2, <3>3, <4>1, <5>1
        <4>2. CASE i # n
          <5>1. i \in 0 .. n - 1 /\ h[i] = f[i] BY <3>2, <4>2
          <5>2. i # 0 => h[i - 1] = f[i - 1] BY <3>2, <4>2
          <5> QED BY <3>6, <5>1, <5>2
        <4> QED BY <4>1, <4>2, Zenon
      <3>8. h = Body(h, n)
        <4>1. h = [i \in 0 .. n |-> h[i]] OBVIOUS
        <4> HIDE DEF h
        <4> QED BY <3>7, <4>1, Zenon
      <3> QED BY <3>2, <3>8, Zenon
    <2>3. \E f : f = Body(f, Len(ops)) BY <2>2, <2>a
    <2>4. table = Body(table, Len(ops)) BY <2>3, Zenon
    <2> HIDE DEF table
    <2>5. table[0] = start BY <2>4, <2>a
    <2>6. \A i \in 1 .. Len(ops) : table[i] = Retry(table[i - 1], ops[i], me)
      <3> SUFFICES ASSUME NEW i \in 1 .. Len(ops)
                   PROVE  table[i] = Retry(table[i - 1], ops[i], me)
        OBVIOUS
      <3>1. i \in 0 .. Len(ops) /\ i # 0 BY <2>a
      <3> QED BY <2>4, <3>1
    <2>7. Fills(table, acc, ops, me) BY <2>1, <2>5, <2>6 DEF start, Fills
    <2> QED BY <2>7 DEF ops
  \* The replay leaves a well-kept group; it changes nothing but the queue when
  \* no parked operation continues the log.
  <1>ReplayKeeps.
    ASSUME HasLeast, NEW mint, NEW me \in Devices, NEW a, IsAcc(a), Faithful(a.g, mint),
           a.g.pendingOps \in Seq(FreshOps(mint))
    PROVE  LET r == replayPending(a, me)
           IN  /\ IsAcc(r) /\ WellKept(r.g, mint)
               /\ \A old : old.lastOpDigest \in Digests /\ Since(old, a, me) => Since(old, r, me)
               /\ ~Parked(a.g, a.g.lastOpDigest) =>
                     r.g.members = a.g.members /\ r.g.lastOpDigest = a.g.lastOpDigest
    <2> USE <1>ReplayKeeps
    <2> DEFINE ops == InEpochOrder(a.g.pendingOps)
               n == Len(ops)
    <2>1. \A op \in FreshOps(mint) : op \in LogOps /\ op.epoch \in Nat
      BY Zenon DEF FreshOps, LogOps, Ops
    <2>2. /\ ops \in Seq(FreshOps(mint)) /\ n = Len(a.g.pendingOps)
          /\ \A i \in 1 .. n : \E j \in 1 .. n : ops[i] = a.g.pendingOps[j]
          /\ \A i, j \in 1 .. n : i <= j => ops[i].epoch <= ops[j].epoch
      <3>1. \A op \in FreshOps(mint) : op.epoch \in Nat BY <2>1
      <3>2. /\ Ordered(ops, FreshOps(mint)) /\ Len(ops) = Len(a.g.pendingOps)
            /\ \A i \in 1 .. Len(a.g.pendingOps) :
                  \E j \in 1 .. Len(a.g.pendingOps) : ops[i] = a.g.pendingOps[j]
        BY <3>1, Sorted, Zenon
      <3> QED BY <3>2 DEF Ordered
    <2>3. n \in Nat /\ \A i \in 1 .. n : ops[i] \in FreshOps(mint) /\ ops[i].epoch \in Nat
      BY <2>1, <2>2
    <2>4. PICK f : /\ f[0] = [a EXCEPT !.g.pendingOps = <<>>]
                   /\ \A i \in 1 .. n : f[i] = Retry(f[i - 1], ops[i], me)
                   /\ replayPending(a, me) = f[n]
      <3>1. Len(ops) \in Nat BY <2>3
      <3>2. \E f : Fills(f, a, ops, me) BY <3>1, <1>ReplayIs, Zenon
      <3> HIDE DEF ops
      <3> QED BY <3>2 DEF Fills
    <2> DEFINE Bound(k) == IF k = 0 THEN 0 ELSE ops[k].epoch
               Good(k) ==
                 /\ Walked(f[k], mint, Bound(k))
                 /\ \A old : old.lastOpDigest \in Digests /\ Since(old, a, me)
                                => Since(old, f[k], me)
                 /\ ~Parked(a.g, a.g.lastOpDigest) =>
                       f[k].g.members = a.g.members /\ f[k].g.lastOpDigest = a.g.lastOpDigest
               Bad == {k \in 0 .. n : ~Good(k)}
    <2>5. \A i \in 1 .. n : ~Parked(a.g, a.g.lastOpDigest) => ops[i].parent # a.g.lastOpDigest
      BY <2>2, Zenon DEF Parked
    <2> HIDE DEF ops, n
    <2>6. Good(0)
      <3>1. f[0] = [g |-> [a.g EXCEPT !.pendingOps = <<>>], rotate |-> a.rotate, clear |-> a.clear]
        BY <2>4 DEF IsAcc
      <3>2. << >> \in Seq(LogOps) /\ << >> \in Seq(FreshOps(mint)) OBVIOUS
      <3>3. /\ IsAcc(f[0]) /\ f[0].g.pendingOps = << >> /\ SameButQueue(f[0].g, a.g)
            /\ \A m : Faithful(a.g, m) => Faithful(f[0].g, m)
            /\ \A old, x : Since(old, a, x) => Since(old, f[0], x)
        BY <3>1, <3>2, <1>AccRequeued, Zenon
      <3>4. Walked(f[0], mint, 0) BY <3>2, <3>3 DEF Walked
      <3>5. \A old : old.lastOpDigest \in Digests /\ Since(old, a, me) => Since(old, f[0], me)
        BY <3>3
      <3>6. f[0].g.members = a.g.members /\ f[0].g.lastOpDigest = a.g.lastOpDigest
        BY <3>3, Zenon DEF SameButQueue
      <3> QED BY <3>4, <3>5, <3>6
    <2>7. ASSUME NEW k \in 1 .. n, Good(k - 1) PROVE Good(k)
      <3>1. ops[k] \in FreshOps(mint) /\ f[k] = Retry(f[k - 1], ops[k], me) BY <2>3, <2>4, ZenonT(60)
      <3>2. Walked(f[k - 1], mint, ops[k].epoch)
        <4>1. Bound(k - 1) <= ops[k].epoch
          <5>1. CASE k = 1 BY <2>3, <5>1
          <5>2. CASE k # 1
            <6>1. k - 1 \in 1 .. n /\ k - 1 # 0 /\ k - 1 <= k BY <2>3, <5>2
            <6> QED BY <2>2, <6>1
          <5> QED BY <5>1, <5>2
        <4>2. Bound(k - 1) \in Nat
          <5>1. CASE k = 1 BY <5>1
          <5>2. CASE k # 1
            <6>1. k - 1 \in 1 .. n /\ k - 1 # 0 BY ONLY <2>3, <5>2
            <6> QED BY <2>3, <6>1
          <5> QED BY <5>1, <5>2
        <4>3. Walked(f[k - 1], mint, Bound(k - 1)) BY <2>7
        <4> DEFINE q == f[k - 1].g.pendingOps
        <4>4. \A i \in 1 .. Len(q) : q[i].epoch \in Nat
          <5>1. q \in Seq(FreshOps(mint)) BY <4>3, Zenon DEF Walked
          <5> HIDE DEF q
          <5> QED BY ONLY <2>1, <5>1
        <4> HIDE DEF Bound
        <4>5. \A i \in 1 .. Len(q) : q[i].epoch <= Bound(k - 1) BY <4>3 DEF Walked
        <4>6. ops[k].epoch \in Nat BY <2>3, Zenon
        <4>7. \A i \in 1 .. Len(q) : q[i].epoch <= ops[k].epoch BY ONLY <4>1, <4>2, <4>4, <4>5, <4>6
        <4> QED BY <4>3, <4>7 DEF Walked
      <3>3. /\ Walked(f[k], mint, ops[k].epoch)
            /\ \A old : old.lastOpDigest \in Digests /\ Since(old, f[k - 1], me)
                           => Since(old, f[k], me)
            /\ ops[k].parent # f[k - 1].g.lastOpDigest =>
                  f[k].g.members = f[k - 1].g.members /\ f[k].g.lastOpDigest = f[k - 1].g.lastOpDigest
        BY <3>1, <3>2, <1>RetryKeeps
      <3>4. Bound(k) = ops[k].epoch OBVIOUS
      <3>5. \A old : old.lastOpDigest \in Digests /\ Since(old, a, me) => Since(old, f[k], me)
        BY <2>7, <3>3, Zenon
      <3>6. ~Parked(a.g, a.g.lastOpDigest) =>
               f[k].g.members = a.g.members /\ f[k].g.lastOpDigest = a.g.lastOpDigest
        BY <2>5, <2>7, <3>3
      <3> HIDE DEF Bound
      <3> QED BY <3>3, <3>4, <3>5, <3>6
    <2> HIDE DEF Good
    <2>8. Bad = {}
      <3> SUFFICES ASSUME Bad # {} PROVE FALSE OBVIOUS
      <3>0. Bad \subseteq Nat BY <2>3
      <3> HIDE DEF Bad
      <3>1. PICK k \in Bad : \A m \in Bad : k <= m BY <3>0, <1>LeastOf, Zenon
      <3> USE DEF Bad
      <3>2. k \in 0 .. n /\ ~Good(k) OBVIOUS
      <3>3. k # 0 BY <2>6, <3>2
      <3>4. k \in 1 .. n /\ k - 1 \in 0 .. n /\ ~(k <= k - 1) BY <2>3, <3>2, <3>3
      <3>5. Good(k - 1) BY <3>1, <3>4
      <3> QED BY <2>7, <3>2, <3>4, <3>5
    <2>9. Good(n) BY ONLY <2>3, <2>8
    <2>10. IsAcc(f[n]) /\ WellKept(f[n].g, mint)
      <3>1. Walked(f[n], mint, Bound(n)) BY <2>9 DEF Good
      <3> QED BY <3>1, Zenon DEF Walked, WellKept, IsAcc
    <2> QED BY <2>4, <2>9, <2>10 DEF Good
  <1>Applies.
    ASSUME HasLeast, NEW mint, NEW me \in Devices, NEW g, WellKept(g, mint), NEW op \in FreshOps(mint)
    PROVE  LET a == apply(g, op, me)
           IN  /\ IsAcc(a) /\ WellKept(a.g, mint) /\ Since(g, a, me)
               /\ (Verdict(g, op, me) = "applied"
                    /\ ~Parked(g, Append(g.lastOpDigest, EntryOf(op)))) =>
                     a.g.members = MembersAfter(g.members, op)
    <2> USE <1>Applies
    <2> DEFINE a == apply(g, op, me)
               u == Untouched(g)
               b == Land(u, op, me)
               r == replayPending(b, me)
    <2>1. IsGroup(g) /\ op \in LogOps /\ g.lastOpDigest \in Digests /\ Faithful(g, mint)
      BY DEF WellKept, IsGroup, FreshOps
    <2>2. u.g = g /\ IsAcc(u) /\ Since(g, u, me) BY <2>1, UntouchedIs, Zenon
    <2>3. CASE Verdict(g, op, me) = "applied"
      <3>1. a = r BY <2>3, Zenon DEF apply
      <3> HIDE DEF u, b, r, a
      <3>2. op.epoch = u.g.currentEpoch + 1 /\ NextVerdict(u.g, op) = "applied"
        BY <2>1, <2>2, <2>3, VerdictIs
      <3>3. /\ IsAcc(b) /\ Faithful(b.g, mint)
            /\ b.g.members = MembersAfter(g.members, op)
            /\ b.g.pendingOps = g.pendingOps
            /\ b.g.lastOpDigest = Append(g.lastOpDigest, EntryOf(op))
            /\ Since(g, b, me)
        <4>1. Faithful(u.g, mint) BY <2>1, <2>2, Zenon
        <4>2. /\ IsAcc(b) /\ Faithful(b.g, mint)
              /\ b.g.members = MembersAfter(u.g.members, op)
              /\ b.g.pendingOps = u.g.pendingOps
              /\ b.g.lastOpDigest = Append(u.g.lastOpDigest, EntryOf(op))
              /\ \A old : old.lastOpDigest \in Digests /\ Since(old, u, me) => Since(old, b, me)
          BY <2>2, <3>2, <4>1, LandKeeps DEF b
        <4> QED BY <2>1, <2>2, <4>2
      <3>5. b.g.pendingOps \in Seq(FreshOps(mint)) BY <3>3 DEF WellKept
      <3>6. /\ IsAcc(r) /\ WellKept(r.g, mint)
            /\ \A old : old.lastOpDigest \in Digests /\ Since(old, b, me) => Since(old, r, me)
            /\ ~Parked(b.g, b.g.lastOpDigest) => r.g.members = b.g.members
        BY <3>3, <3>5, <1>ReplayKeeps, Zenon DEF r
      <3>7. Parked(b.g, b.g.lastOpDigest) => Parked(g, Append(g.lastOpDigest, EntryOf(op)))
        BY <3>3, Zenon DEF Parked
      <3>8. Since(g, r, me) BY <2>1, <3>3, <3>6
      <3> QED BY <3>1, <3>3, <3>6, <3>7, <3>8 DEF a
    <2>4. CASE Verdict(g, op, me) = "queued"
      <3> DEFINE h == queuePending(g, op)
      <3>1. a = Untouched(h) BY <2>4 DEF apply
      <3>2. WellKept(h, mint) /\ SameButQueue(h, g) BY <2>1, <2>4, VerdictIs, QueueKeeps, Zenon
      <3> HIDE DEF a, h
      <3>3. IsGroup(h) BY <3>2 DEF WellKept
      <3>4. a.g = h /\ IsAcc(a) /\ Since(h, a, me) BY <3>1, <3>3, UntouchedIs, Zenon
      <3>5. Since(g, a, me) BY <3>2, <3>4 DEF Since, SameButQueue, activeMembers
      <3>6. Verdict(g, op, me) # "applied" BY <2>4
      <3> QED BY <3>2, <3>4, <3>5, <3>6 DEF a
    <2>5. CASE Verdict(g, op, me) \notin {"applied", "queued"}
      <3>1. a = u BY <2>5, Zenon DEF apply
      <3> HIDE DEF a, u
      <3> QED BY <2>2, <2>5, <3>1 DEF a
    <2> QED BY <2>3, <2>4, <2>5
  <1> QED BY <1>Applies

\* A device's own rotation is applied, and nothing from the queue after it:
\* no operation under way names a chain that has yet to be created.
LEMMA OwnRotation ==
  ASSUME HasLeast, NEW mint \in Mints, NEW d \in Devices, NEW g, WellKept(g, mint),
         d \in activeMembers(g)
  PROVE  LET op == signOp(d, g, <<"rotate", mint[d] + 1>>)
             later == [mint EXCEPT ![d] = mint[d] + 1]
             a == apply(g, op, d)
         IN  /\ Above(later, mint) /\ op \in FreshOps(later)
             /\ Verdict(g, op, d) = "applied"
             /\ IsAcc(a) /\ WellKept(a.g, later) /\ Since(g, a, d)
             /\ a.g.members = g.members
  <1> DEFINE n == mint[d]
             op == signOp(d, g, <<"rotate", n + 1>>)
             later == [mint EXCEPT ![d] = n + 1]
             a == apply(g, op, d)
  <1>1. n \in Nat /\ later \in Mints /\ later[d] = n + 1 /\ Above(later, mint)
    BY DEF Mints, Above
  <1>2. /\ g.members \in Members /\ g.lastOpDigest \in Digests /\ g.currentEpoch \in Nat
        /\ IsGroup(g) /\ Fresh(g.lastOpDigest, mint)
    BY Zenon DEF WellKept, IsGroup, Faithful
  <1>3. /\ op.epoch = g.currentEpoch + 1 /\ op.parent = g.lastOpDigest /\ op.by = d
        /\ op.root = memberSetRoot(g.members) /\ op.kind = <<"rotate", n + 1>>
        /\ op.kind[1] = "rotate" /\ op.kind[2] = n + 1
    BY DEF signOp
  <1>4. <<"rotate", n + 1>> \in Kinds BY <1>1 DEF Kinds
  <1>5. op \in LogOps
    <2>1. memberSetRoot(g.members) \in Roots BY <1>2, RootType, Zenon
    <2>2. op \in Ops BY ONLY <1>2, <1>4, <2>1 DEF signOp, Ops
    <2> HIDE DEF op
    <2> QED BY <1>3, <2>2 DEF LogOps
  <1> HIDE DEF op, n, later
  <1>6. op \in FreshOps(later)
    <2>1. Fresh(g.lastOpDigest, later) BY <1>1, <1>2, LaterFresh
    <2> QED BY <1>1, <1>3, <1>5, <2>1 DEF FreshOps
  <1>7. NextVerdict(g, op) = "applied"
    <2>1. isAuthorised(g, op) BY <1>3 DEF isAuthorised
    <2>2. Mutates(g, op) BY <1>3, Zenon DEF Mutates
    <2> QED BY <1>3, <2>1, <2>2 DEF NextVerdict
  <1>8. Verdict(g, op, d) = "applied" BY <1>2, <1>3, <1>5, <1>7, VerdictIs, Zenon
  <1>9. ~Parked(g, Append(g.lastOpDigest, EntryOf(op)))
    <2> DEFINE e == EntryOf(op)
               p == Append(g.lastOpDigest, e)
    <2> SUFFICES ASSUME NEW i \in 1 .. Len(g.pendingOps), g.pendingOps[i].parent = p
                 PROVE  FALSE
      BY DEF Parked
    <2>1. g.pendingOps[i] \in FreshOps(mint) BY DEF WellKept
    <2>2. Fresh(p, mint) BY <2>1, Zenon DEF FreshOps
    <2>3. e[2] = d /\ e[4][1] = "rotate" /\ e[4][2] = n + 1 BY <1>3 DEF EntryOf
    <2> HIDE DEF e
    <2>4. /\ Len(g.lastOpDigest) \in Nat /\ Len(p) = Len(g.lastOpDigest) + 1
          /\ p[Len(g.lastOpDigest) + 1] = e
      BY <1>2 DEF Digests
    <2> HIDE DEF p
    <2>5. Len(g.lastOpDigest) + 1 \in 1 .. Len(p) BY <2>4
    <2>6. n + 1 <= mint[d] BY <2>2, <2>3, <2>4, <2>5 DEF Fresh
    <2> QED BY <1>1, <2>6 DEF n
  <1>10. WellKept(g, later) BY <1>1, LaterFresh
  <1>11. /\ IsAcc(a) /\ WellKept(a.g, later) /\ Since(g, a, d)
         /\ a.g.members = MembersAfter(g.members, op)
    BY <1>6, <1>8, <1>9, <1>10, ApplyKeeps
  <1>12. MembersAfter(g.members, op) = g.members BY <1>3 DEF MembersAfter
  <1> QED BY <1>1, <1>6, <1>8, <1>11, <1>12 DEF op, later, n

---------------------------------------------------------------------------
(* The keys a device has given away *)

\* A group with other rows, keys or invitation state, and the same log.
Refit(g, members, chain, recipients, pending) ==
    [members |-> members, displayName |-> g.displayName,
     currentEpoch |-> g.currentEpoch, lastOpDigest |-> g.lastOpDigest,
     recentOpDigests |-> g.recentOpDigests, pendingOps |-> g.pendingOps,
     myCurrentDistributionId |-> chain, mySkdmRecipients |-> recipients,
     pendingInvitation |-> pending]

\* The changes the handlers make are of this form: the chain and who has it,
LEMMA Rechained ==
  ASSUME NEW g, IsGroup(g), NEW c, NEW x, NEW h,
         h = [g EXCEPT !.myCurrentDistributionId = c, !.mySkdmRecipients = x]
  PROVE  h = Refit(g, g.members, c, x, g.pendingInvitation)
  <1> DEFINE f == [g EXCEPT !.myCurrentDistributionId = c]
  <1>1. g = Refit(g, g.members, g.myCurrentDistributionId, g.mySkdmRecipients,
                  g.pendingInvitation)
    BY Zenon DEF IsGroup, Refit
  <1>2. f = Refit(g, g.members, c, g.mySkdmRecipients, g.pendingInvitation)
    BY ONLY <1>1 DEF Refit
  <1>3. h = [f EXCEPT !.mySkdmRecipients = x] OBVIOUS
  <1> HIDE DEF f
  <1> QED BY ONLY <1>2, <1>3 DEF Refit

\* who has it,
LEMMA Readdressed ==
  ASSUME NEW g, IsGroup(g), NEW x, NEW h, h = [g EXCEPT !.mySkdmRecipients = x]
  PROVE  h = Refit(g, g.members, g.myCurrentDistributionId, x, g.pendingInvitation)
  BY DEF IsGroup, Refit

\* the answer to the invitation,
LEMMA Decided ==
  ASSUME NEW g, IsGroup(g), NEW x, NEW h, h = [g EXCEPT !.pendingInvitation = x]
  PROVE  h = Refit(g, g.members, g.myCurrentDistributionId, g.mySkdmRecipients, x)
  BY DEF IsGroup, Refit

\* and the status of a member.
LEMMA Restated ==
  ASSUME NEW g, IsGroup(g), NEW p, NEW x, NEW h, h = [g EXCEPT !.members[p].status = x]
  PROVE  h = Refit(g, [g.members EXCEPT ![p].status = x], g.myCurrentDistributionId,
                   g.mySkdmRecipients, g.pendingInvitation)
  BY Zenon DEF IsGroup, Refit

Enrolled(g, c, x, p) ==
    [g EXCEPT !.myCurrentDistributionId = c, !.mySkdmRecipients = x,
              !.members[p].status = "active"]

\* And so is joining.
LEMMA EnrolledIs ==
  ASSUME NEW g, IsGroup(g), NEW c, NEW x, NEW p, NEW k, k = Enrolled(g, c, x, p)
  PROVE  k = Refit(g, [g.members EXCEPT ![p].status = "active"], c, x, g.pendingInvitation)
  <1> DEFINE h == [g EXCEPT !.myCurrentDistributionId = c, !.mySkdmRecipients = x]
  <1>1. k = [h EXCEPT !.members[p].status = "active"] BY DEF Enrolled
  <1>2. PICK f : f = h OBVIOUS
  <1> HIDE DEF h
  <1>3. f = Refit(g, g.members, c, x, g.pendingInvitation) BY <1>2, Rechained, Zenon DEF h
  <1>4. k = [f EXCEPT !.members[p].status = "active"] BY <1>1, <1>2
  <1> QED BY ONLY <1>3, <1>4 DEF Refit

\* What may replace the rows, the chain and the invitation of a group,
Fits(g, mint, ms, c, b) ==
    /\ WellKept(g, mint) /\ ms \in Members /\ memberSetRoot(ms) = memberSetRoot(g.members)
    /\ c \in Nat /\ b \in BOOLEAN

\* and the group with them.
Fitted(h, g, mint, ms, c, b) ==
    /\ WellKept(h, mint) /\ h.lastOpDigest = g.lastOpDigest
    /\ h.members = ms /\ h.myCurrentDistributionId = c /\ h.pendingInvitation = b

\* It is as well kept, if the rows hash alike.
LEMMA RefitKeeps ==
  ASSUME NEW mint, NEW g, NEW ms, NEW c, NEW b, Fits(g, mint, ms, c, b),
         NEW x, NEW h, h = Refit(g, ms, c, x, b)
  PROVE  Fitted(h, g, mint, ms, c, b)
  <1> USE DEF Fits
  <1>1. h = [members |-> ms, displayName |-> g.displayName,
             currentEpoch |-> g.currentEpoch, lastOpDigest |-> g.lastOpDigest,
             recentOpDigests |-> g.recentOpDigests, pendingOps |-> g.pendingOps,
             myCurrentDistributionId |-> c, mySkdmRecipients |-> x, pendingInvitation |-> b]
    BY DEF Refit
  <1>2. /\ h.members = ms /\ h.displayName = g.displayName
        /\ h.currentEpoch = g.currentEpoch /\ h.lastOpDigest = g.lastOpDigest
        /\ h.recentOpDigests = g.recentOpDigests /\ h.pendingOps = g.pendingOps
        /\ h.myCurrentDistributionId = c /\ h.mySkdmRecipients = x
        /\ h.pendingInvitation = b
    BY ONLY <1>1
  <1>3. IsGroup(h) BY <1>1, <1>2 DEF WellKept, IsGroup
  <1>4. Faithful(h, mint) BY <1>2, Zenon DEF WellKept, Faithful, Commits
  <1>5. WellKept(h, mint) BY <1>2, <1>3, <1>4 DEF WellKept
  <1> QED BY <1>2, <1>5 DEF Fitted

\* A member's key has arrived: its row hashes as before, and it was not removed.
LEMMA Activated ==
  ASSUME NEW m \in Members, NEW p \in Devices, m[p].status \in {"active", "pendingSKDM"}
  PROVE  LET ms == [m EXCEPT ![p].status = "active"]
         IN  /\ ms \in Members /\ memberSetRoot(ms) = memberSetRoot(m)
             /\ \A q \in Devices : ms[q].status = "removed" <=> m[q].status = "removed"
             /\ \A q \in Devices : ms[q].status \in {"active", "pendingSKDM"} <=>
                                   m[q].status \in {"active", "pendingSKDM"}
  <1> DEFINE row == [m[p] EXCEPT !.status = "active"]
             ms == [m EXCEPT ![p].status = "active"]
  <1>1. m[p] \in Rows BY DEF Members
  <1>2. /\ row \in Rows /\ row.status = "active" /\ row.role = m[p].role
        /\ row.joinedAtEpoch = m[p].joinedAtEpoch /\ row.addedBy = m[p].addedBy
    BY <1>1 DEF Rows, Statuses
  <1>3. ms = [m EXCEPT ![p] = row] OBVIOUS
  <1> HIDE DEF row, ms
  <1>4. /\ ms \in Members /\ ms[p] = row /\ \A q \in Devices : q # p => ms[q] = m[q]
    BY <1>2, <1>3 DEF Members
  <1>5. HashOf(row) = HashOf(m[p])
    <2>1. (row.status = "removed") = (m[p].status = "removed") BY <1>2
    <2> QED BY <1>2, <2>1 DEF HashOf
  <1>6. /\ \A q \in Devices : HashOf(ms[q]) = HashOf(m[q])
        /\ \A q \in Devices : ms[q].status # "absent" <=> m[q].status # "absent"
    BY <1>2, <1>4, <1>5
  <1>7. memberSetRoot(ms) = memberSetRoot(m)
    <2>1. {q \in Devices : ms[q].status # "absent"} = {q \in Devices : m[q].status # "absent"}
      BY <1>6
    <2>2. memberSetRoot(ms) = [q \in {r \in Devices : ms[r].status # "absent"} |-> HashOf(ms[q])]
      BY <1>4, RootIs, Zenon
    <2>3. memberSetRoot(m) = [q \in {r \in Devices : m[r].status # "absent"} |-> HashOf(m[q])]
      BY RootIs, Zenon
    <2> HIDE DEF HashOf
    <2> QED BY <1>6, <2>1, <2>2, <2>3
  <1> QED BY <1>2, <1>4, <1>7 DEF ms

Own(g, d, mint) == WellKept(g, mint) /\ g.myCurrentDistributionId <= mint[d]

Sent(d, msgs) == {<<d, m.chain, m.to>> : m \in {x \in msgs : x.type = "key"}}

\* Keys are given away after they are created.
Issued(given, mint) ==
    \A d \in Devices : \A n, p :
        <<d, n, p>> \in given => n \in Nat /\ 1 <= n /\ n <= mint[d]

\* No removed member has the chain in use, nobody has it before the device
\* joins, and a device that was removed uses none.
KeysOK(g, d, given) ==
    /\ \A p \in Devices : g.members[p].status = "removed" =>
          <<d, g.myCurrentDistributionId, p>> \notin given
    /\ g.pendingInvitation => \A p : <<d, g.myCurrentDistributionId, p>> \notin given
    /\ d \notin activeMembers(g) => g.myCurrentDistributionId = 0

GoodOp(op, mint) ==
    /\ op \in Ops /\ Fresh(op.parent, mint)
    /\ op.kind[1] = "rotate" => op.kind[2] <= mint[op.by]
    /\ op.kind[1] = "create" => op.parent = << >> /\ op.epoch = 0

GoodSnapshot(m, mint) ==
    /\ m.members \in Members /\ m.currentEpoch \in Nat /\ m.lastOpDigest \in Digests
    /\ Commits(m.lastOpDigest, m.members, m.displayName) /\ Fresh(m.lastOpDigest, mint)

GoodMsg(m, mint) ==
    /\ m.type = "op" => GoodOp(m.op, mint)
    /\ m.type = "bootstrap" => GoodSnapshot(m, mint)

\* What a handler on device d answers for, whose group was old.
Honest(r, old, d, mint, given) ==
    LET later == [mint EXCEPT ![d] = r.n]
    IN  /\ r.n \in Nat /\ mint[d] <= r.n
        /\ Own(r.g, d, later)
        /\ Longer(old.lastOpDigest, r.g.lastOpDigest)
        /\ \A m \in r.msgs : GoodMsg(m, later)
        /\ Issued(given \cup Sent(d, r.msgs), later)

---------------------------------------------------------------------------
(* The handlers' outcomes *)

\* Keys sent to members under a chain add to what is given away just that.
LEMMA KeysSent ==
  ASSUME NEW d \in Devices, NEW c, NEW to, NEW msgs,
         \A m \in msgs : m.type = "key" => m = KeyMsg(m.to, d, c) /\ m.to \in to
  PROVE  Sent(d, msgs) \subseteq {<<d, c, p>> : p \in to}
  <1>1. ASSUME NEW m \in msgs, m.type = "key" PROVE m.chain = c /\ m.to \in to
    <2>1. m = KeyMsg(m.to, d, c) /\ m.to \in to BY <1>1
    <2> QED BY <2>1 DEF KeyMsg
  <1> QED BY <1>1 DEF Sent

\* An answer that gives away a chain to active members only, and the chain was
\* either given to no removed member or is new.
LEMMA GivenKeys ==
  ASSUME NEW d \in Devices, NEW g, NEW given, NEW more,
         more \subseteq {<<d, g.myCurrentDistributionId, p>> : p \in activeMembers(g)},
         \A p \in Devices : g.members[p].status = "removed" =>
            <<d, g.myCurrentDistributionId, p>> \notin given,
         ~g.pendingInvitation, d \in activeMembers(g) \/ g.myCurrentDistributionId = 0
  PROVE  KeysOK(g, d, given \cup more)
  <1>1. ASSUME NEW p \in Devices, g.members[p].status = "removed"
        PROVE  <<d, g.myCurrentDistributionId, p>> \notin given \cup more
    <2>1. p \notin activeMembers(g) BY <1>1, ZenonT(60) DEF activeMembers
    <2> QED BY <1>1, <2>1
  <1> QED BY <1>1 DEF KeysOK

\* The answer that changes nothing.
LEMMA NothingDone ==
  ASSUME NEW mint \in Mints, NEW d \in Devices, NEW g, Own(g, d, mint), NEW given,
         Issued(given, mint), NEW old, Longer(old.lastOpDigest, g.lastOpDigest)
  PROVE  LET r == Result(g, {}, mint[d])
         IN  Honest(r, old, d, mint, given) /\ r.g = g /\ Sent(d, r.msgs) = {}
  <1> DEFINE r == Result(g, {}, mint[d])
  <1>1. r.g = g /\ r.msgs = {} /\ r.n = mint[d] BY DEF Result
  <1> HIDE DEF r
  <1>2. mint[d] \in Nat /\ [mint EXCEPT ![d] = r.n] = mint BY <1>1 DEF Mints
  <1>3. Sent(d, r.msgs) = {} BY <1>1 DEF Sent
  <1>4. given \cup Sent(d, r.msgs) = given BY <1>3
  <1>5. r.n \in Nat /\ mint[d] <= r.n BY <1>1, <1>2
  <1>6. \A m \in r.msgs : GoodMsg(m, mint) BY <1>1
  <1>7. Honest(r, old, d, mint, given) BY <1>1, <1>2, <1>4, <1>5, <1>6, ZenonT(60) DEF Honest
  <1> QED BY <1>1, <1>3, <1>7 DEF r

\* rotateMyGroupChain by a member that has joined: the new chain goes to active
\* members only.
LEMMA RotateKeeps ==
  ASSUME HasLeast, NEW mint \in Mints, NEW d \in Devices, NEW g, Own(g, d, mint), NEW given,
         Issued(given, mint), NEW reach, d \in activeMembers(g), ~g.pendingInvitation
  PROVE  LET r == rotateMyGroupChain(g, d, reach, mint[d])
         IN  /\ Honest(r, g, d, mint, given)
             /\ KeysOK(r.g, d, given \cup Sent(d, r.msgs))
             /\ \A m \in r.msgs : m.type \in {"op", "key"}
  <1> DEFINE n == mint[d]
             op == signOp(d, g, <<"rotate", n + 1>>)
             later == [mint EXCEPT ![d] = n + 1]
             a == apply(g, op, d)
             h == a.g
             to == Others(h, d, reach)
             k == [h EXCEPT !.myCurrentDistributionId = n + 1, !.mySkdmRecipients = to]
             msgs == {OpMsg(p, op) : p \in to} \cup {KeyMsg(p, d, n + 1) : p \in to}
             r == rotateMyGroupChain(g, d, reach, n)
  <1>1. WellKept(g, mint) BY Zenon DEF Own
  <1>2. /\ Above(later, mint) /\ op \in FreshOps(later)
        /\ Verdict(g, op, d) = "applied"
        /\ IsAcc(a) /\ WellKept(h, later) /\ Since(g, a, d)
        /\ h.members = g.members
    BY <1>1, OwnRotation
  <1>3. r = Result(k, msgs, n + 1) BY <1>2 DEF rotateMyGroupChain
  <1>4. n \in Nat /\ later \in Mints /\ later[d] = n + 1 BY DEF Mints
  <1> HIDE DEF op, later, a, n
  <1>5. r.g = k /\ r.msgs = msgs /\ r.n = n + 1 BY <1>3 DEF Result
  <1> HIDE DEF r
  <1>6. h.members \in Members /\ h.pendingInvitation = g.pendingInvitation
        /\ Longer(g.lastOpDigest, h.lastOpDigest)
    BY <1>2, Zenon DEF WellKept, IsGroup, Since
  <1>7. k = Refit(h, h.members, n + 1, to, h.pendingInvitation)
    <2>1. IsGroup(h) BY <1>2, Zenon DEF WellKept
    <2> HIDE DEF h, to
    <2>2. PICK f : f = k OBVIOUS
    <2>3. f = Refit(h, h.members, n + 1, to, h.pendingInvitation) BY <2>1, <2>2, Rechained, Zenon
    <2> QED BY <2>2, <2>3, Zenon
  <1>8. /\ WellKept(k, later) /\ k.lastOpDigest = h.lastOpDigest
        /\ k.members = h.members /\ k.myCurrentDistributionId = n + 1
        /\ ~k.pendingInvitation
    <2> HIDE DEF k, h, to
    <2>1. n + 1 \in Nat BY <1>4
    <2>2. g.pendingInvitation \in BOOLEAN BY <1>1, Zenon DEF WellKept, IsGroup
    <2>3. Fits(h, later, h.members, n + 1, h.pendingInvitation)
      BY <1>2, <1>6, <2>1, <2>2, Zenon DEF Fits
    <2>4. Fitted(k, h, later, h.members, n + 1, h.pendingInvitation)
      BY <1>7, <2>3, RefitKeeps, Zenon
    <2> QED BY <1>6, <2>4, Zenon DEF Fitted
  <1> HIDE DEF k
  <1>9. activeMembers(k) = activeMembers(g) BY <1>2, <1>8, ZenonT(60) DEF activeMembers
  <1>10. to \subseteq activeMembers(k) BY <1>8 DEF Others, activeMembers
  <1> HIDE DEF to, h
  <1>11. ASSUME NEW m \in msgs
         PROVE  /\ GoodMsg(m, later) /\ m.type \in {"op", "key"}
                /\ m.type = "key" => m = KeyMsg(m.to, d, n + 1) /\ m.to \in to
    <2>1. CASE \E p \in to : m = OpMsg(p, op)
      <3>a. PICK p \in to : m = OpMsg(p, op) BY <2>1, Zenon
      <3>1. m.type = "op" /\ m.op = op BY ONLY <3>a, ZenonT(60) DEF OpMsg
      <3>2. GoodOp(op, later) BY <1>2 DEF GoodOp, FreshOps, LogOps
      <3> QED BY <3>1, <3>2 DEF GoodMsg
    <2>2. CASE \E p \in to : m = KeyMsg(p, d, n + 1)
      <3>1. PICK p \in to : m = KeyMsg(p, d, n + 1) BY <2>2, ZenonT(60)
      <3>2. m.type = "key" /\ m.to = p BY <3>1 DEF KeyMsg
      <3> QED BY <3>1, <3>2 DEF GoodMsg
    <2> QED BY <2>1, <2>2
  <1> HIDE DEF msgs
  <1>12. Sent(d, msgs) \subseteq {<<d, n + 1, p>> : p \in to} BY <1>11, KeysSent, Zenon
  <1>13. Issued(given \cup Sent(d, msgs), later)
    <2> SUFFICES ASSUME NEW q \in Devices, NEW x, NEW p, <<q, x, p>> \in given \cup Sent(d, msgs)
                 PROVE  x \in Nat /\ 1 <= x /\ x <= later[q]
      BY Zenon DEF Issued
    <2>1. CASE <<q, x, p>> \in given
      <3>1. x \in Nat /\ 1 <= x /\ x <= mint[q] BY <2>1 DEF Issued
      <3> QED BY <1>2, <3>1 DEF Above, Mints
    <2>2. CASE <<q, x, p>> \in Sent(d, msgs)
      <3>1. q = d /\ x = n + 1 BY <1>12, <2>2
      <3> QED BY <1>4, <3>1
    <2> QED BY <2>1, <2>2, Zenon
  <1>14. KeysOK(k, d, given \cup Sent(d, msgs))
    <2>1. Sent(d, msgs) \subseteq {<<d, k.myCurrentDistributionId, p>> : p \in activeMembers(k)}
      BY <1>8, <1>10, <1>12
    <2>2. ASSUME NEW p, <<d, n + 1, p>> \in given PROVE FALSE
      <3>1. n + 1 <= mint[d] BY <2>2 DEF Issued
      <3> QED BY <1>4, <3>1 DEF n
    <2>3. d \in activeMembers(k) BY <1>9
    <2> QED BY <1>8, <2>1, <2>2, <2>3, GivenKeys, Zenon
  <1>15. Honest(r, g, d, mint, given)
    <2>1. [mint EXCEPT ![d] = r.n] = later BY <1>5 DEF later
    <2>2. r.n \in Nat /\ mint[d] <= r.n BY ONLY <1>4, <1>5 DEF n
    <2>3. Own(r.g, d, later) BY ONLY <1>4, <1>5, <1>8 DEF Own
    <2>4. Longer(g.lastOpDigest, r.g.lastOpDigest) BY <1>5, <1>6, <1>8, Zenon
    <2>5. \A m \in r.msgs : GoodMsg(m, later) BY <1>5, <1>11
    <2> QED BY <1>5, <1>13, <2>1, <2>2, <2>3, <2>4, <2>5, Zenon DEF Honest
  <1> QED BY <1>5, <1>11, <1>14, <1>15 DEF r, n

\* Key messages under a chain that exists.
LEMMA KeyMsgs ==
  ASSUME NEW mint, NEW d \in Devices, NEW c \in Nat, NEW to, NEW msgs,
         msgs = {KeyMsg(p, d, c) : p \in to}
  PROVE  /\ \A m \in msgs : GoodMsg(m, mint) /\ m.type = "key"
         /\ Sent(d, msgs) \subseteq {<<d, c, p>> : p \in to}
  <1>1. ASSUME NEW m \in msgs
        PROVE  /\ GoodMsg(m, mint) /\ m.type = "key"
               /\ m = KeyMsg(m.to, d, c) /\ m.to \in to
    <2>1. PICK p \in to : m = KeyMsg(p, d, c) BY Zenon
    <2>2. m.type = "key" /\ m.to = p BY <2>1 DEF KeyMsg
    <2> QED BY <2>1, <2>2 DEF GoodMsg
  <1>2. Sent(d, msgs) \subseteq {<<d, c, p>> : p \in to} BY <1>1, KeysSent, Zenon
  <1> QED BY <1>1, <1>2

\* ensureMySKDMReachesActiveMembers sends the chain in use to active members.
LEMMA EnsureKeeps ==
  ASSUME NEW mint \in Mints, NEW d \in Devices, NEW g, Own(g, d, mint), NEW given,
         Issued(given, mint), NEW reach
  PROVE  LET r == ensureMySKDMReachesActiveMembers(g, d, reach, mint[d])
         IN  /\ Honest(r, g, d, mint, given)
             /\ ~g.pendingInvitation /\ KeysOK(g, d, given) =>
                   KeysOK(r.g, d, given \cup Sent(d, r.msgs))
             /\ \A m \in r.msgs : m.type \in {"op", "key"}
  <1> DEFINE n == mint[d]
             c == g.myCurrentDistributionId
             needs == Others(g, d, reach) \ g.mySkdmRecipients
             x == g.mySkdmRecipients \cup needs
             k == [g EXCEPT !.mySkdmRecipients = x]
             msgs == {KeyMsg(p, d, c) : p \in needs}
             r == ensureMySKDMReachesActiveMembers(g, d, reach, n)
  <1>1. /\ IsGroup(g) /\ WellKept(g, mint) /\ g.members \in Members /\ c \in Nat /\ c <= n
        /\ g.pendingInvitation \in BOOLEAN
    BY Zenon DEF Own, WellKept, IsGroup
  <1>2. Longer(g.lastOpDigest, g.lastOpDigest)
    <2>1. Len(g.lastOpDigest) \in Nat BY <1>1 DEF IsGroup, Digests
    <2> QED BY ONLY <2>1 DEF Longer
  <1>3. CASE c = 0
    <2>1. r = Result(g, {}, n) BY <1>3, Zenon DEF ensureMySKDMReachesActiveMembers
    <2> HIDE DEF r, n
    <2>2. Honest(r, g, d, mint, given) /\ r.g = g /\ Sent(d, r.msgs) = {} /\ r.msgs = {}
      BY <1>2, <2>1, NothingDone, Zenon DEF n, Result
    <2>3. given \cup Sent(d, r.msgs) = given BY <2>2
    <2> QED BY <2>2, <2>3, Zenon DEF r, n
  <1>4. CASE c # 0
    <2>1. r = Result(k, msgs, n) BY <1>4 DEF ensureMySKDMReachesActiveMembers
    <2>2. n \in Nat /\ [mint EXCEPT ![d] = n] = mint BY DEF Mints
    <2>3. needs \subseteq activeMembers(g) BY DEF Others
    <2> HIDE DEF r, needs, x
    <2>4. k = Refit(g, g.members, c, x, g.pendingInvitation)
      <3>1. PICK f : f = k BY Zenon
      <3>2. f = Refit(g, g.members, c, x, g.pendingInvitation) BY <1>1, <3>1, Readdressed
      <3> QED BY <3>1, <3>2
    <2> HIDE DEF k
    <2>5. /\ WellKept(k, mint) /\ k.lastOpDigest = g.lastOpDigest
          /\ k.members = g.members /\ k.myCurrentDistributionId = c
          /\ k.pendingInvitation = g.pendingInvitation
      <3>1. Fits(g, mint, g.members, c, g.pendingInvitation) BY <1>1, Zenon DEF Fits
      <3>2. Fitted(k, g, mint, g.members, c, g.pendingInvitation) BY <2>4, <3>1, RefitKeeps, Zenon
      <3> QED BY <3>2, Zenon DEF Fitted
    <2>6. r.g = k /\ r.msgs = msgs /\ r.n = n BY <2>1 DEF Result
    <2>7. activeMembers(k) = activeMembers(g) BY <2>5 DEF activeMembers
    <2>8. /\ \A m \in msgs : GoodMsg(m, mint) /\ m.type = "key"
          /\ Sent(d, msgs) \subseteq {<<d, c, p>> : p \in needs}
      BY <1>1, KeyMsgs, Zenon
    <2> HIDE DEF msgs, c, n
    <2>9. Issued(given \cup Sent(d, msgs), mint)
      <3> SUFFICES ASSUME NEW q \in Devices, NEW y, NEW p,
                          <<q, y, p>> \in given \cup Sent(d, msgs)
                   PROVE  y \in Nat /\ 1 <= y /\ y <= mint[q]
        BY DEF Issued
      <3>1. CASE <<q, y, p>> \in given BY <3>1 DEF Issued
      <3>2. CASE <<q, y, p>> \in Sent(d, msgs)
        <4>1. q = d /\ y = c BY <2>8, <3>2
        <4> QED BY ONLY <1>1, <1>4, <2>2, <4>1 DEF n
      <3> QED BY <3>1, <3>2
    <2>10. Honest(r, g, d, mint, given)
      <3>1. Own(k, d, mint) BY <1>1, <2>5 DEF Own, n
      <3>2. r.n \in Nat /\ mint[d] <= r.n BY <2>2, <2>6 DEF n
      <3> QED BY <1>2, <2>2, <2>5, <2>6, <2>8, <2>9, <3>1, <3>2, Zenon DEF Honest
    <2>11. ASSUME ~g.pendingInvitation, KeysOK(g, d, given)
           PROVE  KeysOK(k, d, given \cup Sent(d, msgs))
      <3>1. Sent(d, msgs) \subseteq {<<d, k.myCurrentDistributionId, p>> : p \in activeMembers(k)}
        BY <2>3, <2>5, <2>7, <2>8, Zenon
      <3>2. \A p \in Devices : k.members[p].status = "removed" =>
               <<d, k.myCurrentDistributionId, p>> \notin given
        BY <2>5, <2>11 DEF KeysOK, c
      <3>3. d \in activeMembers(k) \/ k.myCurrentDistributionId = 0
        BY <2>5, <2>7, <2>11, Zenon DEF KeysOK, c
      <3> QED BY <2>5, <2>11, <3>1, <3>2, <3>3, GivenKeys, Zenon
    <2> QED BY <2>6, <2>8, <2>10, <2>11, Zenon DEF r, n
  <1> QED BY <1>3, <1>4, Zenon

\* enrolMyChainOnFirstJoin makes the first chain, or finds one.
LEMMA EnrolKeeps ==
  ASSUME NEW mint \in Mints, NEW d \in Devices, NEW g, Own(g, d, mint), NEW given,
         Issued(given, mint), NEW reach, d \in activeMembers(g), ~g.pendingInvitation
  PROVE  LET r == enrolMyChainOnFirstJoin(g, d, reach, mint[d])
         IN  /\ Honest(r, g, d, mint, given)
             /\ KeysOK(g, d, given) => KeysOK(r.g, d, given \cup Sent(d, r.msgs))
  <1> DEFINE n == mint[d]
             later == [mint EXCEPT ![d] = n + 1]
             to == Others(g, d, reach)
             ms == [g.members EXCEPT ![d].status = "active"]
             k == [g EXCEPT !.myCurrentDistributionId = n + 1, !.mySkdmRecipients = to,
                            !.members[d].status = "active"]
             msgs == {KeyMsg(p, d, n + 1) : p \in to}
             r == enrolMyChainOnFirstJoin(g, d, reach, n)
  <1>1. /\ IsGroup(g) /\ WellKept(g, mint) /\ g.members \in Members
        /\ g.pendingInvitation \in BOOLEAN
    BY Zenon DEF Own, WellKept, IsGroup
  <1>2. Longer(g.lastOpDigest, g.lastOpDigest)
    <2>1. Len(g.lastOpDigest) \in Nat BY ONLY <1>1 DEF IsGroup, Digests
    <2> QED BY <2>1 DEF Longer
  <1>3. CASE g.myCurrentDistributionId # 0
    <2>1. r = Result(g, {}, n) BY <1>3 DEF enrolMyChainOnFirstJoin
    <2> HIDE DEF r, n
    <2>2. Honest(r, g, d, mint, given) /\ r.g = g /\ Sent(d, r.msgs) = {}
      BY <1>2, <2>1, NothingDone DEF n
    <2>3. given \cup Sent(d, r.msgs) = given BY <2>2, Zenon
    <2> QED BY <2>2, <2>3 DEF r, n
  <1>4. CASE g.myCurrentDistributionId = 0
    <2>1. r = Result(k, msgs, n + 1) BY <1>4 DEF enrolMyChainOnFirstJoin
    <2>2. n \in Nat /\ later \in Mints /\ later[d] = n + 1 /\ Above(later, mint)
      BY DEF Mints, Above
    <2>3. to \subseteq activeMembers(g) BY DEF Others
    <2> HIDE DEF r, to
    <2>4. k = Refit(g, ms, n + 1, to, g.pendingInvitation)
      <3>1. k = Enrolled(g, n + 1, to, d) BY DEF Enrolled
      <3> HIDE DEF k
      <3> QED BY <1>1, <3>1, EnrolledIs
    <2>5. /\ ms \in Members /\ memberSetRoot(ms) = memberSetRoot(g.members)
          /\ \A q \in Devices : ms[q].status = "removed" <=> g.members[q].status = "removed"
          /\ \A q \in Devices : ms[q].status \in {"active", "pendingSKDM"} <=>
                                g.members[q].status \in {"active", "pendingSKDM"}
      BY <1>1, Activated DEF activeMembers
    <2> HIDE DEF k, ms, later
    <2>6. WellKept(g, later) BY <1>1, <2>2, LaterFresh
    <2>7. /\ WellKept(k, later) /\ k.lastOpDigest = g.lastOpDigest
          /\ k.members = ms /\ k.myCurrentDistributionId = n + 1
          /\ k.pendingInvitation = g.pendingInvitation
      <3>1. n + 1 \in Nat BY <2>2
      <3> HIDE DEF n
      <3>2. Fits(g, later, ms, n + 1, g.pendingInvitation) BY <1>1, <2>5, <2>6, <3>1, Zenon DEF Fits
      <3>3. Fitted(k, g, later, ms, n + 1, g.pendingInvitation) BY <2>4, <3>2, RefitKeeps, Zenon
      <3> QED BY <3>3, Zenon DEF Fitted
    <2>8. r.g = k /\ r.msgs = msgs /\ r.n = n + 1 BY <2>1, Zenon DEF Result
    <2>9. activeMembers(k) = activeMembers(g) BY <2>5, <2>7 DEF activeMembers
    <2>10. /\ \A m \in msgs : GoodMsg(m, later)
           /\ Sent(d, msgs) \subseteq {<<d, n + 1, p>> : p \in to}
      <3>1. n + 1 \in Nat BY <2>2
      <3> HIDE DEF n
      <3> QED BY <3>1, KeyMsgs, Zenon
    <2> HIDE DEF msgs, n
    <2>11. Issued(given \cup Sent(d, msgs), later)
      <3> SUFFICES ASSUME NEW q \in Devices, NEW y, NEW p,
                          <<q, y, p>> \in given \cup Sent(d, msgs)
                   PROVE  y \in Nat /\ 1 <= y /\ y <= later[q]
        BY DEF Issued
      <3>1. CASE <<q, y, p>> \in given
        <4>1. y \in Nat /\ 1 <= y /\ y <= mint[q] BY <3>1 DEF Issued
        <4> QED BY <2>2, <4>1 DEF Above, Mints
      <3>2. CASE <<q, y, p>> \in Sent(d, msgs)
        <4>1. q = d /\ y = n + 1 BY <2>10, <3>2
        <4> QED BY ONLY <2>2, <4>1
      <3> QED BY <3>1, <3>2, Zenon
    <2>12. Honest(r, g, d, mint, given)
      <3>1. Own(k, d, later) BY <2>2, <2>7 DEF Own
      <3>2. r.n \in Nat /\ mint[d] <= r.n BY <2>2, <2>8 DEF n
      <3>3. [mint EXCEPT ![d] = r.n] = later BY <2>8 DEF later
      <3> QED BY <1>2, <2>7, <2>8, <2>10, <2>11, <3>1, <3>2, <3>3, Zenon DEF Honest
    <2>13. KeysOK(k, d, given \cup Sent(d, msgs))
      <3>1. Sent(d, msgs) \subseteq {<<d, k.myCurrentDistributionId, p>> : p \in activeMembers(k)}
        BY <2>3, <2>7, <2>9, <2>10
      <3>2. ASSUME NEW p, <<d, n + 1, p>> \in given PROVE FALSE
        <4>1. n + 1 <= mint[d] BY <3>2 DEF Issued
        <4> QED BY <2>2, <4>1 DEF n
      <3> QED BY <2>7, <2>9, <3>1, <3>2, GivenKeys, ZenonT(60)
    <2> QED BY <2>8, <2>12, <2>13 DEF r, n
  <1> QED BY <1>3, <1>4, Zenon

=============================================================================
