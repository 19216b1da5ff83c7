-------------------------- MODULE DiscoveryProofs --------------------------
(***************************************************************************)
(* For any number of hosts, crashes and lost beacons: what Topology        *)
(* promises, that a beacon says what its sender meant or is rejected, and  *)
(* that Discovery implements Topology.                                     *)
(***************************************************************************)
EXTENDS Discovery, FiniteSetTheorems, SequenceTheorems, WellFoundedInduction, TLAPS

-----------------------------------------------------------------------------
(* Topology *)

(* Only running brokers have links, and only upwards: what makes           *)
(* OneSideDials inductive.                                                 *)
LinksUpwards ==
  \A h \in Host : /\ h \notin up => DOMAIN peers[h] = {}
                  /\ \A u \in DOMAIN peers[h] : uuid[h] < u

TopoInv == TopoTypeOK /\ LinksUpwards /\ ClustersApart

LEMMA EmptyDomain == DOMAIN << >> = {}
OBVIOUS

LEMMA TopoInitially == TopoInit => TopoInv
<1> SUFFICES ASSUME TopoInit PROVE TopoInv
  OBVIOUS
<1>1. \A h \in Host : DOMAIN peers[h] = {}
  BY EmptyDomain DEF TopoInit
<1>2. ASSUME NEW h \in Host
      PROVE  InitUuid[h] \in DOMAIN home /\ home[InitUuid[h]] = h
  BY TopologyAssumption DEF TopoInit
<1>3. \A u \in DOMAIN home : u \in Uuid /\ home[u] \in Host
  BY TopologyAssumption DEF TopoInit
<1>4. QED
  BY <1>1, <1>2, <1>3, TopologyAssumption DEF TopoInit, TopoInv, TopoTypeOK, LinksUpwards, ClustersApart

LEMMA TopoStep == TopoInv /\ [TopoNext]_topoVars => TopoInv'
<1> SUFFICES ASSUME TopoInv, [TopoNext]_topoVars PROVE TopoInv'
  OBVIOUS
<1> USE DEF TopoInv
<1>1. CASE UNCHANGED topoVars
  BY <1>1 DEF topoVars, TopoTypeOK, LinksUpwards, ClustersApart
<1>2. ASSUME NEW h \in Host, NEW u \in Uuid, Dial(h, u) PROVE TopoInv'
  <2>1. DOMAIN peers'[h] = DOMAIN peers[h] \cup {u}
    BY <1>2 DEF Dial, TopoTypeOK, Set
  <2>2. \A x \in DOMAIN peers'[h] : peers'[h][x] = IF x = u THEN home[u] ELSE peers[h][x]
    BY <1>2 DEF Dial, TopoTypeOK, Set
  <2>3. DOMAIN peers' = Host /\ \A g \in Host : g # h => peers'[g] = peers[g]
    BY <1>2 DEF Dial, TopoTypeOK
  <2>4. TopoTypeOK'
    BY <1>2, <2>1, <2>3 DEF Dial, TopoTypeOK
  <2>5. LinksUpwards'
    BY <1>2, <2>1, <2>3 DEF Dial, LinksUpwards
  <2>6. ClustersApart'
    BY <1>2, <2>1, <2>2, <2>3 DEF Dial, ClustersApart
  <2>7. QED
    BY <2>4, <2>5, <2>6
<1>3. ASSUME NEW h \in Host, NEW U, Drop(h, U) PROVE TopoInv'
  <2>1. DOMAIN peers'[h] = DOMAIN peers[h] \ U
    BY <1>3 DEF Drop, TopoTypeOK, Without
  <2>2. \A x \in DOMAIN peers'[h] : peers'[h][x] = peers[h][x]
    BY <1>3 DEF Drop, TopoTypeOK, Without
  <2>3. DOMAIN peers' = Host /\ \A g \in Host : g # h => peers'[g] = peers[g]
    BY <1>3 DEF Drop, TopoTypeOK
  <2>4. QED
    BY <1>3, <2>1, <2>2, <2>3 DEF Drop, TopoTypeOK, LinksUpwards, ClustersApart
<1>4. ASSUME NEW h \in Host, Crash(h) PROVE TopoInv'
  <2>1. DOMAIN peers'[h] = {}
    BY <1>4, EmptyDomain DEF Crash, TopoTypeOK
  <2>2. DOMAIN peers' = Host /\ \A g \in Host : g # h => peers'[g] = peers[g]
    BY <1>4 DEF Crash, TopoTypeOK
  <2>3. QED
    BY <1>4, <2>1, <2>2 DEF Crash, TopoTypeOK, LinksUpwards, ClustersApart
<1>5. ASSUME NEW h \in Host, Restart(h) PROVE TopoInv'
  <2>1. PICK u \in Uuid \ DOMAIN home :
          uuid' = [uuid EXCEPT ![h] = u] /\ home' = Set(home, u, h)
    BY <1>5 DEF Restart
  <2>2. /\ DOMAIN home' = DOMAIN home \cup {u}
        /\ \A x \in DOMAIN home' : home'[x] = IF x = u THEN h ELSE home[x]
    BY <2>1 DEF Set
  <2>3. uuid'[h] = u /\ \A g \in Host : g # h => uuid'[g] = uuid[g]
    BY <2>1 DEF TopoTypeOK
  <2>4. TopoTypeOK'
    BY <1>5, <2>1, <2>2, <2>3 DEF Restart, TopoTypeOK
  <2>5. LinksUpwards'
    BY <1>5, <2>3 DEF Restart, LinksUpwards
  <2>6. ClustersApart'
    BY <1>5, <2>2 DEF Restart, ClustersApart, TopoTypeOK
  <2>7. QED
    BY <2>4, <2>5, <2>6
<1>6. QED
  BY <1>1, <1>2, <1>3, <1>4, <1>5 DEF TopoNext

LEMMA TopoInductive == TopoSpec => []TopoInv
BY TopoInitially, TopoStep, PTL DEF TopoSpec

LEMMA UpwardsIsOneSided == TopoInv => OneSideDials /\ ClustersApart /\ TopoTypeOK
<1> SUFFICES ASSUME TopoInv PROVE OneSideDials
  BY DEF TopoInv
<1> SUFFICES ASSUME NEW g \in Host, NEW h \in Host,
                    uuid[g] \in DOMAIN peers[h], uuid[h] \in DOMAIN peers[g]
             PROVE  FALSE
  BY DEF OneSideDials
<1>1. uuid[h] < uuid[g] /\ uuid[g] < uuid[h]
  BY DEF TopoInv, LinksUpwards
<1>2. uuid[g] \in Nat /\ uuid[h] \in Nat
  BY TopologyAssumption DEF TopoInv, TopoTypeOK
<1>3. QED
  BY <1>1, <1>2

(* Whatever brokers appear, die and come back, no two have links to each   *)
(* other, and every link stays in its cluster.                             *)
THEOREM TopologySafe == TopoSpec => [](OneSideDials /\ ClustersApart)
<1>1. TopoInv => OneSideDials /\ ClustersApart
  BY UpwardsIsOneSided
<1>2. QED
  BY TopoInductive, <1>1, PTL

-----------------------------------------------------------------------------
(* The beacon *)

(* The first usable port is one, since addresses are numbered by naturals. *)
LEMMA PortInRange ==
  ASSUME NEW h \in Host PROVE Port(h) \in 0..MaxPort
<1> DEFINE A == BindAddresses[h]
           usable == {i \in DOMAIN A : A[i].scheme = "tcp" /\ A[i].port \in 1..MaxPort}
           R == OpToRel(<, Nat)
<1>0. MaxPort \in Nat
  BY DEF MaxPort
<1>1. CASE usable = {}
  <2>1. Port(h) = 0
    BY <1>1, Zenon DEF Port, parseTcpPort
  <2>2. 0 \in 0..MaxPort
    BY <1>0
  <2>3. QED
    BY <2>1, <2>2, Zenon
<1>2. CASE usable # {}
  <2>1. usable \subseteq Nat
    BY BeaconAssumption
  <2>2. \E i \in usable : \A j \in usable : <<j, i>> \notin R
    <3> HIDE DEF usable, R
    <3>1. IsWellFoundedOn(R, Nat)
      BY NatLessThanWellFounded DEF R
    <3>2. QED
      BY <1>2, <2>1, <3>1, WFMin
  <2>3. PICK i \in usable : \A j \in usable : <<j, i>> \notin R
    BY <2>2
  <2>4. ASSUME NEW j \in usable PROVE i <= j
    <3>1. i \in Nat /\ j \in Nat
      BY <2>1
    <3>2. <<j, i>> \in R <=> j < i
      BY <3>1 DEF OpToRel
    <3>3. ~(j < i)
      BY <2>3, <3>2
    <3>4. QED
      BY <3>1, <3>3
  <2>5. \E k \in usable : \A j \in usable : k <= j
    BY <2>4
  <2>6. (CHOOSE k \in usable : \A j \in usable : k <= j) \in usable
    <3> HIDE DEF usable
    <3> QED
      BY <2>5
  <2>7. A[CHOOSE k \in usable : \A j \in usable : k <= j].port \in 1..MaxPort
    BY <2>6
  <2>8. Port(h) = A[CHOOSE k \in usable : \A j \in usable : k <= j].port
    BY <1>2 DEF Port, parseTcpPort
  <2>9. 1..MaxPort \subseteq 0..MaxPort
    BY <1>0
  <2>10. QED
    BY <2>7, <2>8, <2>9, Zenon
<1>3. QED
  BY <1>1, <1>2

(* z is x with y after it. *)
Joined(z, x, y) ==
  /\ Len(z) = Len(x) + Len(y)
  /\ \A i \in 1..Len(x) : z[i] = x[i]
  /\ \A i \in 1..Len(y) : z[Len(x) + i] = y[i]

LEMMA ConcatJoins ==
  ASSUME NEW S, NEW x \in Seq(S), NEW y \in Seq(S)
  PROVE  x \o y \in Seq(S) /\ Joined(x \o y, x, y)
<1>1. x \o y \in Seq(S) /\ Len(x \o y) = Len(x) + Len(y) /\ \A i \in 1..Len(x) : (x \o y)[i] = x[i]
  OBVIOUS
<1>2. ASSUME NEW i \in 1..Len(y) PROVE (x \o y)[Len(x) + i] = y[i]
  <2>1. Len(x) + i \in 1..Len(x) + Len(y) /\ Len(x) + i > Len(x) /\ (Len(x) + i) - Len(x) = i
    OBVIOUS
  <2>2. QED
    BY <2>1
<1>3. QED
  BY <1>1, <1>2 DEF Joined

(* Where the pieces of a beacon are. *)
InPlace(s, c, u, p) ==
  /\ Len(c) \in Nat /\ Len(s) = Len(c) + 8
  /\ s[1] = "WISP" /\ s[2] = Bar /\ s[3] = "1" /\ s[4] = Bar
  /\ \A i \in 1..Len(c) : s[4 + i] = c[i]
  /\ s[Len(c) + 5] = Bar /\ s[Len(c) + 6] = u /\ s[Len(c) + 7] = Bar /\ s[Len(c) + 8] = p

LEMMA BeaconInPlace ==
  ASSUME NEW C, NEW c \in Seq(C), NEW u, NEW p
  PROVE  /\ encodeBeacon(c, u, p) \in Seq(C \cup {"WISP", "1", Bar, u, p})
         /\ InPlace(encodeBeacon(c, u, p), c, u, p)
<1> DEFINE S == C \cup {"WISP", "1", Bar, u, p}
           x == <<"WISP", Bar, "1", Bar>>
           z == <<Bar, u, Bar, p>>
           n == Len(c)
<1>1. x \in Seq(S) /\ Len(x) = 4 /\ x[1] = "WISP" /\ x[2] = Bar /\ x[3] = "1" /\ x[4] = Bar
  OBVIOUS
<1>2. z \in Seq(S) /\ Len(z) = 4 /\ z[1] = Bar /\ z[2] = u /\ z[3] = Bar /\ z[4] = p
  OBVIOUS
<1>3. c \in Seq(S) /\ n \in Nat
  OBVIOUS
<1> HIDE DEF S, x, z
<1> DEFINE y == x \o c
<1>4. /\ y \in Seq(S) /\ Len(y) = n + 4 /\ y[1] = x[1] /\ y[2] = x[2] /\ y[3] = x[3] /\ y[4] = x[4]
      /\ \A i \in 1..n : y[4 + i] = c[i]
  <2>1. x \o c \in Seq(S) /\ Joined(x \o c, x, c)
    BY <1>1, <1>3, ConcatJoins, Zenon
  <2>2. QED
    BY <1>1, <1>3, <2>1 DEF Joined
<1> HIDE DEF y
<1> DEFINE s == y \o z
<1>5. s \in Seq(S) /\ Joined(s, y, z)
  BY <1>2, <1>4, ConcatJoins, Zenon
<1> HIDE DEF s
<1>6. Len(s) = n + 8 /\ \A i \in 1..n + 4 : s[i] = y[i]
  BY <1>2, <1>3, <1>4, <1>5 DEF Joined
<1>7. s[n + 5] = z[1] /\ s[n + 6] = z[2] /\ s[n + 7] = z[3] /\ s[n + 8] = z[4]
  <2>1. n + 5 = (n + 4) + 1 /\ n + 6 = (n + 4) + 2 /\ n + 7 = (n + 4) + 3 /\ n + 8 = (n + 4) + 4
    BY <1>3
  <2>2. s[(n + 4) + 1] = z[1] /\ s[(n + 4) + 2] = z[2] /\ s[(n + 4) + 3] = z[3] /\ s[(n + 4) + 4] = z[4]
    BY <1>2, <1>4, <1>5 DEF Joined
  <2>3. QED
    BY ONLY <2>1, <2>2
<1>8. encodeBeacon(c, u, p) = s
  BY DEF encodeBeacon, x, y, z, s
<1>9. InPlace(s, c, u, p)
  BY <1>1, <1>2, <1>3, <1>4, <1>6, <1>7 DEF InPlace
<1>10. QED
  BY <1>5, <1>8, <1>9 DEF S

(* Without a bar in the cluster name, the beacon has its four. *)
LEMMA FourBars ==
  ASSUME NEW s, NEW c, NEW u, NEW p, InPlace(s, c, u, p), u # Bar, p # Bar,
         \A i \in 1..Len(c) : c[i] # Bar
  PROVE  /\ BarsUpTo(s, 2) = {2} /\ BarsUpTo(s, 4) = {2, 4}
         /\ BarsUpTo(s, Len(c) + 5) = {2, 4, Len(c) + 5}
         /\ BarsUpTo(s, Len(c) + 7) = {2, 4, Len(c) + 5, Len(c) + 7}
         /\ BarsUpTo(s, Len(c) + 8) = {2, 4, Len(c) + 5, Len(c) + 7}
<1> DEFINE n == Len(c)
<1>1. /\ n \in Nat /\ Len(s) = n + 8
      /\ s[1] = "WISP" /\ s[2] = Bar /\ s[3] = "1" /\ s[4] = Bar
      /\ \A i \in 1..n : s[4 + i] = c[i]
      /\ s[n + 5] = Bar /\ s[n + 6] = u /\ s[n + 7] = Bar /\ s[n + 8] = p
  BY DEF InPlace
<1>2. ASSUME NEW i \in 1..n + 8 PROVE s[i] = Bar <=> i \in {2, 4, n + 5, n + 7}
  <2>1. CASE i \in 5..n + 4
    <3>1. i - 4 \in 1..n /\ 4 + (i - 4) = i
      BY <1>1, <2>1
    <3>2. s[i] = c[i - 4]
      BY <1>1, <3>1
    <3>3. QED
      BY <1>1, <2>1, <3>1, <3>2
  <2>2. CASE i \notin 5..n + 4
    <3>1. i \in {1, 2, 3, 4, n + 5, n + 6, n + 7, n + 8}
      BY <1>1, <2>2
    <3>2. QED
      BY <1>1, <3>1, BeaconAssumption
  <2>3. QED
    BY <2>1, <2>2
<1> HIDE DEF n
<1>3. BarsUpTo(s, 2) = {2} /\ BarsUpTo(s, 4) = {2, 4}
  BY <1>1, <1>2 DEF BarsUpTo
<1>4. BarsUpTo(s, n + 5) = {2, 4, n + 5}
  BY <1>1, <1>2 DEF BarsUpTo
<1>5. BarsUpTo(s, n + 7) = {2, 4, n + 5, n + 7}
  BY <1>1, <1>2 DEF BarsUpTo
<1>6. BarsUpTo(s, n + 8) = {2, 4, n + 5, n + 7}
  BY <1>1, <1>2 DEF BarsUpTo
<1>7. QED
  BY <1>3, <1>4, <1>5, <1>6 DEF n

(* Up to four numbers in order are that many. *)
Counted(i, j, k, l) ==
  /\ Cardinality({i}) = 1 /\ Cardinality({i, j}) = 2
  /\ Cardinality({i, j, k}) = 3 /\ IsFiniteSet({i, j, k, l}) /\ Cardinality({i, j, k, l}) = 4

LEMMA CountOfFew ==
  ASSUME NEW i \in Int, NEW j \in Int, NEW k \in Int, NEW l \in Int, i < j, j < k, k < l
  PROVE  Counted(i, j, k, l)
<1>1. IsFiniteSet({i}) /\ Cardinality({i}) = 1
  BY FS_Singleton
<1>2. IsFiniteSet({i, j}) /\ Cardinality({i, j}) = 2
  <2>1. {i, j} = {i} \cup {j} /\ j \notin {i}
    OBVIOUS
  <2>2. QED
    BY <1>1, <2>1, FS_AddElement
<1>3. IsFiniteSet({i, j, k}) /\ Cardinality({i, j, k}) = 3
  <2>1. {i, j, k} = {i, j} \cup {k} /\ k \notin {i, j}
    OBVIOUS
  <2>2. QED
    BY <1>2, <2>1, FS_AddElement
<1>4. IsFiniteSet({i, j, k, l}) /\ Cardinality({i, j, k, l}) = 4
  <2>1. {i, j, k, l} = {i, j, k} \cup {l} /\ l \notin {i, j, k}
    OBVIOUS
  <2>2. QED
    BY <1>3, <2>1, FS_AddElement
<1>5. QED
  BY <1>1, <1>2, <1>3, <1>4 DEF Counted

(* find('|') stops at the four bars in turn. *)
LEMMA BarsInOrder ==
  ASSUME NEW S, NEW s \in Seq(S), NEW c, NEW u, NEW p, InPlace(s, c, u, p), u # Bar, p # Bar,
         \A i \in 1..Len(c) : c[i] # Bar
  PROVE  /\ Cardinality(BarsUpTo(s, Len(s))) = 4
         /\ BarAt(s, 0) = 0 /\ BarAt(s, 1) = 2 /\ BarAt(s, 2) = 4
         /\ BarAt(s, 3) = Len(c) + 5 /\ BarAt(s, 4) = Len(c) + 7
<1> DEFINE n == Len(c)
           Bars(i) == Cardinality(BarsUpTo(s, i))
<1>1. n \in Nat /\ Len(s) = n + 8 /\ s[2] = Bar /\ s[4] = Bar /\ s[n + 5] = Bar /\ s[n + 7] = Bar
  BY DEF InPlace
<1>2. /\ BarsUpTo(s, 2) = {2} /\ BarsUpTo(s, 4) = {2, 4}
      /\ BarsUpTo(s, n + 5) = {2, 4, n + 5} /\ BarsUpTo(s, n + 7) = {2, 4, n + 5, n + 7}
      /\ BarsUpTo(s, n + 8) = {2, 4, n + 5, n + 7}
  BY FourBars
<1>3. /\ Cardinality({2}) = 1 /\ Cardinality({2, 4}) = 2
      /\ Cardinality({2, 4, n + 5}) = 3 /\ Cardinality({2, 4, n + 5, n + 7}) = 4
  <2>1. 2 \in Int /\ 4 \in Int /\ n + 5 \in Int /\ n + 7 \in Int /\ 2 < 4 /\ 4 < n + 5 /\ n + 5 < n + 7
    BY <1>1
  <2> HIDE DEF n
  <2>2. Counted(2, 4, n + 5, n + 7)
    BY <2>1, CountOfFew
  <2>3. QED
    BY <2>2 DEF Counted
<1>4. Bars(2) = 1 /\ Bars(4) = 2 /\ Bars(n + 5) = 3 /\ Bars(n + 7) = 4 /\ Bars(n + 8) = 4
  BY <1>2, <1>3
<1>5. ASSUME NEW i \in DOMAIN s, s[i] = Bar PROVE i \in {2, 4, n + 5, n + 7}
  <2>1. i \in BarsUpTo(s, n + 8)
    BY <1>1, <1>5 DEF BarsUpTo
  <2>2. QED
    BY <1>2, <2>1
<1>6. DOMAIN s = 1..n + 8 /\ {2, 4, n + 5, n + 7} \subseteq DOMAIN s
  BY <1>1
<1> HIDE DEF n, Bars
<1>7. ASSUME NEW k \in 1..4, NEW j \in {2, 4, n + 5, n + 7}, Bars(j) = k PROVE BarAt(s, k) = j
  <2>1. j \in DOMAIN s /\ s[j] = Bar /\ Cardinality(BarsUpTo(s, j)) = k
    BY <1>1, <1>6, <1>7 DEF Bars
  <2>2. ASSUME NEW i \in DOMAIN s, s[i] = Bar, Cardinality(BarsUpTo(s, i)) = k PROVE i = j
    <3>1. i \in {2, 4, n + 5, n + 7} /\ Bars(i) = Bars(j)
      BY <1>5, <1>7, <2>2 DEF Bars
    <3>2. QED
      BY <1>4, <3>1
  <2>3. BarAt(s, k) = CHOOSE i \in DOMAIN s : s[i] = Bar /\ Cardinality(BarsUpTo(s, i)) = k
    BY DEF BarAt
  <2>4. QED
    BY <2>1, <2>2, <2>3
<1>8. BarAt(s, 1) = 2 /\ BarAt(s, 2) = 4
  BY <1>4, <1>7
<1>9. BarAt(s, 3) = n + 5
  BY <1>4, <1>7
<1>10. BarAt(s, 4) = n + 7
  BY <1>4, <1>7
<1>11. BarAt(s, 0) = 0
  BY DEF BarAt
<1>12. QED
  BY <1>1, <1>4, <1>8, <1>9, <1>10, <1>11 DEF n, Bars

(* So the five fields are the five pieces. *)
LEMMA FiveFields ==
  ASSUME NEW S, NEW s \in Seq(S), NEW C, NEW c \in Seq(C), NEW u, NEW p, InPlace(s, c, u, p), u # Bar, p # Bar,
         \A i \in 1..Len(c) : c[i] # Bar
  PROVE  /\ Len(Fields(s)) = 5
         /\ Fields(s)[1] = <<"WISP">> /\ Fields(s)[2] = <<"1">> /\ Fields(s)[3] = c
         /\ Fields(s)[4] = <<u>> /\ Fields(s)[5] = <<p>>
<1> DEFINE n == Len(c)
<1>1. /\ n \in Nat /\ Len(s) = n + 8
      /\ s[1] = "WISP" /\ s[2] = Bar /\ s[3] = "1" /\ s[4] = Bar
      /\ \A i \in 1..n : s[4 + i] = c[i]
      /\ s[n + 5] = Bar /\ s[n + 6] = u /\ s[n + 7] = Bar /\ s[n + 8] = p
  BY DEF InPlace
<1>2. /\ Cardinality(BarsUpTo(s, Len(s))) = 4
      /\ BarAt(s, 0) = 0 /\ BarAt(s, 1) = 2 /\ BarAt(s, 2) = 4
      /\ BarAt(s, 3) = n + 5 /\ BarAt(s, 4) = n + 7
  BY BarsInOrder
<1> DEFINE e(k) == SubSeq(s, BarAt(s, k - 1) + 1, IF k > 4 THEN Len(s) ELSE BarAt(s, k) - 1)
<1>3. Fields(s) = [k \in 1..5 |-> e(k)]
  BY <1>2 DEF Fields
<1>4. /\ Len(Fields(s)) = 5
      /\ Fields(s)[1] = SubSeq(s, 1, 1) /\ Fields(s)[2] = SubSeq(s, 3, 3)
      /\ Fields(s)[3] = SubSeq(s, 5, n + 4) /\ Fields(s)[4] = SubSeq(s, n + 6, n + 6)
      /\ Fields(s)[5] = SubSeq(s, n + 8, n + 8)
  <2>1. e(1) = SubSeq(s, 1, 1) /\ e(2) = SubSeq(s, 3, 3)
    BY <1>2
  <2>2. e(3) = SubSeq(s, 5, n + 4)
    <3>1. 4 + 1 = 5 /\ (n + 5) - 1 = n + 4 /\ 3 - 1 = 2 /\ ~(3 > 4)
      BY <1>1
    <3>2. QED
      BY <1>2, <3>1
  <2>3. e(4) = SubSeq(s, n + 6, n + 6)
    <3>1. (n + 5) + 1 = n + 6 /\ (n + 7) - 1 = n + 6 /\ 4 - 1 = 3 /\ ~(4 > 4)
      BY <1>1
    <3>2. QED
      BY <1>2, <3>1
  <2>4. e(5) = SubSeq(s, n + 8, n + 8)
    BY <1>1, <1>2
  <2> HIDE DEF e
  <2>5. QED
    BY <1>3, <2>1, <2>2, <2>3, <2>4
<1>5. ASSUME NEW i \in 1..n + 8 PROVE SubSeq(s, i, i) = <<s[i]>>
  <2> DEFINE d == SubSeq(s, i, i)
             t == <<s[i]>>
  <2>1. d \in Seq(S) /\ Len(d) = 1 /\ d[1] = s[i]
    BY <1>1
  <2>2. t \in Seq(S) /\ Len(t) = 1 /\ t[1] = s[i]
    BY <1>1
  <2> HIDE DEF d, t
  <2>3. d = t
    BY <2>1, <2>2, SeqEqual
  <2>4. QED
    BY <2>3 DEF d, t
<1>6. SubSeq(s, 5, n + 4) = c
  <2> DEFINE d == SubSeq(s, 5, n + 4)
  <2>1. d \in Seq(S) /\ Len(d) = n /\ \A i \in 1..n : d[i] = s[4 + i]
    BY <1>1
  <2> HIDE DEF d
  <2>2. \A i \in 1..n : d[i] = c[i]
    BY <1>1, <2>1
  <2>3. d \in Seq(S \cup C) /\ c \in Seq(S \cup C)
    BY <2>1
  <2>4. QED
    BY <2>1, <2>2, <2>3, SeqEqual DEF d
<1>7. QED
  BY <1>1, <1>4, <1>5, <1>6

(* A bar in the cluster name is a fifth. *)
LEMMA SixFields ==
  ASSUME NEW S, NEW s \in Seq(S), NEW c, NEW u, NEW p, InPlace(s, c, u, p), NEW b \in 1..Len(c), c[b] = Bar
  PROVE  Len(Fields(s)) # 5
<1> DEFINE n == Len(c)
           B == BarsUpTo(s, Len(s))
           Five == {2, 4, n + 5, n + 7} \cup {4 + b}
<1>1. /\ n \in Nat /\ Len(s) = n + 8 /\ s[2] = Bar /\ s[4] = Bar /\ s[n + 5] = Bar /\ s[n + 7] = Bar
      /\ s[4 + b] = Bar
  BY DEF InPlace
<1>2. Five \subseteq B
  BY <1>1 DEF BarsUpTo
<1> DEFINE Four == {2, 4, n + 5, n + 7}
<1>3. IsFiniteSet(Four) /\ Cardinality(Four) = 4
  <2>1. 2 \in Int /\ 4 \in Int /\ n + 5 \in Int /\ n + 7 \in Int /\ 2 < 4 /\ 4 < n + 5 /\ n + 5 < n + 7
    BY <1>1
  <2> HIDE DEF n
  <2>2. Counted(2, 4, n + 5, n + 7)
    BY <2>1, CountOfFew
  <2>3. QED
    BY <2>2 DEF Counted
<1>4. Cardinality(Five) = 5
  <2>1. 4 + b \notin Four /\ Five = Four \cup {4 + b}
    BY <1>1
  <2> HIDE DEF Four, Five
  <2>2. Cardinality(Four \cup {4 + b}) = Cardinality(Four) + 1
    BY <1>3, <2>1, FS_AddElement
  <2>3. QED
    BY <1>3, <2>1, <2>2
<1>5. IsFiniteSet(B)
  <2>1. B \subseteq 1..Len(s)
    BY DEF BarsUpTo
  <2>2. IsFiniteSet(1..Len(s))
    BY <1>1, FS_Interval
  <2> HIDE DEF B
  <2>3. QED
    BY <2>1, <2>2, FS_Subset
<1>6. Cardinality(B) \in Nat /\ Cardinality(B) >= 5
  <2> HIDE DEF Five, B
  <2>1. Cardinality(Five) <= Cardinality(B) /\ Cardinality(B) \in Nat
    BY <1>2, <1>5, FS_Subset, FS_CardinalityType
  <2>2. QED
    BY <1>4, <2>1
<1>7. Len(Fields(s)) = Cardinality(B) + 1
  <2> DEFINE m == Cardinality(B)
             e(k) == SubSeq(s, BarAt(s, k - 1) + 1, IF k > m THEN Len(s) ELSE BarAt(s, k) - 1)
  <2>1. Fields(s) = [k \in 1..m + 1 |-> e(k)]
    BY DEF Fields
  <2> HIDE DEF m, e
  <2>2. QED
    BY <1>6, <2>1 DEF m
<1>8. QED
  BY <1>6, <1>7

(* What is decoded is what was encoded, or nothing. *)
LEMMA BeaconFaithful ==
  ASSUME NEW g \in Host, NEW u \in Uuid
  PROVE  Faithful(g, u)
<1> DEFINE c == ClusterOf[g]
           p == Port(g)
           s == encodeBeacon(c, u, p)
           C == {c[i] : i \in DOMAIN c}
           S == C \cup {"WISP", "1", Bar, u, p}
           f == Fields(s)
<1>1. c \in Seq(C) /\ u # Bar /\ p # Bar /\ p \in 0..MaxPort
  BY BeaconAssumption, PortInRange
<1>2. s \in Seq(S) /\ InPlace(s, c, u, p)
  <2> HIDE DEF C
  <2> QED
    BY <1>1, BeaconInPlace, Zenon
<1>3. Heard[g][u] = decodeBeacon(s)
  BY DEF Heard
<1> HIDE DEF s, S
<1>4. CASE \A i \in 1..Len(c) : c[i] # Bar
  <2>1. /\ Len(f) = 5 /\ f[1] = <<"WISP">> /\ f[2] = <<"1">> /\ f[3] = c
        /\ f[4] = <<u>> /\ f[5] = <<p>>
    <3> HIDE DEF c, C, p
    <3> QED
      BY <1>1, <1>2, <1>4, FiveFields
  <2>2. Bar \notin C
    BY <1>1, <1>4
  <2>3. CASE p = 0
    <3>1. decodeBeacon(s) = Rejected
      BY <2>1, <2>3 DEF decodeBeacon
    <3>2. QED
      BY <1>3, <2>3, <3>1 DEF Faithful
  <2>4. CASE p # 0
    <3>1. p \in 1..MaxPort
      BY <1>1, <2>4 DEF MaxPort
    <3>2. decodeBeacon(s) = Beacon(f)
      BY <2>1, <3>1 DEF decodeBeacon
    <3>3. Beacon(f) = [ok |-> TRUE, cluster |-> c, uuid |-> u, port |-> p]
      <4> HIDE DEF f
      <4>1. Len(f) - 2 = 3 /\ Len(f) - 1 = 4 /\ f[4][1] = u /\ f[5][1] = p
        BY <2>1
      <4>2. QED
        BY <2>1, <4>1 DEF Beacon
    <3>4. QED
      BY <1>3, <2>2, <2>4, <3>2, <3>3 DEF Faithful
  <2>5. QED
    BY <2>3, <2>4
<1>5. CASE ~\A i \in 1..Len(c) : c[i] # Bar
  <2>1. PICK b \in 1..Len(c) : c[b] = Bar
    BY <1>5
  <2>2. Bar \in C
    BY <1>1, <2>1
  <2>3. Len(f) # 5
    BY <1>2, <2>1, SixFields
  <2>4. decodeBeacon(s) = Rejected
    BY <2>3 DEF decodeBeacon
  <2>5. QED
    BY <1>3, <2>2, <2>4 DEF Faithful
<1>6. QED
  BY <1>4, <1>5

-----------------------------------------------------------------------------
(* Discovery *)

(* Discovery's own state next to that of Topology. *)
TablesInv ==
  /\ DOMAIN dialed = Host
  /\ late \in [Host -> SUBSET DOMAIN home]
  /\ DialedHaveLinks

DiscInv == TopoInv /\ TablesInv

(* What a beacon that is acted upon says. *)
LEMMA BeaconHeard ==
  ASSUME NEW g \in Host, NEW u \in Uuid, NEW h \in Host, Initiator(h, Heard[g][u])
  PROVE  Heard[g][u].uuid = u /\ ClusterOf[g] = ClusterOf[h] /\ uuid[h] < u
<1>1. Heard[g][u].ok
  BY DEF Initiator
<1>2. Heard[g][u] # Rejected
  BY <1>1 DEF Rejected
<1>3. Heard[g][u] = [ok |-> TRUE, cluster |-> ClusterOf[g], uuid |-> u, port |-> Port(g)]
  BY <1>2, BeaconFaithful DEF Faithful
<1>4. QED
  BY <1>3 DEF Initiator

(* A beacon dials its sender or changes no link. *)
LEMMA DatagramDials ==
  ASSUME DiscInv, NEW h \in up, NEW u \in DOMAIN home,
         onDatagram(h, home[u], u), UNCHANGED <<up, uuid, home>>
  PROVE  /\ Dial(h, u) \/ UNCHANGED topoVars
         /\ DOMAIN dialed' = Host /\ DialedHaveLinks'
<1>0. h \in Host /\ u \in Uuid /\ home[u] \in Host
  BY DEF DiscInv, TopoInv, TopoTypeOK
<1>1. CASE ~Initiator(h, Heard[home[u]][u])
  BY <1>1 DEF onDatagram, topoVars, DiscInv, TablesInv, DialedHaveLinks
<1>2. CASE Initiator(h, Heard[home[u]][u])
  <2>1. Heard[home[u]][u].uuid = u /\ ClusterOf[home[u]] = ClusterOf[h] /\ uuid[h] < u
    BY <1>0, <1>2, BeaconHeard
  <2>2. /\ dialed' = [dialed EXCEPT ![h] = Set(@, u, 0)]
        /\ IF u \in DOMAIN dialed[h] THEN UNCHANGED peers
           ELSE peers' = [peers EXCEPT ![h] = Set(@, u, home[u])]
    BY <1>2, <2>1 DEF onDatagram
  <2>3. DOMAIN dialed' = Host /\ DOMAIN dialed'[h] = DOMAIN dialed[h] \cup {u}
        /\ \A g \in Host : g # h => dialed'[g] = dialed[g]
    BY <1>0, <2>2 DEF DiscInv, TablesInv, Set
  <2>4. CASE u \in DOMAIN dialed[h]
    <3>1. UNCHANGED topoVars
      BY <2>2, <2>4 DEF topoVars
    <3>2. \A g \in Host : DOMAIN dialed'[g] = DOMAIN dialed[g]
      BY <2>3, <2>4
    <3>3. DialedHaveLinks'
      BY <2>2, <2>4, <3>2 DEF DiscInv, TablesInv, DialedHaveLinks
    <3>4. QED
      BY <2>3, <3>1, <3>3
  <2>5. CASE u \notin DOMAIN dialed[h]
    <3>1. DOMAIN peers'[h] = DOMAIN peers[h] \cup {u} /\ \A g \in Host : g # h => peers'[g] = peers[g]
      BY <1>0, <2>2, <2>5 DEF DiscInv, TopoInv, TopoTypeOK, Set
    <3>2. Dial(h, u)
      BY <1>0, <2>1, <2>2, <2>5 DEF Dial, DiscInv, TablesInv, DialedHaveLinks
    <3>3. QED
      BY <2>3, <3>1, <3>2 DEF DiscInv, TablesInv, DialedHaveLinks
  <2>6. QED
    BY <2>4, <2>5
<1>3. QED
  BY <1>1, <1>2

(* Every step of Discovery is one of Topology, and keeps its tables. *)
LEMMA DiscStep ==
  ASSUME DiscInv, [Next]_vars
  PROVE  [TopoNext]_topoVars /\ TablesInv'
<1>1. CASE UNCHANGED vars
  BY <1>1 DEF vars, topoVars, DiscInv, TablesInv, DialedHaveLinks
<1>2. ASSUME NEW h \in Host, NEW g \in Host, Hear(h, g) PROVE [TopoNext]_topoVars /\ TablesInv'
  <2>1. uuid[g] \in DOMAIN home /\ home[uuid[g]] = g /\ uuid[g] \in Uuid
    BY DEF DiscInv, TopoInv, TopoTypeOK
  <2>2. h \in up /\ onDatagram(h, home[uuid[g]], uuid[g]) /\ UNCHANGED <<up, uuid, home>> /\ UNCHANGED late
    BY <1>2, <2>1 DEF Hear, Discovering
  <2>3. /\ Dial(h, uuid[g]) \/ UNCHANGED topoVars
        /\ DOMAIN dialed' = Host /\ DialedHaveLinks'
    BY <2>1, <2>2, DatagramDials
  <2>4. QED
    BY <2>1, <2>2, <2>3 DEF TopoNext, DiscInv, TablesInv
<1>3. ASSUME NEW h \in Host, NEW u \in Uuid, HearLate(h, u) PROVE [TopoNext]_topoVars /\ TablesInv'
  <2>1. u \in DOMAIN home /\ late' \in [Host -> SUBSET DOMAIN home]
    BY <1>3 DEF HearLate, DiscInv, TablesInv
  <2>2. h \in up /\ onDatagram(h, home[u], u) /\ UNCHANGED <<up, uuid, home>>
    BY <1>3 DEF HearLate, Discovering
  <2>3. /\ Dial(h, u) \/ UNCHANGED topoVars
        /\ DOMAIN dialed' = Host /\ DialedHaveLinks'
    BY <2>1, <2>2, DatagramDials
  <2>4. QED
    BY <2>1, <2>2, <2>3 DEF TopoNext, TablesInv
<1>4. ASSUME NEW h \in Host, NEW u \in Uuid, Miss(h, u) PROVE [TopoNext]_topoVars /\ TablesInv'
  <2>1. DOMAIN dialed' = Host /\ \A g \in Host : DOMAIN dialed'[g] = DOMAIN dialed[g]
    BY <1>4 DEF Miss, DiscInv, TablesInv
  <2>2. UNCHANGED <<topoVars, late>>
    BY <1>4 DEF Miss
  <2>3. QED
    BY <2>1, <2>2 DEF topoVars, DiscInv, TablesInv, DialedHaveLinks
<1>5. ASSUME NEW h \in Host, expireStale(h) PROVE [TopoNext]_topoVars /\ TablesInv'
  <2>1. Stale(h) \subseteq DOMAIN peers[h]
    BY DEF Stale, DiscInv, TablesInv, DialedHaveLinks
  <2>2. Drop(h, Stale(h)) /\ UNCHANGED late
    BY <1>5 DEF expireStale, Drop
  <2>3. /\ DOMAIN dialed' = Host /\ DOMAIN dialed'[h] = DOMAIN dialed[h] \ Stale(h)
        /\ \A g \in Host : g # h => dialed'[g] = dialed[g]
    BY <1>5 DEF expireStale, DiscInv, TablesInv, Without
  <2>4. /\ DOMAIN peers'[h] = DOMAIN peers[h] \ Stale(h)
        /\ \A g \in Host : g # h => peers'[g] = peers[g]
    BY <1>5 DEF expireStale, DiscInv, TopoInv, TopoTypeOK, Without
  <2>5. TablesInv'
    BY <2>2, <2>3, <2>4 DEF Drop, DiscInv, TablesInv, DialedHaveLinks
  <2>6. QED
    BY <2>1, <2>2, <2>5 DEF TopoNext
<1>6. ASSUME NEW h \in Host, Die(h) PROVE [TopoNext]_topoVars /\ TablesInv'
  <2>1. Crash(h) /\ dialed' = [dialed EXCEPT ![h] = << >>]
    BY <1>6 DEF Die
  <2>2. late' \in [Host -> SUBSET DOMAIN home']
    BY <1>6 DEF Die, Crash, DiscInv, TablesInv, TopoInv, TopoTypeOK
  <2>3. DOMAIN dialed' = Host /\ DOMAIN dialed'[h] = {} /\ \A g \in Host : g # h => dialed'[g] = dialed[g]
    BY <2>1, EmptyDomain DEF DiscInv, TablesInv
  <2>4. DOMAIN peers'[h] = {} /\ \A g \in Host : g # h => peers'[g] = peers[g]
    BY <2>1, EmptyDomain DEF Crash, DiscInv, TopoInv, TopoTypeOK
  <2>5. QED
    BY <2>1, <2>2, <2>3, <2>4 DEF TopoNext, DiscInv, TablesInv, DialedHaveLinks
<1>7. ASSUME NEW h \in Host, ComeBack(h) PROVE [TopoNext]_topoVars /\ TablesInv'
  <2>1. Restart(h) /\ UNCHANGED <<dialed, late, peers>>
    BY <1>7 DEF ComeBack, Restart
  <2>2. DOMAIN home \subseteq DOMAIN home'
    BY <2>1 DEF Restart, Set
  <2>3. QED
    BY <2>1, <2>2 DEF TopoNext, DiscInv, TablesInv, DialedHaveLinks
<1>8. QED
  BY <1>1, <1>2, <1>3, <1>4, <1>5, <1>6, <1>7 DEF Next

LEMMA DiscInductive == Spec => []DiscInv
<1>1. Init => DiscInv
  <2> SUFFICES ASSUME Init PROVE TablesInv
    BY TopoInitially DEF Init, DiscInv
  <2> QED
    BY EmptyDomain DEF Init, TopoInit, TablesInv, DialedHaveLinks
<1>2. DiscInv /\ [Next]_vars => DiscInv'
  BY DiscStep, TopoStep DEF DiscInv
<1>3. QED
  BY <1>1, <1>2, PTL DEF Spec

(* m_dialed names exactly the links there are, in every reachable state.   *)
THEOREM DialedAreLinks == Spec => []DialedHaveLinks
<1>1. DiscInv => DialedHaveLinks
  BY DEF DiscInv, TablesInv
<1>2. QED
  BY <1>1, DiscInductive, PTL

(* decodeBeacon reads from encodeBeacon's bytes what their sender meant,   *)
(* or rejects them, whatever the cluster's name.                           *)
THEOREM BeaconsRoundTrip == Spec => []BeaconRoundTrip
<1>1. DiscInv => BeaconRoundTrip
  BY BeaconFaithful DEF DiscInv, TopoInv, TopoTypeOK, BeaconRoundTrip
<1>2. QED
  BY <1>1, DiscInductive, PTL

(* What a step of Topology's does to the links of h. *)
LEMMA LinksOfHost ==
  ASSUME NEW l \in Links \ Links'
  PROVE  l[1] \in Host /\ l[2] \in Uuid /\ l[2] \in DOMAIN peers[l[1]] /\ l[2] \notin DOMAIN peers'[l[1]]
BY DEF Links

(* expireStale drops a link, while its broker runs, only when no beacon    *)
(* came for more than the timeout.                                         *)
THEOREM OnlySilentAreDropped == Spec => OnlySilentDropped
<1> DEFINE A == \A l \in Links \ Links' : l[1] \in up' => dialed[l[1]][l[2]] > PeerTimeout
<1>1. ASSUME DiscInv, [Next]_vars PROVE [A]_vars
  <2> SUFFICES ASSUME Next, NEW l \in Links \ Links', l[1] \in up' PROVE dialed[l[1]][l[2]] > PeerTimeout
    BY <1>1
  <2> DEFINE k == l[1]
             v == l[2]
  <2>1. k \in Host /\ v \in Uuid /\ v \in DOMAIN peers[k] /\ v \notin DOMAIN peers'[k]
    BY LinksOfHost
  <2> HIDE DEF k, v
  <2>2. DOMAIN peers = Host
    BY <1>1 DEF DiscInv, TopoInv, TopoTypeOK
  <2>3. ASSUME NEW h \in Host, NEW from, NEW u, onDatagram(h, from, u) PROVE FALSE
    BY <2>1, <2>2, <2>3 DEF onDatagram, Set
  <2>4. ASSUME NEW h \in Host, expireStale(h) PROVE k = h /\ v \in Stale(h)
    BY <2>1, <2>2, <2>4 DEF expireStale, Without
  <2>5. ASSUME NEW h \in Host, Die(h) PROVE k = h /\ k \notin up'
    BY <2>1, <2>2, <2>5 DEF Die, Crash
  <2>6. k \in up' /\ ~UNCHANGED peers
    BY <2>1 DEF k
  <2>7. \E h \in Host : expireStale(h)
    <3>1. PICK h \in Host : \/ \E g \in Host : Hear(h, g)
                            \/ \E u \in Uuid : HearLate(h, u) \/ Miss(h, u)
                            \/ expireStale(h) \/ Die(h) \/ ComeBack(h)
      BY DEF Next
    <3>2. ~(\E g \in Host : Hear(h, g)) /\ ~(\E u \in Uuid : HearLate(h, u))
      BY <2>3 DEF Hear, HearLate
    <3>3. ~(\E u \in Uuid : Miss(h, u)) /\ ~ComeBack(h)
      BY <2>6 DEF Miss, ComeBack, Restart, topoVars
    <3>4. QED
      BY <2>5, <2>6, <3>1, <3>2, <3>3
  <2>8. QED
    BY <2>4, <2>7 DEF Stale, k, v
<1>2. QED
  BY <1>1, DiscInductive, PTL DEF Spec, OnlySilentDropped

(* Every behaviour of Discovery is one of Topology: a step dials the       *)
(* sender of a beacon, drops the silent, or leaves the links alone.        *)
THEOREM DiscoveryImplementsTopology == Spec => ImplementsTopology
<1>1. Init => DiscInv /\ TopoInit
  <2> SUFFICES ASSUME Init PROVE TablesInv
    BY TopoInitially DEF Init, DiscInv
  <2> QED
    BY EmptyDomain DEF Init, TopoInit, TablesInv, DialedHaveLinks
<1>2. DiscInv /\ [Next]_vars => DiscInv' /\ [TopoNext]_topoVars
  BY DiscStep, TopoStep DEF DiscInv
<1>3. QED
  BY <1>1, <1>2, PTL DEF Spec, ImplementsTopology, TopoSpec

(* So discovery, whatever is lost, late or restarted, never links two      *)
(* brokers both ways and never leaves its cluster.                         *)
THEOREM DiscoverySafe == Spec => [](OneSideDials /\ ClustersApart)
<1>1. Spec => TopoSpec
  BY DiscoveryImplementsTopology DEF ImplementsTopology
<1>2. QED
  BY <1>1, TopologySafe, PTL

=============================================================================
