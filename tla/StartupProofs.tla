----------------------------- MODULE StartupProofs -----------------------------
(***************************************************************************)
(* For any deployments, whatever their configurations and the order of the   *)
(* threads: every variable of Startup keeps its type, a queue pair belongs   *)
(* to one dispatcher, and the queues of a worker are used by one dispatcher, *)
(* on a whole configuration by exactly the one it takes its buffers from.    *)
(*                                                                          *)
(* The argument: the configuration is read line by line, so what it says of  *)
(* a worker is what the last of its lines says (induction over the lines).   *)
(* The barrier of a node has counted every thread that has come once, twice  *)
(* or three times (BarrierOf).  A thread that is let through the second time *)
(* saw a generation that took all threads to come twice, counting those in   *)
(* the loop for those that left the constructor early; so whoever runs finds *)
(* all others configured.                                                    *)
(***************************************************************************)
EXTENDS Startup, FiniteSetTheorems, WellFoundedInduction, TLAPS

-----------------------------------------------------------------------------
(* Induction over the numbers, for sets instead of predicates *)

\* A set of numbers that is not empty has a smallest.
LEMMA NatMin ==
  ASSUME NEW T \in SUBSET Nat, T # {}
  PROVE \E x \in T : \A y \in T : x <= y
<1> DEFINE R == OpToRel(<, Nat)
<1>1. IsWellFoundedOn(R, Nat)
  BY NatLessThanWellFounded
<1>2. \A x, y \in Nat : x < y => <<x, y>> \in R
  BY DEF OpToRel
<1> HIDE DEF R
<1>3. PICK x \in T : \A y \in T : ~(<<y, x>> \in R)
  BY <1>1, WFMin
<1>4. ASSUME NEW y \in T PROVE x <= y
  <2>1. x \in Nat /\ y \in Nat /\ ~(<<y, x>> \in R)
    BY <1>3
  <2>2. ~(y < x)
    BY <1>2, <2>1
  <2> QED
    BY <2>1, <2>2
<1> QED
  BY <1>4

\* A set with 0 and the successor of each of its numbers has all.
LEMMA NatInd ==
  ASSUME NEW T \in SUBSET Nat, 0 \in T, \A n \in T : n + 1 \in T
  PROVE T = Nat
<1> DEFINE U == Nat \ T
<1>1. SUFFICES ASSUME U # {} PROVE FALSE
  OBVIOUS
<1>2. U \in SUBSET Nat
  OBVIOUS
<1> HIDE DEF U
<1>3. PICK x \in U : \A y \in U : x <= y
  BY <1>1, <1>2, NatMin
<1>4. x \in Nat /\ x # 0 /\ x \notin T
  BY <1>2, <1>3 DEF U
<1>5. x - 1 \in Nat /\ x - 1 \notin U
  BY <1>2, <1>3, <1>4
<1> QED
  BY <1>4, <1>5 DEF U

-----------------------------------------------------------------------------
(* What a configuration makes of a node *)

\* f is what load has after each line up to n.
LoadedUpTo(lines, n, f) ==
  f = [i \in 0..n |-> IF i = 0 THEN EmptyMaps ELSE config_workload(f[i - 1], lines[i])]

\* There is such a function.
LEMMA LoadedExists == ASSUME NEW lines PROVE \A n \in Nat : \E f : LoadedUpTo(lines, n, f)
<1> DEFINE T == {n \in Nat : \E f : LoadedUpTo(lines, n, f)}
<1>1. 0 \in T
  <2> DEFINE f == [i \in 0..0 |-> EmptyMaps]
  <2>1. LoadedUpTo(lines, 0, f)
    BY DEF LoadedUpTo
  <2> QED
    BY <2>1
<1>2. ASSUME NEW n \in T PROVE n + 1 \in T
  <2>1. PICK f : LoadedUpTo(lines, n, f)
    OBVIOUS
  <2> DEFINE e(i) == IF i <= n THEN f[i] ELSE config_workload(f[n], lines[n + 1])
             g == [i \in 0..(n + 1) |-> e(i)]
             h == [i \in 0..(n + 1) |->
                     IF i = 0 THEN EmptyMaps ELSE config_workload(g[i - 1], lines[i])]
  <2>2. ASSUME NEW i \in 0..(n + 1) PROVE g[i] = h[i]
    <3>1. CASE i = 0
      BY <3>1, <2>1 DEF LoadedUpTo
    <3>2. CASE i # 0 /\ i <= n
      <4>1. i \in 0..n /\ i - 1 \in 0..(n + 1) /\ i - 1 <= n
        BY <3>2
      <4>2. g[i] = f[i] /\ g[i - 1] = f[i - 1]
        BY <4>1, <3>2
      <4>3. f[i] = config_workload(f[i - 1], lines[i])
        BY <4>1, <3>2, <2>1 DEF LoadedUpTo
      <4>4. h[i] = config_workload(g[i - 1], lines[i])
        BY <3>2
      <4> QED
        BY <4>2, <4>3, <4>4
    <3>3. CASE i = n + 1
      <4>1. i - 1 \in 0..(n + 1) /\ i - 1 = n /\ ~(i <= n) /\ i # 0
        BY <3>3
      <4>2. g[i - 1] = f[n] /\ g[i] = config_workload(f[n], lines[i])
        BY <4>1, <3>3
      <4>3. h[i] = config_workload(g[i - 1], lines[i])
        BY <4>1
      <4> QED
        BY <4>2, <4>3
    <3> QED
      BY <3>1, <3>2, <3>3
  <2>3. DOMAIN g = 0..(n + 1) /\ DOMAIN h = 0..(n + 1)
    OBVIOUS
  <2>4. g = h
    BY <2>2, <2>3
  <2>5. LoadedUpTo(lines, n + 1, g)
    BY <2>4 DEF LoadedUpTo
  <2> QED
    BY <2>5
<1>3. T \in SUBSET Nat
  OBVIOUS
<1> HIDE DEF T
<1>4. T = Nat
  BY <1>1, <1>2, <1>3, NatInd
<1> QED
  BY <1>4 DEF T

\* load goes line by line.
LEMMA LoadByLine ==
  ASSUME NEW lines \in Seq(Line)
  PROVE  \E f : /\ f[0] = EmptyMaps
                /\ \A i \in 1..Len(lines) : f[i] = config_workload(f[i - 1], lines[i])
                /\ load(lines) = f[Len(lines)]
<1> DEFINE f == CHOOSE f : f = [i \in 0..Len(lines) |->
                     IF i = 0 THEN EmptyMaps ELSE config_workload(f[i - 1], lines[i])]
<1>1. Len(lines) \in Nat
  OBVIOUS
<1>2. load(lines) = f[Len(lines)]
  BY DEF load
<1>3. \E g : LoadedUpTo(lines, Len(lines), g)
  BY <1>1, LoadedExists
<1>4. f = CHOOSE g : LoadedUpTo(lines, Len(lines), g)
  BY DEF LoadedUpTo
<1> HIDE DEF f
<1>5. LoadedUpTo(lines, Len(lines), f)
  BY <1>3, <1>4
<1>6. f[0] = EmptyMaps /\ \A i \in 1..Len(lines) : f[i] = config_workload(f[i - 1], lines[i])
  BY <1>1, <1>5 DEF LoadedUpTo
<1> QED
  BY <1>2, <1>6

\* The ids in the groups of two lists.
LEMMA InGroupsConcat ==
  ASSUME NEW s \in Seq(Seq(WsIds)), NEW t \in Seq(Seq(WsIds))
  PROVE  /\ InGroups(s \o t) = InGroups(s) \union InGroups(t)
         /\ InGroups(s) \subseteq WsIds
<1> DEFINE all == InGroups(s \o t)
           parts == InGroups(s) \union InGroups(t)
<1>1. Len(s) \in Nat /\ Len(t) \in Nat /\ Len(s \o t) = Len(s) + Len(t)
      /\ DOMAIN s = 1..Len(s) /\ DOMAIN t = 1..Len(t) /\ DOMAIN (s \o t) = 1..(Len(s) + Len(t))
  OBVIOUS
<1>2. ASSUME NEW x \in all PROVE x \in parts
  <2>1. PICK g \in DOMAIN (s \o t) : x \in Range((s \o t)[g])
    BY <1>2 DEF InGroups
  <2>2. CASE g <= Len(s)
    <3>1. g \in DOMAIN s /\ (s \o t)[g] = s[g]
      BY <2>1, <2>2, <1>1
    <3> QED
      BY <2>1, <3>1 DEF InGroups
  <2>3. CASE ~(g <= Len(s))
    <3>1. g - Len(s) \in DOMAIN t /\ (s \o t)[g] = t[g - Len(s)]
      BY <2>1, <2>3, <1>1
    <3> QED
      BY <2>1, <3>1 DEF InGroups
  <2> QED
    BY <2>2, <2>3
<1>3. ASSUME NEW x \in parts PROVE x \in all
  <2>1. CASE x \in InGroups(s)
    <3>1. PICK g \in DOMAIN s : x \in Range(s[g])
      BY <2>1 DEF InGroups
    <3>2. g \in DOMAIN (s \o t) /\ (s \o t)[g] = s[g]
      BY <3>1, <1>1
    <3> QED
      BY <3>1, <3>2 DEF InGroups
  <2>2. CASE x \in InGroups(t)
    <3>1. PICK g \in DOMAIN t : x \in Range(t[g])
      BY <2>2 DEF InGroups
    <3>2. g + Len(s) \in DOMAIN (s \o t) /\ (s \o t)[g + Len(s)] = t[g]
      BY <3>1, <1>1
    <3> QED
      BY <3>1, <3>2 DEF InGroups
  <2> QED
    BY <1>3, <2>1, <2>2
<1>4. InGroups(s) \subseteq WsIds
  <2> SUFFICES ASSUME NEW x \in InGroups(s) PROVE x \in WsIds
    OBVIOUS
  <2>1. PICK g \in DOMAIN s : x \in Range(s[g])
    BY DEF InGroups
  <2>2. s[g] \in Seq(WsIds)
    BY <2>1, <1>1
  <2>3. PICK i \in DOMAIN s[g] : x = s[g][i]
    BY <2>1 DEF Range
  <2> QED
    BY <2>2, <2>3
<1> QED
  BY <1>2, <1>3, <1>4

\* The maps hold sequences, and a workspace in a group has a workload.
MapsOK(m) ==
  /\ m.phases \in [Types -> Seq(Phases)]
  /\ m.remotes \in [Types -> Seq(WsIds)]
  /\ m.groups \in [Types -> Seq(Seq(WsIds))]
  /\ m.dispatchers \in [Types -> Seq(WsIds)]
  /\ DOMAIN m.workload = WsIds /\ DOMAIN m.group = WsIds
  /\ \A t \in Types : \A w \in InGroups(m.groups[t]) : m.workload[w] \in Types

\* c is m with what the line adds.
Added(m, line, c) ==
  LET t == line.type
  IN  /\ c.phases = [m.phases EXCEPT ![t] = m.phases[t] \o line.phases]
      /\ c.remotes = [m.remotes EXCEPT ![t] = m.remotes[t] \o line.remotes]
      /\ c.groups = [m.groups EXCEPT ![t] = m.groups[t] \o line.groups]
      /\ c.dispatchers = [m.dispatchers EXCEPT ![t] = m.dispatchers[t] \o line.dispatchers]
      /\ DOMAIN c.workload = WsIds /\ DOMAIN c.group = WsIds
      /\ \A w \in WsIds :
           IF w \in InGroups(line.groups)
             THEN c.workload[w] = t /\ c.group[w] \in DOMAIN line.groups
             ELSE c.workload[w] = m.workload[w] /\ c.group[w] = m.group[w]

\* What a line does to each of the maps.
LEMMA ConfigParts ==
  ASSUME NEW m, MapsOK(m), NEW line \in Line
  PROVE  Added(m, line, config_workload(m, line))
<1> DEFINE In(w) == {g \in DOMAIN line.groups : w \in Range(line.groups[g])}
           c == config_workload(m, line)
           t == line.type
<1>1. /\ c.phases = [m.phases EXCEPT ![t] = m.phases[t] \o line.phases]
      /\ c.remotes = [m.remotes EXCEPT ![t] = m.remotes[t] \o line.remotes]
      /\ c.groups = [m.groups EXCEPT ![t] = m.groups[t] \o line.groups]
      /\ c.dispatchers = [m.dispatchers EXCEPT ![t] = m.dispatchers[t] \o line.dispatchers]
  BY DEF config_workload
<1>2. /\ c.workload = [w \in WsIds |-> IF In(w) # {} THEN t ELSE m.workload[w]]
      /\ c.group = [w \in WsIds |-> IF In(w) # {} THEN CHOOSE g \in In(w) : TRUE
                                                  ELSE m.group[w]]
  BY DEF config_workload
<1>3. ASSUME NEW w \in WsIds PROVE w \in InGroups(line.groups) <=> In(w) # {}
  BY DEF InGroups
<1>4. ASSUME NEW w \in WsIds, In(w) # {} PROVE (CHOOSE g \in In(w) : TRUE) \in DOMAIN line.groups
  <2>1. (CHOOSE g \in In(w) : TRUE) \in In(w)
    BY <1>4
  <2> QED
    BY <2>1
<1>5. ASSUME NEW w \in WsIds
      PROVE  IF w \in InGroups(line.groups)
               THEN c.workload[w] = t /\ c.group[w] \in DOMAIN line.groups
               ELSE c.workload[w] = m.workload[w] /\ c.group[w] = m.group[w]
  <2> HIDE DEF c, t, In
  <2> QED
    BY <1>2, <1>3, <1>4
<1> QED
  BY <1>1, <1>2, <1>5 DEF Added

\* A line keeps the maps well-formed.
LEMMA ConfigKeepsMaps ==
  ASSUME NEW m, MapsOK(m), NEW line \in Line
  PROVE  MapsOK(config_workload(m, line))
<1> DEFINE c == config_workload(m, line)
           t == line.type
<1>1. /\ t \in Types /\ line.phases \in Seq(Phases) /\ line.remotes \in Seq(WsIds)
      /\ line.groups \in Seq(Seq(WsIds)) /\ line.dispatchers \in Seq(WsIds)
  BY DEF Line
<1>0. Added(m, line, c)
  BY ConfigParts
<1>2. /\ c.phases = [m.phases EXCEPT ![t] = m.phases[t] \o line.phases]
      /\ c.remotes = [m.remotes EXCEPT ![t] = m.remotes[t] \o line.remotes]
      /\ c.groups = [m.groups EXCEPT ![t] = m.groups[t] \o line.groups]
      /\ c.dispatchers = [m.dispatchers EXCEPT ![t] = m.dispatchers[t] \o line.dispatchers]
      /\ DOMAIN c.workload = WsIds /\ DOMAIN c.group = WsIds
      /\ \A w \in WsIds :
           IF w \in InGroups(line.groups)
             THEN c.workload[w] = t /\ c.group[w] \in DOMAIN line.groups
             ELSE c.workload[w] = m.workload[w] /\ c.group[w] = m.group[w]
  BY <1>0 DEF Added
<1> HIDE DEF c, t
<1>3. c.phases \in [Types -> Seq(Phases)] /\ c.remotes \in [Types -> Seq(WsIds)]
  BY <1>1, <1>2 DEF MapsOK
<1>4. c.groups \in [Types -> Seq(Seq(WsIds))] /\ c.dispatchers \in [Types -> Seq(WsIds)]
  BY <1>1, <1>2 DEF MapsOK
<1>5. ASSUME NEW u \in Types, NEW w \in InGroups(c.groups[u]) PROVE c.workload[w] \in Types
  <2>1. m.groups[u] \in Seq(Seq(WsIds)) /\ c.groups[u] \in Seq(Seq(WsIds))
    BY <1>4 DEF MapsOK
  <2>2. w \in WsIds
    BY <2>1, InGroupsConcat
  <2>3. CASE w \in InGroups(line.groups)
    BY <2>2, <2>3, <1>1, <1>2
  <2>4. CASE w \notin InGroups(line.groups)
    <3>1. w \in InGroups(m.groups[u])
      <4>1. CASE u = t
        <5>1. c.groups[u] = m.groups[u] \o line.groups
          BY <4>1, <1>2 DEF MapsOK
        <5>2. InGroups(c.groups[u]) = InGroups(m.groups[u]) \union InGroups(line.groups)
          BY <5>1, <2>1, <1>1, InGroupsConcat
        <5> QED
          BY <5>2, <2>4
      <4>2. CASE u # t
        BY <4>2, <1>2 DEF MapsOK
      <4> QED
        BY <4>1, <4>2
    <3> QED
      BY <3>1, <2>2, <2>4, <1>2 DEF MapsOK
  <2> QED
    BY <2>3, <2>4
<1>6. MapsOK(c)
  BY <1>2, <1>3, <1>4, <1>5 DEF MapsOK
<1> QED
  BY <1>6 DEF c

\* Without a line.
LEMMA EmptyMapsOK == MapsOK(EmptyMaps) /\ InGroups(<<>>) = {}
<1>1. InGroups(<<>>) = {}
  BY DEF InGroups
<1> QED
  BY <1>1 DEF MapsOK, EmptyMaps

\* What holds of the empty maps and is kept by every line holds of the loaded maps.
LEMMA LoadOK == ASSUME NEW lines \in Seq(Line) PROVE MapsOK(load(lines))
<1>1. PICK f : /\ f[0] = EmptyMaps
               /\ \A i \in 1..Len(lines) : f[i] = config_workload(f[i - 1], lines[i])
               /\ load(lines) = f[Len(lines)]
  BY LoadByLine
<1> DEFINE T == {i \in Nat : i <= Len(lines) => MapsOK(f[i])}
<1>2. 0 \in T
  BY <1>1, EmptyMapsOK
<1>3. ASSUME NEW i \in T PROVE i + 1 \in T
  <2> SUFFICES ASSUME i + 1 <= Len(lines) PROVE MapsOK(f[i + 1])
    OBVIOUS
  <2>1. i + 1 \in 1..Len(lines) /\ i + 1 - 1 = i /\ i <= Len(lines) /\ Len(lines) \in Nat
    OBVIOUS
  <2>2. MapsOK(f[i]) /\ lines[i + 1] \in Line
    BY <2>1
  <2>3. f[i + 1] = config_workload(f[i], lines[i + 1])
    BY <1>1, <2>1
  <2> QED
    BY <2>2, <2>3, ConfigKeepsMaps
<1>4. T \in SUBSET Nat
  OBVIOUS
<1> HIDE DEF T
<1>5. T = Nat
  BY <1>2, <1>3, <1>4, NatInd
<1>6. Len(lines) \in T
  BY <1>5
<1> QED
  BY <1>1, <1>6 DEF T

\* With one line per workload the maps are those lines.
LinesIn(lines, n, m) ==
  /\ \A t \in Types : (\A j \in 1..n : lines[j].type # t) =>
       m.phases[t] = <<>> /\ m.groups[t] = <<>> /\ m.dispatchers[t] = <<>>
  /\ \A j \in 1..n :
       /\ m.phases[lines[j].type] = lines[j].phases
       /\ m.groups[lines[j].type] = lines[j].groups
       /\ m.dispatchers[lines[j].type] = lines[j].dispatchers
  /\ \A w \in WsIds : (\E j \in 1..n : w \in InGroups(lines[j].groups)) =>
       \E k \in 1..n : m.workload[w] = lines[k].type /\ m.group[w] \in DOMAIN lines[k].groups

\* One more line of a whole configuration.
LEMMA ConfigAddsLine ==
  ASSUME NEW lines \in Seq(Line), NEW n \in Nat, n + 1 <= Len(lines),
         \A i, j \in DOMAIN lines : lines[i].type = lines[j].type => i = j,
         NEW m, MapsOK(m), LinesIn(lines, n, m)
  PROVE  LinesIn(lines, n + 1, config_workload(m, lines[n + 1]))
<1> DEFINE line == lines[n + 1]
           c == config_workload(m, line)
           t == line.type
<1>1. line \in Line /\ n + 1 \in 1..(n + 1) /\ \A j \in 1..(n + 1) : j \in DOMAIN lines
  OBVIOUS
<1>2. /\ t \in Types /\ line.phases \in Seq(Phases)
      /\ line.groups \in Seq(Seq(WsIds)) /\ line.dispatchers \in Seq(WsIds)
  BY <1>1 DEF Line
<1> HIDE DEF line
<1>3. /\ c.phases = [m.phases EXCEPT ![t] = m.phases[t] \o line.phases]
      /\ c.groups = [m.groups EXCEPT ![t] = m.groups[t] \o line.groups]
      /\ c.dispatchers = [m.dispatchers EXCEPT ![t] = m.dispatchers[t] \o line.dispatchers]
      /\ \A w \in WsIds :
           IF w \in InGroups(line.groups)
             THEN c.workload[w] = t /\ c.group[w] \in DOMAIN line.groups
             ELSE c.workload[w] = m.workload[w] /\ c.group[w] = m.group[w]
  <2>1. Added(m, line, c)
    BY <1>1, ConfigParts
  <2> QED
    BY <2>1 DEF Added
<1>4. \A j \in 1..n : lines[j].type # t /\ lines[j].type \in Types
  <2> SUFFICES ASSUME NEW j \in 1..n PROVE lines[j].type # t /\ lines[j].type \in Types
    OBVIOUS
  <2>1. j \in DOMAIN lines /\ n + 1 \in DOMAIN lines /\ j # n + 1 /\ lines[j] \in Line
    BY <1>1
  <2> QED
    BY <2>1 DEF Line, line
<1>5. m.phases[t] = <<>> /\ m.groups[t] = <<>> /\ m.dispatchers[t] = <<>>
  BY <1>2, <1>4 DEF LinesIn
<1>6. DOMAIN m.phases = Types /\ DOMAIN m.groups = Types /\ DOMAIN m.dispatchers = Types
  BY DEF MapsOK
<1> HIDE DEF c, t
<1>7. c.phases[t] = line.phases /\ c.groups[t] = line.groups /\ c.dispatchers[t] = line.dispatchers
  <2>1. <<>> \o line.phases = line.phases /\ <<>> \o line.groups = line.groups
        /\ <<>> \o line.dispatchers = line.dispatchers
    BY <1>2
  <2> QED
    BY <1>2, <1>3, <1>5, <1>6, <2>1
<1>8. \A u \in Types : u # t =>
        c.phases[u] = m.phases[u] /\ c.groups[u] = m.groups[u] /\ c.dispatchers[u] = m.dispatchers[u]
  BY <1>3, <1>6
<1>9. ASSUME NEW u \in Types, \A j \in 1..(n + 1) : lines[j].type # u
      PROVE  c.phases[u] = <<>> /\ c.groups[u] = <<>> /\ c.dispatchers[u] = <<>>
  <2>1. u # t /\ \A j \in 1..n : lines[j].type # u
    BY <1>9, <1>1 DEF t, line
  <2> QED
    BY <2>1, <1>8 DEF LinesIn
<1>10. ASSUME NEW j \in 1..(n + 1)
       PROVE  /\ c.phases[lines[j].type] = lines[j].phases
              /\ c.groups[lines[j].type] = lines[j].groups
              /\ c.dispatchers[lines[j].type] = lines[j].dispatchers
  <2>1. CASE j = n + 1
    BY <2>1, <1>7 DEF t, line
  <2>2. CASE j \in 1..n
    BY <2>2, <1>4, <1>8 DEF LinesIn
  <2> QED
    BY <2>1, <2>2
<1>11. ASSUME NEW w \in WsIds, NEW j \in 1..(n + 1), w \in InGroups(lines[j].groups)
       PROVE  \E k \in 1..(n + 1) :
                c.workload[w] = lines[k].type /\ c.group[w] \in DOMAIN lines[k].groups
  <2>1. CASE w \in InGroups(line.groups)
    BY <2>1, <1>1, <1>3 DEF t, line
  <2>2. CASE w \notin InGroups(line.groups)
    <3>1. j \in 1..n
      BY <2>2, <1>11 DEF line
    <3>2. PICK k \in 1..n : m.workload[w] = lines[k].type /\ m.group[w] \in DOMAIN lines[k].groups
      BY <3>1, <1>11 DEF LinesIn
    <3>3. k \in 1..(n + 1)
      OBVIOUS
    <3> QED
      BY <2>2, <3>2, <3>3, <1>3
  <2> QED
    BY <2>1, <2>2
<1>12. LinesIn(lines, n + 1, c)
  BY <1>9, <1>10, <1>11 DEF LinesIn
<1> QED
  BY <1>12 DEF c, line

\* What a whole configuration leaves of each of its lines.
LEMMA LoadIsLines ==
  ASSUME NEW lines \in Seq(Line),
         \A i, j \in DOMAIN lines : lines[i].type = lines[j].type => i = j
  PROVE  LinesIn(lines, Len(lines), load(lines))
<1>1. PICK f : /\ f[0] = EmptyMaps
               /\ \A i \in 1..Len(lines) : f[i] = config_workload(f[i - 1], lines[i])
               /\ load(lines) = f[Len(lines)]
  BY LoadByLine
<1> DEFINE T == {i \in Nat : i <= Len(lines) => MapsOK(f[i]) /\ LinesIn(lines, i, f[i])}
<1>2. 0 \in T
  <2>1. LinesIn(lines, 0, EmptyMaps)
    BY DEF LinesIn, EmptyMaps
  <2> QED
    BY <1>1, <2>1, EmptyMapsOK
<1>3. ASSUME NEW i \in T PROVE i + 1 \in T
  <2> SUFFICES ASSUME i + 1 <= Len(lines)
               PROVE  MapsOK(f[i + 1]) /\ LinesIn(lines, i + 1, f[i + 1])
    OBVIOUS
  <2>1. i \in Nat /\ i + 1 \in 1..Len(lines) /\ i + 1 - 1 = i /\ i <= Len(lines) /\ Len(lines) \in Nat
    OBVIOUS
  <2>2. MapsOK(f[i]) /\ LinesIn(lines, i, f[i]) /\ lines[i + 1] \in Line
    BY <2>1
  <2>3. f[i + 1] = config_workload(f[i], lines[i + 1])
    BY <1>1, <2>1
  <2>4. MapsOK(f[i + 1])
    BY <2>2, <2>3, ConfigKeepsMaps
  <2>5. LinesIn(lines, i + 1, f[i + 1])
    BY <2>1, <2>2, <2>3, ConfigAddsLine
  <2> QED
    BY <2>4, <2>5
<1>4. T \in SUBSET Nat
  OBVIOUS
<1> HIDE DEF T
<1>5. T = Nat
  BY <1>2, <1>3, <1>4, NatInd
<1>6. Len(lines) \in T
  BY <1>5
<1> QED
  BY <1>1, <1>6 DEF T

\* Threads, workers and dispatchers of a node, and what a worker's configuration
\* says of it.
PlanOK(p) ==
  /\ p.threads \subseteq Threads /\ IsFiniteSet(p.threads)
  /\ p.workers \subseteq p.threads /\ p.dispatchers \subseteq p.threads
  /\ DOMAIN p.home = WsIds
  /\ \A t \in Types : p.remotes[t] \subseteq WsIds
  /\ \A w \in p.workers : p.workload[w] \in Types

\* Whatever the configuration.
LEMMA PlansOK == ASSUME NEW lines \in Seq(Line) PROVE PlanOK(Plan(lines))
<1> DEFINE m == load(lines)
           p == Plan(lines)
<1>1. MapsOK(m)
  BY LoadOK
<1>2. /\ p.threads = Launched(m) /\ DOMAIN p.home = WsIds
      /\ p.workers = {w \in Launched(m) : IsWorker(m, w)}
      /\ p.dispatchers = {w \in Launched(m) : IsDispatcher(m, w)}
      /\ p.remotes = [t \in Types |-> Range(m.remotes[t])]
      /\ p.workload = m.workload
  BY DEF Plan
<1> HIDE DEF m, p
<1>3. Launched(m) \subseteq Threads /\ Threads \subseteq WsIds
  BY DeploymentAssumption DEF Launched, Threads, WsIds
<1>4. IsFiniteSet(Threads)
  BY DeploymentAssumption, FS_Interval DEF Threads
<1>5. IsFiniteSet(p.threads)
  BY <1>2, <1>3, <1>4, FS_Subset
<1>6. \A t \in Types : p.remotes[t] \subseteq WsIds
  <2> SUFFICES ASSUME NEW t \in Types PROVE Range(m.remotes[t]) \subseteq WsIds
    BY <1>2
  <2>1. m.remotes[t] \in Seq(WsIds)
    BY <1>1 DEF MapsOK
  <2> QED
    BY <2>1 DEF Range
<1>7. ASSUME NEW w \in p.workers PROVE p.workload[w] \in Types
  <2>1. PICK phase \in AppPhases : phase \in PhasesOf(m, w)
    BY <1>2 DEF IsWorker
  <2>2. PICK t \in Types : w \in launch_wss(m, t, phase)
    BY <2>1 DEF PhasesOf
  <2>3. w \in InGroups(m.groups[t])
    BY <2>2 DEF launch_wss
  <2> QED
    BY <2>3, <1>1, <1>2 DEF MapsOK
<1>8. PlanOK(p)
  BY <1>2, <1>3, <1>5, <1>6, <1>7 DEF PlanOK
<1> QED
  BY <1>8 DEF p

\* In a whole configuration the dispatcher of every worker is one.
LEMMA WholeHomes ==
  ASSUME NEW lines \in Seq(Line), Plan(lines).whole, NEW w \in Plan(lines).workers
  PROVE  Plan(lines).home[w] \in Plan(lines).dispatchers
<1> DEFINE m == load(lines)
           p == Plan(lines)
           n == Len(lines)
<1>1. /\ p.whole = Whole(lines)
      /\ p.workers = {v \in Launched(m) : IsWorker(m, v)}
      /\ p.dispatchers = {v \in Launched(m) : IsDispatcher(m, v)}
      /\ p.home = [v \in WsIds |-> IF IsWorker(m, v) THEN DispatcherOf(m, v) ELSE None]
  BY DEF Plan
<1>2. Whole(lines)
  BY <1>1
<1>3. MapsOK(m)
  BY LoadOK
<1>4. LinesIn(lines, n, m)
  BY <1>2, LoadIsLines DEF Whole
<1>5. n \in Nat /\ DOMAIN lines = 1..n
  OBVIOUS
<1>6. w \in p.workers
  OBVIOUS
<1> HIDE DEF m, p, n
<1>7. w \in Launched(m) /\ IsWorker(m, w) /\ w \in WsIds
  BY <1>1, <1>6, DeploymentAssumption DEF Launched, Threads, WsIds
<1>8. p.home[w] = m.dispatchers[m.workload[w]][m.group[w]]
  BY <1>1, <1>7 DEF DispatcherOf
<1>9. PICK t \in Types : w \in InGroups(m.groups[t])
  <2>1. PICK phase \in AppPhases : phase \in PhasesOf(m, w)
    BY <1>7 DEF IsWorker
  <2>2. PICK t \in Types : w \in launch_wss(m, t, phase)
    BY <2>1 DEF PhasesOf
  <2> QED
    BY <2>2 DEF launch_wss
<1>10. PICK j \in 1..n : lines[j].type = t
  <2> SUFFICES ASSUME \A j \in 1..n : lines[j].type # t PROVE FALSE
    OBVIOUS
  <2>1. m.groups[t] = <<>>
    BY <1>4 DEF LinesIn
  <2> QED
    BY <2>1, <1>9, EmptyMapsOK
<1>11. w \in InGroups(lines[j].groups)
  BY <1>4, <1>9, <1>10 DEF LinesIn
<1>12. PICK k \in 1..n : m.workload[w] = lines[k].type /\ m.group[w] \in DOMAIN lines[k].groups
  BY <1>4, <1>7, <1>11 DEF LinesIn
<1> DEFINE d == lines[k].dispatchers[m.group[w]]
           u == lines[k].type
<1>13. /\ m.dispatchers[u] = lines[k].dispatchers /\ m.phases[u] = lines[k].phases
  BY <1>4, <1>12 DEF LinesIn
<1>14. lines[k] \in Line /\ k \in DOMAIN lines
  BY <1>5
<1>15. /\ u \in Types /\ lines[k].groups \in Seq(Seq(WsIds))
       /\ lines[k].dispatchers \in Seq(WsIds)
  BY <1>14 DEF Line
<1>16. /\ Len(lines[k].groups) = Len(lines[k].dispatchers)
       /\ "TxDispatcher" \in Range(lines[k].phases)
       /\ Range(lines[k].dispatchers) \subseteq Threads
  BY <1>2, <1>14 DEF Whole
<1>17. m.group[w] \in DOMAIN lines[k].dispatchers
  <2>1. DOMAIN lines[k].groups = DOMAIN lines[k].dispatchers
    BY <1>15, <1>16
  <2> QED
    BY <1>12, <2>1
<1>18. d \in Range(m.dispatchers[u]) /\ d \in Threads
  BY <1>13, <1>16, <1>17 DEF Range
<1>19. "TxDispatcher" \in PhasesOf(m, d)
  <2>1. "TxDispatcher" \in Range(m.phases[u])
    BY <1>13, <1>16
  <2>2. "TxDispatcher" \in DispatcherPhases /\ "TxDispatcher" \notin AppPhases
    BY DEF DispatcherPhases, AppPhases
  <2>3. d \in launch_wss(m, u, "TxDispatcher")
    BY <1>18, <2>2 DEF launch_wss
  <2> QED
    BY <1>15, <2>1, <2>3 DEF PhasesOf
<1>20. d \in Launched(m) /\ IsDispatcher(m, d)
  BY <1>18, <1>19 DEF Launched, IsDispatcher, DispatcherPhases
<1>21. p.home[w] = d
  BY <1>8, <1>12, <1>13
<1>22. p.home[w] \in p.dispatchers
  BY <1>1, <1>20, <1>21
<1> QED
  BY <1>22 DEF p

-----------------------------------------------------------------------------
(* The steps of a thread *)

\* Before a workspace registers, and after it has configured itself.
Early == {"construct", "listening", "accepted", "socket", "connected", "sent", "reading",
          "disconnected", "flow", "built"}
Late == {"ready", "init", "start", "running"}
Stages == Early \union {"registered", "configure"} \union Late

\* The plans are those of the deployment, once and for all.
Fixed == deploy \in Deployments /\ plan = [n \in Node |-> Plan(deploy.lines[n])]

\* So the plans of the two nodes are in order.
LEMMA FixedPlans == Fixed => \A n \in Node : PlanOK(plan[n])
<1> SUFFICES ASSUME Fixed, NEW n \in Node PROVE PlanOK(plan[n])
  OBVIOUS
<1>1. deploy.lines[n] \in Seq(Line)
  BY StartupAssumption DEF Fixed
<1> QED
  BY <1>1, PlansOK DEF Fixed

\* A step that leaves the barrier and the context alone, and moves a thread, if
\* any, among the places before it registers.
EarlyStep ==
  /\ UNCHANGED <<fixed, arrived, gen, contextVars>>
  /\ \/ pc' = pc
     \/ \E n \in Node, w \in WsIds, there \in Early \ {"construct"} :
          pc[n][w] \in Early /\ pc' = [pc EXCEPT ![n][w] = there]

\* The steps that come to the barrier, pass it or configure a workspace.
BarrierStep(n, w) ==
  \/ Register(n, w) \/ PassRegistered(n, w) \/ Configure(n, w) \/ PassReady(n, w)
  \/ EnterLoop(n, w) \/ PassStart(n, w)

\* A process dies: nothing of it moves any more.
LEMMA DieIsEarly == ASSUME NEW n \in Node, Die(n) PROVE EarlyStep
BY DEF Die, EarlyStep, threadVars

\* A step to one of the early places.
LEMMA StepIsEarly ==
  ASSUME NEW n \in Node, NEW w \in WsIds, NEW here \in Early, NEW there \in Early \ {"construct"},
         Step(n, w, here, there), UNCHANGED <<fixed, arrived, gen, contextVars>>
  PROVE  EarlyStep
BY DEF Step, At, Go, EarlyStep

\* Connecting to the peer is all before the barrier.
LEMMA ConnectingIsEarly == ASSUME NEW d \in WsIds, Connecting(d) PROVE EarlyStep
<1> DEFINE same == UNCHANGED <<fixed, arrived, gen, contextVars>>
<1>1. "server" \in Node /\ "client" \in Node
  BY DEF Node
<1>2. CASE ClientVanished(d) \/ ConnectFails(d) \/ SendKills(d) \/ ReadFails(d)
  <2>1. Die("server") \/ Die("client")
    BY <1>2 DEF ClientVanished, ConnectFails, SendKills, ReadFails
  <2> QED
    BY <2>1, <1>1, DieIsEarly
<1>3. CASE Listen(d)
  <2>1. Step("server", d, "construct", "listening") /\ same
    BY <1>3 DEF Listen
  <2> QED
    BY <2>1, <1>1, StepIsEarly DEF Early
<1>4. CASE Accept(d)
  <2>1. Step("server", d, "listening", "accepted") /\ same
    BY <1>4 DEF Accept
  <2> QED
    BY <2>1, <1>1, StepIsEarly DEF Early
<1>5. CASE ReceiveFromClient(d)
  <2>1. Step("server", d, "accepted", "built") /\ same
    BY <1>5 DEF ReceiveFromClient
  <2> QED
    BY <2>1, <1>1, StepIsEarly DEF Early
<1>6. CASE CreateSocket(d)
  <2>1. Step("client", d, "construct", "socket") /\ same
    BY <1>6 DEF CreateSocket
  <2> QED
    BY <2>1, <1>1, StepIsEarly DEF Early
<1>7. CASE connectToServer(d)
  <2>1. Step("client", d, "socket", "connected") /\ same
    BY <1>7 DEF connectToServer
  <2> QED
    BY <2>1, <1>1, StepIsEarly DEF Early
<1>8. CASE SendToServer(d)
  <2>1. Step("client", d, "connected", "sent") /\ same
    BY <1>8 DEF SendToServer
  <2> QED
    BY <2>1, <1>1, StepIsEarly DEF Early
<1>9. CASE BeginRead(d)
  <2>1. Step("client", d, "sent", "reading") /\ same
    BY <1>9 DEF BeginRead
  <2> QED
    BY <2>1, <1>1, StepIsEarly DEF Early
<1>10. CASE ReceiveFromServer(d)
  <2>1. Step("client", d, "reading", "disconnected") /\ same
    BY <1>10 DEF ReceiveFromServer
  <2> QED
    BY <2>1, <1>1, StepIsEarly DEF Early
<1>11. CASE DestroyClient(d)
  <2>1. Step("client", d, "disconnected", "built") /\ same
    BY <1>11 DEF DestroyClient
  <2> QED
    BY <2>1, <1>1, StepIsEarly DEF Early
<1> QED
  BY <1>2, <1>3, <1>4, <1>5, <1>6, <1>7, <1>8, <1>9, <1>10, <1>11 DEF Connecting

\* Every step is one of the barrier's or an early one.
LEMMA StepKinds ==
  [Next]_vars => EarlyStep \/ \E n \in Node, w \in WsIds : BarrierStep(n, w)
<1> SUFFICES ASSUME [Next]_vars
             PROVE  EarlyStep \/ \E n \in Node, w \in WsIds : BarrierStep(n, w)
  OBVIOUS
<1>1. ASSUME NEW n \in Node, Start(n) PROVE EarlyStep
  BY <1>1 DEF Start, EarlyStep, threadVars
<1>2. ASSUME NEW n \in Node, NEW w \in WsIds, Launching(n, w)
      PROVE  EarlyStep \/ BarrierStep(n, w)
  <2>1. CASE AcquireQp(n, w)
    <3>1. Step(n, w, "construct", "flow") /\ UNCHANGED <<fixed, arrived, gen, contextVars>>
      BY <2>1 DEF AcquireQp
    <3> QED
      BY <3>1, StepIsEarly DEF Early
  <2>2. CASE OffloadFlowRules(n, w)
    <3>1. Step(n, w, "flow", "built") /\ UNCHANGED <<fixed, arrived, gen, contextVars>>
      BY <2>2 DEF OffloadFlowRules
    <3> QED
      BY <3>1, StepIsEarly DEF Early
  <2>3. CASE NoQpLeft(n, w) \/ ApplyWithoutMemReg(n, w)
    <3>1. Die(n)
      BY <2>3 DEF NoQpLeft, ApplyWithoutMemReg
    <3> QED
      BY <3>1, DieIsEarly
  <2> QED
    BY <1>2, <2>1, <2>2, <2>3 DEF Launching, BarrierStep
<1>3. ASSUME NEW w \in WsIds, Calling(w) PROVE EarlyStep
  <2>1. CASE NoRoute(w)
    <3>1. \E n \in Node : Die(n)
      BY <2>1 DEF NoRoute, Receiver, Sender, Peer, Node
    <3> QED
      BY <3>1, DieIsEarly
  <2>2. CASE Request(w) \/ Deliver(w) \/ Dispatch(w) \/ Respond(w) \/ TakeResponse(w)
    <3>1. UNCHANGED <<fixed, threadVars, contextVars>>
      BY <2>2 DEF Request, Deliver, Dispatch, Respond, TakeResponse, Emit
    <3> QED
      BY <3>1 DEF EarlyStep, threadVars
  <2> QED
    BY <1>3, <2>1, <2>2 DEF Calling
<1>4. CASE UNCHANGED vars
  BY <1>4 DEF vars, EarlyStep, threadVars
<1>5. CASE \E n \in Node : Start(n) \/ (\E w \in WsIds : Launching(n, w))
  BY <1>5, <1>1, <1>2
<1>6. CASE \E w \in WsIds : Connecting(w) \/ Calling(w)
  BY <1>6, <1>3, ConnectingIsEarly
<1> QED
  BY <1>4, <1>5, <1>6 DEF Next

-----------------------------------------------------------------------------
(* The barrier *)

\* The workspaces that have come to the barrier once, twice and three times.  One
\* that leaves the constructor early (Skipped) does not come the second time.
HasHome(n, w) == w \in plan[n].workers => plan[n].home[w] \in plan[n].dispatchers
Assigned(n, d) == {v \in plan[n].workers : plan[n].home[v] = d}
Skipped(n, w) == ~HasHome(n, w) \/ (w \in plan[n].dispatchers /\ Assigned(n, w) = {})

First(n) == {w \in plan[n].threads : pc[n][w] \notin Early}
Second(n) == {w \in plan[n].threads : pc[n][w] \in Late /\ ~Skipped(n, w)}
Third(n) == {w \in plan[n].threads : pc[n][w] \in {"start", "running"}}

\* What a workspace knows when it has configured itself.
MemReg(n, w) == IF w \in plan[n].workers /\ HasHome(n, w) THEN plan[n].home[w] ELSE None
Serves(n, w) == IF w \in plan[n].dispatchers /\ HasHome(n, w) THEN Assigned(n, w) ELSE {}
IsLate(n, w) == w \in plan[n].threads /\ pc[n][w] \in Late

\* A workspace that has passed the second or the third generation.
PastReady(n, w) ==
  \/ pc[n][w] = "running"
  \/ pc[n][w] \in {"init", "start"} /\ ~Skipped(n, w)

\* The invariant of a node: the barrier counts those who came; nobody configures
\* itself before all have registered, and nobody runs before all have configured
\* themselves.
BarrierOf(n) ==
  /\ active_ws_id_[n] = First(n)
  /\ arrived[n] = Cardinality(First(n)) + Cardinality(Second(n)) + Cardinality(Third(n))
  /\ \A w \in plan[n].threads :
       /\ pc[n][w] \notin Early \union {"registered"} => First(n) = plan[n].threads
       /\ PastReady(n, w) => Second(n) \union Third(n) = plan[n].threads
       /\ pc[n][w] = "registered" => gen[n][w] = 0
       /\ pc[n][w] \in {"ready", "start"} =>
            /\ gen[n][w] \in {1, 2}
            /\ gen[n][w] = 2 => arrived[n] >= 2 * totalThreads(n)
       /\ pc[n][w] = "ready" => ~Skipped(n, w)
  /\ \A w \in WsIds :
       /\ mem_reg_[n][w] = IF IsLate(n, w) THEN MemReg(n, w) ELSE None
       /\ served[n][w] = IF IsLate(n, w) THEN Serves(n, w) ELSE {}

Places ==
  /\ pc \in [Node -> [WsIds -> Stages]]
  /\ gen \in [Node -> [WsIds -> 0..2]]
  /\ DOMAIN arrived = Node
  /\ active_ws_id_ \in [Node -> SUBSET Threads]
  /\ mem_reg_ \in [Node -> [WsIds -> Threads \union {None}]]
  /\ served \in [Node -> [WsIds -> SUBSET Threads]]
BInv == Fixed /\ Places /\ \A n \in Node : BarrierOf(n)

\* The three sets are finite.
LEMMA Counts ==
  ASSUME Fixed, NEW n \in Node
  PROVE  /\ totalThreads(n) \in Nat /\ Cardinality(First(n)) \in Nat
         /\ Cardinality(Second(n)) \in Nat /\ Cardinality(Third(n)) \in Nat
         /\ IsFiniteSet(First(n)) /\ IsFiniteSet(Second(n)) /\ IsFiniteSet(Third(n))
         /\ \A S \in SUBSET plan[n].threads :
              /\ IsFiniteSet(S) /\ Cardinality(S) \in Nat
              /\ Cardinality(S) <= totalThreads(n)
              /\ Cardinality(S) = totalThreads(n) => S = plan[n].threads
<1>1. IsFiniteSet(plan[n].threads)
  BY FixedPlans DEF PlanOK
<1>2. totalThreads(n) \in Nat
  BY <1>1, FS_CardinalityType DEF totalThreads
<1>3. ASSUME NEW S \in SUBSET plan[n].threads
      PROVE  /\ IsFiniteSet(S) /\ Cardinality(S) \in Nat
             /\ Cardinality(S) <= totalThreads(n)
             /\ Cardinality(S) = totalThreads(n) => S = plan[n].threads
  BY <1>1, FS_Subset, FS_CardinalityType DEF totalThreads
<1>4. /\ First(n) \in SUBSET plan[n].threads /\ Second(n) \in SUBSET plan[n].threads
      /\ Third(n) \in SUBSET plan[n].threads
  BY DEF First, Second, Third
<1> QED
  BY <1>2, <1>3, <1>4

\* The generation tells how many times the threads have come, by division.
LEMMA Quotient ==
  ASSUME NEW a \in Nat, NEW t \in Nat \ {0}
  PROVE  /\ a \div t \in Nat
         /\ a \div t >= 1 <=> a >= t
         /\ a \div t >= 2 <=> a >= 2 * t
         /\ a < 3 * t => a \div t <= 2
<1> DEFINE q == a \div t
<1>1. q \in Nat /\ q * t <= a /\ a < q * t + t
  OBVIOUS
<1> HIDE DEF q
<1>2. q >= 1 => q * t >= t
  <2>1. q >= 1 => q * t = t + (q - 1) * t /\ (q - 1) * t >= 0
    BY <1>1
  <2> QED
    BY <2>1, <1>1
<1>3. q >= 2 => q * t >= 2 * t
  <2>1. q >= 2 => q * t = 2 * t + (q - 2) * t /\ (q - 2) * t >= 0
    BY <1>1
  <2> QED
    BY <2>1, <1>1
<1>4. q >= 3 => q * t >= 3 * t
  <2>1. q >= 3 => q * t = 3 * t + (q - 3) * t /\ (q - 3) * t >= 0
    BY <1>1
  <2> QED
    BY <2>1, <1>1
<1>5. (q = 0 => q * t = 0) /\ (q = 1 => q * t = t)
  BY <1>1
<1>6. q * t \in Nat
  BY <1>1
<1>7. q >= 1 <=> a >= t
  BY <1>1, <1>2, <1>5, <1>6
<1>8. q >= 2 <=> a >= 2 * t
  BY <1>1, <1>3, <1>5, <1>6
<1>9. a < 3 * t => q <= 2
  BY <1>1, <1>4, <1>6
<1> QED
  BY <1>1, <1>7, <1>8, <1>9 DEF q

\* Before all have registered, the barrier's generation is the first.
LEMMA BeforeAllRegistered ==
  ASSUME BInv, NEW n \in Node, First(n) # plan[n].threads
  PROVE  /\ Second(n) = {} /\ Third(n) = {}
         /\ arrived[n] \in Nat /\ arrived[n] < totalThreads(n)
         /\ totalThreads(n) \in Nat \ {0} /\ generation(n) = 0
<1>1. BarrierOf(n) /\ Fixed
  BY DEF BInv
<1>2. Second(n) = {} /\ Third(n) = {}
  BY <1>1 DEF BarrierOf, Second, Third, Early, Late
<1>3. Cardinality(Second(n)) = 0 /\ Cardinality(Third(n)) = 0
  BY <1>2, FS_EmptySet
<1>4. arrived[n] = Cardinality(First(n))
  BY <1>1, <1>3, Counts DEF BarrierOf
<1>5. First(n) \in SUBSET plan[n].threads
  BY DEF First
<1>6. arrived[n] \in Nat /\ arrived[n] < totalThreads(n) /\ totalThreads(n) \in Nat
  BY <1>1, <1>4, <1>5, Counts
<1>7. generation(n) = 0
  <2>1. /\ generation(n) = arrived[n] \div totalThreads(n)
        /\ totalThreads(n) \in Nat \ {0}
    BY <1>6 DEF generation
  <2>2. arrived[n] \div totalThreads(n) \in Nat /\ ~(arrived[n] \div totalThreads(n) >= 1)
    BY <1>6, <2>1, Quotient
  <2> QED
    BY <2>1, <2>2
<1> QED
  BY <1>2, <1>6, <1>7

\* When all have registered, it is the second or the third; the third only when
\* all have configured themselves.
LEMMA WhenAllRegistered ==
  ASSUME BInv, NEW n \in Node, plan[n].threads # {}, First(n) = plan[n].threads
  PROVE  /\ totalThreads(n) \in Nat \ {0} /\ arrived[n] \in Nat /\ generation(n) \in Nat
         /\ arrived[n] >= totalThreads(n) /\ generation(n) >= 1
         /\ generation(n) >= 2 <=> arrived[n] >= 2 * totalThreads(n)
         /\ arrived[n] < 3 * totalThreads(n) => generation(n) <= 2
         /\ arrived[n] >= 2 * totalThreads(n) => Second(n) \union Third(n) = plan[n].threads
<1>1. BarrierOf(n) /\ Fixed
  BY DEF BInv
<1>2. totalThreads(n) = Cardinality(First(n)) /\ totalThreads(n) \in Nat
  BY <1>1, Counts DEF totalThreads
<1>3. totalThreads(n) # 0
  <2>1. {} \in SUBSET plan[n].threads /\ Cardinality({}) = 0
    BY FS_EmptySet
  <2> QED
    BY <2>1, <1>1, Counts
<1>4. arrived[n] = totalThreads(n) + Cardinality(Second(n)) + Cardinality(Third(n))
  BY <1>1, <1>2 DEF BarrierOf
<1>5. Cardinality(Second(n)) \in Nat /\ Cardinality(Third(n)) \in Nat
      /\ IsFiniteSet(Second(n)) /\ IsFiniteSet(Third(n))
  BY <1>1, Counts
<1>6. arrived[n] \in Nat /\ arrived[n] >= totalThreads(n) /\ totalThreads(n) \in Nat \ {0}
  BY <1>2, <1>3, <1>4, <1>5
<1>7. /\ generation(n) \in Nat /\ generation(n) >= 1
      /\ generation(n) >= 2 <=> arrived[n] >= 2 * totalThreads(n)
      /\ arrived[n] < 3 * totalThreads(n) => generation(n) <= 2
  BY <1>6, Quotient DEF generation
<1>8. arrived[n] >= 2 * totalThreads(n) => Second(n) \union Third(n) = plan[n].threads
  <2> SUFFICES ASSUME arrived[n] >= 2 * totalThreads(n),
                      Second(n) \union Third(n) # plan[n].threads
               PROVE  FALSE
    OBVIOUS
  <2>1. Second(n) \intersect Third(n) = {}
    BY <1>1 DEF BarrierOf, Second, Third, PastReady
  <2> DEFINE both == Second(n) \union Third(n)
  <2>2. Cardinality(Second(n) \intersect Third(n)) = 0
    BY <2>1, FS_EmptySet
  <2>3. Cardinality(both) = Cardinality(Second(n)) + Cardinality(Third(n))
                              - Cardinality(Second(n) \intersect Third(n))
    BY <1>5, FS_Union
  <2>4. both \in SUBSET plan[n].threads
    BY DEF Second, Third
  <2>5. Cardinality(both) <= totalThreads(n) /\ Cardinality(both) # totalThreads(n)
        /\ Cardinality(both) \in Nat
    BY <1>1, <2>4, Counts
  <2> HIDE DEF both
  <2>6. Cardinality(both) = Cardinality(Second(n)) + Cardinality(Third(n))
    BY <2>2, <2>3, <1>5
  <2> QED
    BY <2>5, <2>6, <1>2, <1>4, <1>5
<1> QED
  BY <1>6, <1>7, <1>8

\* The ids of threads are among those config_workload takes.
LEMMA Ids == /\ Threads \subseteq WsIds /\ None \notin WsIds
             /\ \A p : PlanOK(p) => \A w \in p.threads : w \in WsIds /\ w \in Threads
<1>1. Threads \subseteq WsIds /\ None \notin WsIds
  BY DeploymentAssumption DEF Threads, WsIds, None
<1> QED
  BY <1>1 DEF PlanOK

\* Where a step moves one thread, the others stay.
LEMMA Moved ==
  ASSUME Places, NEW n \in Node, NEW w \in WsIds, NEW there, Go(n, w, there)
  PROVE  /\ \A v \in WsIds : pc'[n][v] = IF v = w THEN there ELSE pc[n][v]
         /\ \A m \in Node \ {n} : pc'[m] = pc[m]
BY DEF Places, Go

\* A node keeps its invariant when only threads that have not registered move, and
\* they do not register.
LEMMA QuietNode ==
  ASSUME BInv, NEW m \in Node, plan' = plan,
         arrived'[m] = arrived[m], gen'[m] = gen[m], active_ws_id_'[m] = active_ws_id_[m],
         mem_reg_'[m] = mem_reg_[m], served'[m] = served[m],
         \A v \in WsIds : \/ pc'[m][v] = pc[m][v]
                          \/ pc[m][v] \in Early /\ pc'[m][v] \in Early
  PROVE  BarrierOf(m)'
<1>1. BarrierOf(m) /\ PlanOK(plan[m])
  BY FixedPlans DEF BInv
<1>2. \A v \in plan[m].threads : v \in WsIds
  BY <1>1, Ids
<1>3. /\ \A v : HasHome(m, v)' <=> HasHome(m, v)
      /\ \A v : Skipped(m, v)' <=> Skipped(m, v)
      /\ \A v : MemReg(m, v)' = MemReg(m, v) /\ Serves(m, v)' = Serves(m, v)
  BY DEF HasHome, Skipped, Assigned, MemReg, Serves
<1>4. \A v \in WsIds : IsLate(m, v)' <=> IsLate(m, v)
  BY DEF IsLate, Early, Late
<1>5. First(m)' = First(m)
  BY <1>2 DEF First
<1>6. Second(m)' = Second(m)
  BY <1>2, <1>3 DEF Second, Early, Late
<1>7. Third(m)' = Third(m)
  BY <1>2 DEF Third, Early
<1>8. totalThreads(m)' = totalThreads(m)
  BY DEF totalThreads
<1>9. ASSUME NEW v \in plan[m].threads
      PROVE  /\ pc'[m][v] \notin Early \union {"registered"} => pc'[m][v] = pc[m][v]
             /\ PastReady(m, v)' => PastReady(m, v)
             /\ pc'[m][v] \in {"registered", "ready", "start"} => pc'[m][v] = pc[m][v]
  BY <1>2, <1>3 DEF PastReady, Early
<1>10. /\ active_ws_id_'[m] = First(m)'
       /\ arrived'[m] = Cardinality(First(m)') + Cardinality(Second(m)') + Cardinality(Third(m)')
  BY <1>1, <1>5, <1>6, <1>7 DEF BarrierOf
<1>11. ASSUME NEW v \in plan'[m].threads
       PROVE  /\ pc'[m][v] \notin Early \union {"registered"} => First(m)' = plan'[m].threads
              /\ PastReady(m, v)' => Second(m)' \union Third(m)' = plan'[m].threads
              /\ pc'[m][v] = "registered" => gen'[m][v] = 0
              /\ pc'[m][v] \in {"ready", "start"} =>
                   /\ gen'[m][v] \in {1, 2}
                   /\ gen'[m][v] = 2 => arrived'[m] >= 2 * totalThreads(m)'
              /\ pc'[m][v] = "ready" => ~Skipped(m, v)'
  <2>1. v \in plan[m].threads
    OBVIOUS
  <2>2. pc'[m][v] \notin Early \union {"registered"} => First(m)' = plan'[m].threads
    BY <1>1, <1>5, <1>9, <2>1 DEF BarrierOf
  <2>3. PastReady(m, v)' => Second(m)' \union Third(m)' = plan'[m].threads
    BY <1>1, <1>6, <1>7, <1>9, <2>1 DEF BarrierOf
  <2>4. pc'[m][v] = "registered" => gen'[m][v] = 0
    BY <1>1, <1>9, <2>1 DEF BarrierOf
  <2>5. pc'[m][v] \in {"ready", "start"} =>
          /\ gen'[m][v] \in {1, 2}
          /\ gen'[m][v] = 2 => arrived'[m] >= 2 * totalThreads(m)'
    BY <1>1, <1>8, <1>9, <2>1 DEF BarrierOf
  <2>6. pc'[m][v] = "ready" => ~Skipped(m, v)'
    BY <1>1, <1>3, <1>9, <2>1 DEF BarrierOf
  <2> QED
    BY <2>2, <2>3, <2>4, <2>5, <2>6
<1>12. ASSUME NEW v \in WsIds
       PROVE  /\ mem_reg_'[m][v] = IF IsLate(m, v)' THEN MemReg(m, v)' ELSE None
              /\ served'[m][v] = IF IsLate(m, v)' THEN Serves(m, v)' ELSE {}
  BY <1>1, <1>3, <1>4 DEF BarrierOf
<1> QED
  BY <1>10, <1>11, <1>12 DEF BarrierOf

\* At the start nobody is at the barrier.
LEMMA InitBInv == Init => BInv
<1> SUFFICES ASSUME Init PROVE BInv
  OBVIOUS
<1>1. Fixed
  BY DEF Init, Fixed
<1>2. Places
  BY DEF Init, Places, Stages, Early
<1>3. ASSUME NEW n \in Node PROVE BarrierOf(n)
  <2>1. PlanOK(plan[n])
    BY <1>1, FixedPlans
  <2>2. \A w \in WsIds : pc[n][w] = "construct" /\ mem_reg_[n][w] = None /\ served[n][w] = {}
    BY DEF Init
  <2>3. \A w \in plan[n].threads : pc[n][w] = "construct"
    BY <2>1, <2>2, Ids
  <2>4. First(n) = {} /\ Second(n) = {} /\ Third(n) = {}
    BY <2>3 DEF First, Second, Third, Early, Late
  <2>5. \A w \in WsIds : ~IsLate(n, w)
    BY <2>2 DEF IsLate, Late
  <2>6. arrived[n] = Cardinality(First(n)) + Cardinality(Second(n)) + Cardinality(Third(n))
    BY <2>4, FS_EmptySet DEF Init
  <2>7. active_ws_id_[n] = {}
    BY DEF Init
  <2>8. \A w \in plan[n].threads :
          /\ pc[n][w] \in Early /\ ~PastReady(n, w)
          /\ pc[n][w] \notin {"registered", "ready", "start"}
    BY <2>3 DEF Early, PastReady
  <2> QED
    BY <2>2, <2>4, <2>5, <2>6, <2>7, <2>8 DEF BarrierOf
<1> QED
  BY <1>1, <1>2, <1>3 DEF BInv

\* An early step keeps the invariant.
LEMMA EarlyKeepsBInv == ASSUME BInv, EarlyStep PROVE BInv'
<1>0. /\ pc' \in [Node -> [WsIds -> Stages]]
      /\ \A m \in Node, v \in WsIds : \/ pc'[m][v] = pc[m][v]
                                      \/ pc[m][v] \in Early /\ pc'[m][v] \in Early
  <2>1. pc \in [Node -> [WsIds -> Stages]]
    BY DEF BInv, Places
  <2>2. CASE pc' = pc
    BY <2>1, <2>2
  <2>3. ASSUME NEW n \in Node, NEW w \in WsIds, NEW there \in Early \ {"construct"},
               pc[n][w] \in Early, pc' = [pc EXCEPT ![n][w] = there]
        PROVE  /\ pc' \in [Node -> [WsIds -> Stages]]
               /\ \A m \in Node, v \in WsIds : \/ pc'[m][v] = pc[m][v]
                                               \/ pc[m][v] \in Early /\ pc'[m][v] \in Early
    <3>1. there \in Stages
      BY DEF Stages
    <3>2. pc' \in [Node -> [WsIds -> Stages]]
      BY <2>1, <2>3, <3>1
    <3>3. \A m \in Node, v \in WsIds :
            pc'[m][v] = IF m = n /\ v = w THEN there ELSE pc[m][v]
      BY <2>1, <2>3
    <3> QED
      BY <2>3, <3>2, <3>3
  <2> QED
    BY <2>2, <2>3 DEF EarlyStep
<1>1. Fixed'
  BY DEF BInv, EarlyStep, Fixed, fixed
<1>2. Places'
  BY <1>0 DEF BInv, Places, EarlyStep, contextVars
<1>3. ASSUME NEW m \in Node PROVE BarrierOf(m)'
  <2>1. /\ plan' = plan /\ arrived'[m] = arrived[m] /\ gen'[m] = gen[m]
        /\ active_ws_id_'[m] = active_ws_id_[m]
        /\ mem_reg_'[m] = mem_reg_[m] /\ served'[m] = served[m]
    BY DEF EarlyStep, fixed, contextVars
  <2>2. \A v \in WsIds : \/ pc'[m][v] = pc[m][v]
                         \/ pc[m][v] \in Early /\ pc'[m][v] \in Early
    BY <1>0
  <2> QED
    BY <2>1, <2>2, QuietNode
<1> QED
  BY <1>1, <1>2, <1>3 DEF BInv

\* What the steps at the barrier have in common.
LEMMA BarrierStepMoves ==
  ASSUME NEW n \in Node, NEW w \in WsIds, BarrierStep(n, w)
  PROVE  /\ UNCHANGED fixed /\ w \in plan[n].threads
         /\ \E there \in {"registered", "configure"} \union Late : Go(n, w, there)
         /\ \/ UNCHANGED <<arrived, gen>>
            \/ Wait(n, w)
         /\ \/ active_ws_id_' = active_ws_id_
            \/ active_ws_id_' = [active_ws_id_ EXCEPT ![n] = @ \union {w}]
         /\ mem_reg_' = mem_reg_ \/ mem_reg_' = [mem_reg_ EXCEPT ![n][w] = plan[n].home[w]]
         /\ served' = served \/ served' = [served EXCEPT ![n][w] = AssignedTo(n, w)]
<1>1. CASE Register(n, w)
  BY <1>1 DEF Register, Step, At, contextVars
<1>2. CASE PassRegistered(n, w)
  BY <1>2 DEF PassRegistered, Pass, Step, At, contextVars
<1>3. CASE Configure(n, w)
  BY <1>3 DEF Configure, Step, At, Late
<1>4. CASE PassReady(n, w)
  BY <1>4 DEF PassReady, Pass, Step, At, contextVars, Late
<1>5. CASE EnterLoop(n, w)
  BY <1>5 DEF EnterLoop, Step, At, contextVars, Late
<1>6. CASE PassStart(n, w)
  BY <1>6 DEF PassStart, Pass, Step, At, contextVars, Late
<1> QED
  BY <1>1, <1>2, <1>3, <1>4, <1>5, <1>6 DEF BarrierStep

\* A step of one node leaves the other one as it was.
LEMMA OtherNode ==
  ASSUME BInv, NEW n \in Node, NEW w \in WsIds, BarrierStep(n, w), NEW m \in Node \ {n}
  PROVE  BarrierOf(m)'
<1>1. Places /\ m # n
  BY DEF BInv
<1>2. plan' = plan /\ pc'[m] = pc[m]
  BY <1>1, BarrierStepMoves, Moved DEF fixed
<1>3. arrived'[m] = arrived[m] /\ gen'[m] = gen[m]
  <2>1. CASE UNCHANGED <<arrived, gen>>
    BY <2>1
  <2>2. CASE Wait(n, w)
    <3>1. arrived'[m] = arrived[m]
      BY <1>1, <2>2 DEF Places, Wait
    <3>2. gen'[m] = gen[m]
      BY <1>1, <2>2 DEF Places, Wait
    <3> QED
      BY <3>1, <3>2
  <2> QED
    BY <2>1, <2>2, BarrierStepMoves
<1>4. active_ws_id_'[m] = active_ws_id_[m]
  BY <1>1, BarrierStepMoves DEF Places
<1>5. mem_reg_'[m] = mem_reg_[m]
  BY <1>1, BarrierStepMoves DEF Places
<1>6. served'[m] = served[m]
  BY <1>1, BarrierStepMoves DEF Places
<1> QED
  BY <1>2, <1>3, <1>4, <1>5, <1>6, QuietNode

\* Types, given those of the generation and of what a workspace learns.
LEMMA PlacesKept ==
  ASSUME BInv, NEW n \in Node, NEW w \in WsIds, BarrierStep(n, w),
         UNCHANGED <<arrived, gen>> \/ generation(n) \in 0..2,
         mem_reg_' = mem_reg_ \/ plan[n].home[w] \in Threads
  PROVE  Places' /\ Fixed'
<1>1. Places /\ Fixed
  BY DEF BInv
<1>2. Fixed'
  BY <1>1, BarrierStepMoves DEF fixed, Fixed
<1>3. pc' \in [Node -> [WsIds -> Stages]]
  <2>1. PICK there \in {"registered", "configure"} \union Late : Go(n, w, there)
    BY BarrierStepMoves
  <2>2. there \in Stages
    BY DEF Stages
  <2> QED
    BY <1>1, <2>1, <2>2 DEF Places, Go
<1>4. gen' \in [Node -> [WsIds -> 0..2]] /\ DOMAIN arrived' = Node
  <2>1. gen \in [Node -> [WsIds -> 0..2]] /\ DOMAIN arrived = Node
    BY <1>1 DEF Places
  <2>2. CASE UNCHANGED <<arrived, gen>>
    BY <2>1, <2>2
  <2>3. CASE Wait(n, w) /\ generation(n) \in 0..2
    <3> DEFINE g == generation(n)
    <3>1. gen' = [gen EXCEPT ![n][w] = g] /\ g \in 0..2 /\ DOMAIN arrived' = Node
      BY <2>1, <2>3 DEF Wait
    <3> HIDE DEF g
    <3> QED
      BY <2>1, <3>1
  <2> QED
    BY <2>2, <2>3, BarrierStepMoves
<1>5. active_ws_id_' \in [Node -> SUBSET Threads]
  <2>1. w \in Threads /\ active_ws_id_ \in [Node -> SUBSET Threads]
    BY <1>1, BarrierStepMoves, FixedPlans DEF Places, PlanOK
  <2>2. \/ active_ws_id_' = active_ws_id_
        \/ active_ws_id_' = [active_ws_id_ EXCEPT ![n] = @ \union {w}]
    BY BarrierStepMoves
  <2> QED
    BY <2>1, <2>2
<1>6. mem_reg_' \in [Node -> [WsIds -> Threads \union {None}]]
  <2>1. mem_reg_ \in [Node -> [WsIds -> Threads \union {None}]]
    BY <1>1 DEF Places
  <2> DEFINE h == plan[n].home[w]
  <2>2. mem_reg_' = mem_reg_ \/ (mem_reg_' = [mem_reg_ EXCEPT ![n][w] = h] /\ h \in Threads)
    BY BarrierStepMoves
  <2> HIDE DEF h
  <2> QED
    BY <2>1, <2>2
<1>7. served' \in [Node -> [WsIds -> SUBSET Threads]]
  <2>1. AssignedTo(n, w) \subseteq Threads
    BY <1>1, FixedPlans DEF AssignedTo, PlanOK
  <2>2. served \in [Node -> [WsIds -> SUBSET Threads]]
    BY <1>1 DEF Places
  <2> DEFINE a == AssignedTo(n, w)
  <2>3. (served' = served \/ served' = [served EXCEPT ![n][w] = a]) /\ a \in SUBSET Threads
    BY <2>1, BarrierStepMoves
  <2> HIDE DEF a
  <2> QED
    BY <2>2, <2>3
<1> QED
  BY <1>2, <1>3, <1>4, <1>5, <1>6, <1>7 DEF Places

\* One more: the size of a finite set with one more element.
LEMMA OneMore ==
  ASSUME NEW S, IsFiniteSet(S), NEW x, x \notin S
  PROVE  Cardinality(S \union {x}) = Cardinality(S) + 1
BY FS_AddElement

\* register_ws: before all have.
LEMMA RegisterKeeps ==
  ASSUME BInv, NEW n \in Node, NEW w \in WsIds, Register(n, w)
  PROVE  BInv'
<1>1. Places /\ Fixed /\ BarrierOf(n) /\ PlanOK(plan[n])
  BY FixedPlans DEF BInv
<1>2. w \in plan[n].threads /\ pc[n][w] \in Early
  BY DEF Register, Step, At, Early
<1>3. w \notin First(n) /\ First(n) # plan[n].threads
  BY <1>2 DEF First
<1>4. /\ Second(n) = {} /\ Third(n) = {} /\ generation(n) = 0
  BY <1>3, BeforeAllRegistered
<1>5. /\ plan' = plan /\ mem_reg_' = mem_reg_ /\ served' = served
      /\ active_ws_id_'[n] = active_ws_id_[n] \union {w}
      /\ arrived'[n] = arrived[n] + 1
      /\ gen' = [gen EXCEPT ![n][w] = 0]
  BY <1>1, <1>4 DEF Register, Wait, fixed, Places
<1>6. \A v \in WsIds : pc'[n][v] = IF v = w THEN "registered" ELSE pc[n][v]
  BY <1>1, Moved DEF Register, Step
<1>7. \A v \in plan[n].threads : v \in WsIds
  BY <1>1, Ids
<1>8. First(n)' = First(n) \union {w}
  BY <1>2, <1>5, <1>6, <1>7 DEF First, Early
<1>9. \A v \in WsIds : v \in plan[n].threads => pc[n][v] \in Early \union {"registered"}
  BY <1>1, <1>3, <1>7 DEF BarrierOf
<1>10. Second(n)' = {} /\ Third(n)' = {}
  BY <1>5, <1>6, <1>7, <1>9 DEF Second, Third, Early, Late
<1>11. arrived'[n] = Cardinality(First(n)') + Cardinality(Second(n)') + Cardinality(Third(n)')
  <2>1. arrived[n] = Cardinality(First(n)) + Cardinality(Second(n)) + Cardinality(Third(n))
    BY <1>1 DEF BarrierOf
  <2>2. IsFiniteSet(First(n)) /\ Cardinality(First(n)) \in Nat
    BY <1>1, Counts
  <2>3. Cardinality(First(n) \union {w}) = Cardinality(First(n)) + 1
    BY <2>2, <1>3, OneMore
  <2> QED
    BY <1>4, <1>5, <1>8, <1>10, <2>1, <2>2, <2>3, FS_EmptySet
<1>12. ASSUME NEW v \in plan'[n].threads
       PROVE  /\ pc'[n][v] \in Early \union {"registered"} /\ ~PastReady(n, v)'
              /\ pc'[n][v] = "registered" => gen'[n][v] = 0
  <2>1. v \in plan[n].threads /\ v \in WsIds
    BY <1>5, <1>7
  <2>2. pc'[n][v] \in Early \union {"registered"}
    BY <2>1, <1>6, <1>9
  <2>3. ~PastReady(n, v)'
    BY <2>2 DEF PastReady, Early
  <2>4. gen'[n][v] = IF v = w THEN 0 ELSE gen[n][v]
    BY <1>1, <1>5, <2>1 DEF Places
  <2>5. pc'[n][v] = "registered" => gen'[n][v] = 0
    BY <1>1, <1>6, <2>1, <2>4 DEF BarrierOf
  <2> QED
    BY <2>2, <2>3, <2>5
<1>13. ASSUME NEW v \in WsIds
       PROVE  /\ ~IsLate(n, v)' /\ mem_reg_'[n][v] = None /\ served'[n][v] = {}
  <2>1. ~IsLate(n, v) /\ ~IsLate(n, v)'
    BY <1>5, <1>6, <1>9 DEF IsLate, Early, Late
  <2> QED
    BY <1>1, <1>5, <2>1 DEF BarrierOf
<1>14. active_ws_id_'[n] = First(n)'
  BY <1>1, <1>5, <1>8 DEF BarrierOf
<1>15. BarrierOf(n)'
  <2>1. \A v \in plan'[n].threads :
          /\ pc'[n][v] \in Early \union {"registered"} /\ ~PastReady(n, v)'
          /\ pc'[n][v] = "registered" => gen'[n][v] = 0
          /\ pc'[n][v] \notin {"ready", "start"}
    BY <1>12 DEF Early
  <2> QED
    BY <2>1, <1>11, <1>13, <1>14 DEF BarrierOf
<1>16. BarrierStep(n, w)
  BY DEF BarrierStep
<1>17. Places' /\ Fixed'
  BY <1>4, <1>5, <1>16, PlacesKept
<1>18. \A m \in Node : BarrierOf(m)'
  BY <1>15, <1>16, OtherNode
<1> QED
  BY <1>17, <1>18 DEF BInv

\* Past the barrier: the first time everybody has registered, afterwards everybody
\* has configured itself.
Passes == {<<"registered", "configure">>, <<"ready", "init">>, <<"start", "running">>}

\* What a thread that passes the barrier knows.
LEMMA PassMeans ==
  ASSUME BInv, NEW n \in Node, NEW w \in WsIds, NEW here, NEW there,
         <<here, there>> \in Passes, Pass(n, w, here, there)
  PROVE  /\ w \in plan[n].threads /\ pc[n][w] = here /\ First(n) = plan[n].threads
         /\ here # "registered" => Second(n) \union Third(n) = plan[n].threads
<1>1. BarrierOf(n)
  BY DEF BInv
<1>2. w \in plan[n].threads /\ pc[n][w] = here /\ gen[n][w] # generation(n)
  BY DEF Pass, Step, At
<1>3. here \in {"registered", "ready", "start"}
  BY DEF Passes
<1>4. First(n) = plan[n].threads
  <2>1. CASE here = "registered"
    <3>1. generation(n) # 0
      BY <1>1, <1>2, <2>1 DEF BarrierOf
    <3> QED
      BY <3>1, BeforeAllRegistered
  <2>2. CASE here # "registered"
    BY <1>1, <1>2, <1>3, <2>2 DEF BarrierOf, Early
  <2> QED
    BY <2>1, <2>2
<1>5. ASSUME here # "registered" PROVE Second(n) \union Third(n) = plan[n].threads
  <2>1. /\ gen[n][w] \in {1, 2}
        /\ gen[n][w] = 2 => arrived[n] >= 2 * totalThreads(n)
    BY <1>1, <1>2, <1>3, <1>5 DEF BarrierOf
  <2>2. /\ generation(n) \in Nat /\ generation(n) >= 1
        /\ generation(n) >= 2 => arrived[n] >= 2 * totalThreads(n)
        /\ arrived[n] >= 2 * totalThreads(n) => Second(n) \union Third(n) = plan[n].threads
    BY <1>2, <1>4, WhenAllRegistered
  <2>3. gen[n][w] = 2 \/ generation(n) >= 2
    BY <1>2, <2>1, <2>2
  <2> QED
    BY <2>1, <2>2, <2>3
<1> QED
  BY <1>2, <1>4, <1>5

\* Passing the barrier keeps the invariant.
LEMMA PassKeeps ==
  ASSUME BInv, NEW n \in Node, NEW w \in WsIds, NEW here, NEW there, BarrierStep(n, w),
         <<here, there>> \in Passes, Pass(n, w, here, there)
  PROVE  BInv'
<1>1. Places /\ Fixed /\ BarrierOf(n) /\ PlanOK(plan[n])
  BY FixedPlans DEF BInv
<1>2. /\ w \in plan[n].threads /\ pc[n][w] = here /\ First(n) = plan[n].threads
      /\ here # "registered" => Second(n) \union Third(n) = plan[n].threads
  BY PassMeans
<1>3. /\ plan' = plan /\ arrived' = arrived /\ gen' = gen /\ active_ws_id_' = active_ws_id_
      /\ mem_reg_' = mem_reg_ /\ served' = served
  BY DEF Pass, fixed, contextVars
<1>4. \A v \in WsIds : pc'[n][v] = IF v = w THEN there ELSE pc[n][v]
  BY <1>1, Moved DEF Pass, Step
<1>5. \A v \in plan[n].threads : v \in WsIds
  BY <1>1, Ids
<1>6. \/ here = "registered" /\ there = "configure"
      \/ here = "ready" /\ there = "init"
      \/ here = "start" /\ there = "running"
  BY DEF Passes
<1>7. /\ \A v : HasHome(n, v)' <=> HasHome(n, v)
      /\ \A v : Skipped(n, v)' <=> Skipped(n, v)
      /\ \A v : MemReg(n, v)' = MemReg(n, v) /\ Serves(n, v)' = Serves(n, v)
  BY <1>3 DEF HasHome, Skipped, Assigned, MemReg, Serves
<1>8. First(n)' = First(n)
  BY <1>2, <1>3, <1>4, <1>5, <1>6 DEF First, Early
<1>9. Second(n)' = Second(n)
  BY <1>2, <1>3, <1>4, <1>5, <1>6, <1>7 DEF Second, Late
<1>10. Third(n)' = Third(n)
  BY <1>2, <1>3, <1>4, <1>5, <1>6 DEF Third
<1>11. totalThreads(n)' = totalThreads(n)
  BY <1>3 DEF totalThreads
<1>12. \A v \in WsIds : IsLate(n, v)' <=> IsLate(n, v)
  BY <1>2, <1>3, <1>4, <1>6 DEF IsLate, Late
<1>13. /\ active_ws_id_'[n] = First(n)'
       /\ arrived'[n] = Cardinality(First(n)') + Cardinality(Second(n)') + Cardinality(Third(n)')
  BY <1>1, <1>3, <1>8, <1>9, <1>10 DEF BarrierOf
<1>14. ASSUME NEW v \in plan'[n].threads
       PROVE  /\ pc'[n][v] \notin Early \union {"registered"} => First(n)' = plan'[n].threads
              /\ PastReady(n, v)' => Second(n)' \union Third(n)' = plan'[n].threads
              /\ pc'[n][v] = "registered" => gen'[n][v] = 0
              /\ pc'[n][v] \in {"ready", "start"} =>
                   /\ gen'[n][v] \in {1, 2}
                   /\ gen'[n][v] = 2 => arrived'[n] >= 2 * totalThreads(n)'
              /\ pc'[n][v] = "ready" => ~Skipped(n, v)'
  <2>1. v \in plan[n].threads /\ v \in WsIds
    BY <1>3, <1>5
  <2>2. First(n)' = plan'[n].threads
    BY <1>2, <1>3, <1>8
  <2>3. CASE v # w
    <3>1. pc'[n][v] = pc[n][v]
      BY <1>4, <2>1, <2>3
    <3>2. PastReady(n, v)' => PastReady(n, v)
      BY <1>7, <3>1 DEF PastReady
    <3>3. PastReady(n, v)' => Second(n)' \union Third(n)' = plan'[n].threads
      BY <1>1, <1>3, <1>9, <1>10, <2>1, <3>2 DEF BarrierOf
    <3>4. pc'[n][v] = "registered" => gen'[n][v] = 0
      BY <1>1, <1>3, <2>1, <3>1 DEF BarrierOf
    <3>5. pc'[n][v] \in {"ready", "start"} =>
             /\ gen'[n][v] \in {1, 2}
             /\ gen'[n][v] = 2 => arrived'[n] >= 2 * totalThreads(n)'
      BY <1>1, <1>3, <1>11, <2>1, <3>1 DEF BarrierOf
    <3>6. pc'[n][v] = "ready" => ~Skipped(n, v)'
      BY <1>1, <1>7, <2>1, <3>1 DEF BarrierOf
    <3> QED
      BY <2>2, <3>3, <3>4, <3>5, <3>6
  <2>4. CASE v = w
    <3>1. pc'[n][v] = there /\ there \in {"configure", "init", "running"}
      BY <1>4, <1>6, <2>1, <2>4
    <3>2. PastReady(n, v)' => here # "registered"
      BY <1>6, <3>1 DEF PastReady
    <3>3. PastReady(n, v)' => Second(n)' \union Third(n)' = plan'[n].threads
      BY <1>2, <1>3, <1>9, <1>10, <3>2
    <3> QED
      BY <2>2, <3>1, <3>3
  <2> QED
    BY <2>3, <2>4
<1>15. ASSUME NEW v \in WsIds
       PROVE  /\ mem_reg_'[n][v] = IF IsLate(n, v)' THEN MemReg(n, v)' ELSE None
              /\ served'[n][v] = IF IsLate(n, v)' THEN Serves(n, v)' ELSE {}
  BY <1>1, <1>3, <1>7, <1>12 DEF BarrierOf
<1>16. BarrierOf(n)'
  BY <1>13, <1>14, <1>15 DEF BarrierOf
<1>17. Places' /\ Fixed'
  BY <1>3, PlacesKept
<1>18. \A m \in Node : BarrierOf(m)'
  BY <1>16, OtherNode
<1> QED
  BY <1>17, <1>18 DEF BInv

\* A workspace that comes for the third time, or for the second, sees the second
\* generation or the third.
LEMMA GenerationSeen ==
  ASSUME BInv, NEW n \in Node, NEW w \in WsIds, w \in plan[n].threads,
         First(n) = plan[n].threads, w \notin Third(n)
  PROVE  /\ generation(n) \in {1, 2} /\ arrived[n] \in Nat /\ totalThreads(n) \in Nat
         /\ generation(n) = 2 => arrived[n] >= 2 * totalThreads(n)
<1>1. BarrierOf(n) /\ Fixed
  BY DEF BInv
<1>2. plan[n].threads # {}
  OBVIOUS
<1>3. /\ totalThreads(n) \in Nat \ {0} /\ arrived[n] \in Nat /\ generation(n) \in Nat
      /\ generation(n) >= 1
      /\ generation(n) >= 2 <=> arrived[n] >= 2 * totalThreads(n)
      /\ arrived[n] < 3 * totalThreads(n) => generation(n) <= 2
  BY <1>2, WhenAllRegistered
<1>4. Third(n) \in SUBSET plan[n].threads /\ Third(n) # plan[n].threads
      /\ Second(n) \in SUBSET plan[n].threads
  BY DEF Second, Third
<1>5. /\ Cardinality(Third(n)) \in Nat /\ Cardinality(Second(n)) \in Nat
      /\ Cardinality(Third(n)) < totalThreads(n) /\ Cardinality(Second(n)) <= totalThreads(n)
  <2>1. /\ Cardinality(Third(n)) \in Nat /\ Cardinality(Third(n)) <= totalThreads(n)
        /\ Cardinality(Third(n)) # totalThreads(n)
    BY <1>1, <1>4, Counts
  <2>2. Cardinality(Second(n)) \in Nat /\ Cardinality(Second(n)) <= totalThreads(n)
    BY <1>1, <1>4, Counts
  <2> QED
    BY <2>1, <2>2, <1>3
<1>6. arrived[n] = totalThreads(n) + Cardinality(Second(n)) + Cardinality(Third(n))
  BY <1>1 DEF BarrierOf, totalThreads
<1>7. arrived[n] < 3 * totalThreads(n)
  BY <1>3, <1>5, <1>6
<1> QED
  BY <1>3, <1>7

\* What a call of wait() leaves.
LEMMA Waited ==
  ASSUME Places, NEW n \in Node, NEW w \in WsIds, Wait(n, w)
  PROVE  /\ arrived'[n] = arrived[n] + 1
         /\ \A v \in WsIds : gen'[n][v] = IF v = w THEN generation(n) ELSE gen[n][v]
<1>1. arrived'[n] = arrived[n] + 1
  BY DEF Places, Wait
<1> DEFINE g == generation(n)
<1>2. gen' = [gen EXCEPT ![n][w] = g] /\ gen \in [Node -> [WsIds -> 0..2]]
  BY DEF Places, Wait
<1> HIDE DEF g
<1>3. \A v \in WsIds : gen'[n][v] = IF v = w THEN g ELSE gen[n][v]
  BY <1>2
<1> QED
  BY <1>1, <1>3 DEF g

\* Into the loop: one more has come the third time.
LEMMA EnterLoopKeeps ==
  ASSUME BInv, NEW n \in Node, NEW w \in WsIds, EnterLoop(n, w)
  PROVE  BInv'
<1>1. Places /\ Fixed /\ BarrierOf(n) /\ PlanOK(plan[n])
  BY FixedPlans DEF BInv
<1>2. w \in plan[n].threads /\ pc[n][w] = "init" /\ Wait(n, w)
  BY DEF EnterLoop, Step, At
<1>3. First(n) = plan[n].threads /\ w \notin Third(n)
  BY <1>1, <1>2 DEF BarrierOf, Third, Early
<1>4. /\ generation(n) \in {1, 2} /\ arrived[n] \in Nat /\ totalThreads(n) \in Nat
      /\ generation(n) = 2 => arrived[n] >= 2 * totalThreads(n)
  BY <1>2, <1>3, GenerationSeen
<1>5. /\ plan' = plan /\ active_ws_id_' = active_ws_id_
      /\ mem_reg_' = mem_reg_ /\ served' = served
  BY DEF EnterLoop, fixed, contextVars
<1>6. \A v \in WsIds : pc'[n][v] = IF v = w THEN "start" ELSE pc[n][v]
  BY <1>1, Moved DEF EnterLoop, Step
<1>7. \A v \in plan[n].threads : v \in WsIds
  BY <1>1, Ids
<1>8. /\ arrived'[n] = arrived[n] + 1
      /\ \A v \in WsIds : gen'[n][v] = IF v = w THEN generation(n) ELSE gen[n][v]
  BY <1>1, <1>2, Waited
<1>9. /\ \A v : HasHome(n, v)' <=> HasHome(n, v)
      /\ \A v : Skipped(n, v)' <=> Skipped(n, v)
      /\ \A v : MemReg(n, v)' = MemReg(n, v) /\ Serves(n, v)' = Serves(n, v)
  BY <1>5 DEF HasHome, Skipped, Assigned, MemReg, Serves
<1>10. First(n)' = First(n)
  BY <1>2, <1>5, <1>6, <1>7 DEF First, Early
<1>11. Second(n)' = Second(n)
  BY <1>2, <1>5, <1>6, <1>7, <1>9 DEF Second, Late
<1>12. Third(n)' = Third(n) \union {w}
  BY <1>2, <1>5, <1>6, <1>7 DEF Third
<1>13. totalThreads(n)' = totalThreads(n)
  BY <1>5 DEF totalThreads
<1>14. \A v \in WsIds : IsLate(n, v)' <=> IsLate(n, v)
  BY <1>2, <1>5, <1>6 DEF IsLate, Late
<1>15. arrived'[n] = Cardinality(First(n)') + Cardinality(Second(n)') + Cardinality(Third(n)')
  <2>1. arrived[n] = Cardinality(First(n)) + Cardinality(Second(n)) + Cardinality(Third(n))
    BY <1>1 DEF BarrierOf
  <2>2. /\ Cardinality(First(n)) \in Nat /\ Cardinality(Second(n)) \in Nat
        /\ Cardinality(Third(n)) \in Nat /\ IsFiniteSet(Third(n))
    BY <1>1, Counts
  <2>3. Cardinality(Third(n) \union {w}) = Cardinality(Third(n)) + 1
    BY <2>2, <1>3, OneMore
  <2> QED
    BY <1>8, <1>10, <1>11, <1>12, <2>1, <2>2, <2>3
<1>16. ASSUME NEW v \in plan'[n].threads
       PROVE  /\ pc'[n][v] \notin Early \union {"registered"} => First(n)' = plan'[n].threads
              /\ PastReady(n, v)' => Second(n)' \union Third(n)' = plan'[n].threads
              /\ pc'[n][v] = "registered" => gen'[n][v] = 0
              /\ pc'[n][v] \in {"ready", "start"} =>
                   /\ gen'[n][v] \in {1, 2}
                   /\ gen'[n][v] = 2 => arrived'[n] >= 2 * totalThreads(n)'
              /\ pc'[n][v] = "ready" => ~Skipped(n, v)'
  <2>1. v \in plan[n].threads /\ v \in WsIds
    BY <1>5, <1>7
  <2>2. First(n)' = plan'[n].threads
    BY <1>3, <1>5, <1>10
  <2>3. PastReady(n, v)' => PastReady(n, v)
    <3>1. pc'[n][v] = IF v = w THEN "start" ELSE pc[n][v]
      BY <1>6, <2>1
    <3> QED
      BY <1>2, <1>9, <3>1 DEF PastReady
  <2>4. PastReady(n, v)' => Second(n)' \union Third(n)' = plan'[n].threads
    <3>1. PastReady(n, v) => Second(n) \union Third(n) = plan[n].threads
      BY <1>1, <2>1 DEF BarrierOf
    <3> QED
      BY <1>2, <1>5, <1>11, <1>12, <2>3, <3>1
  <2>5. CASE v # w
    <3>1. pc'[n][v] = pc[n][v] /\ gen'[n][v] = gen[n][v]
      BY <1>6, <1>8, <2>1, <2>5
    <3>2. pc'[n][v] = "registered" => gen'[n][v] = 0
      BY <1>1, <2>1, <3>1 DEF BarrierOf
    <3>3. pc[n][v] \in {"ready", "start"} =>
             /\ gen[n][v] \in {1, 2}
             /\ gen[n][v] = 2 => arrived[n] >= 2 * totalThreads(n)
      BY <1>1, <2>1 DEF BarrierOf
    <3>4. arrived[n] >= 2 * totalThreads(n) => arrived'[n] >= 2 * totalThreads(n)'
      BY <1>4, <1>8, <1>13
    <3>5. pc'[n][v] = "ready" => ~Skipped(n, v)'
      BY <1>1, <1>9, <2>1, <3>1 DEF BarrierOf
    <3> QED
      BY <2>2, <2>4, <3>1, <3>2, <3>3, <3>4, <3>5
  <2>6. CASE v = w
    <3>1. pc'[n][v] = "start" /\ gen'[n][v] = generation(n)
      BY <1>6, <1>8, <2>1, <2>6
    <3>2. generation(n) = 2 => arrived'[n] >= 2 * totalThreads(n)'
      BY <1>4, <1>8, <1>13
    <3> QED
      BY <1>4, <2>2, <2>4, <3>1, <3>2
  <2> QED
    BY <2>5, <2>6
<1>17. ASSUME NEW v \in WsIds
       PROVE  /\ mem_reg_'[n][v] = IF IsLate(n, v)' THEN MemReg(n, v)' ELSE None
              /\ served'[n][v] = IF IsLate(n, v)' THEN Serves(n, v)' ELSE {}
  BY <1>1, <1>5, <1>9, <1>14 DEF BarrierOf
<1>18. active_ws_id_'[n] = First(n)'
  BY <1>1, <1>5, <1>10 DEF BarrierOf
<1>19. BarrierOf(n)'
  BY <1>15, <1>16, <1>17, <1>18 DEF BarrierOf
<1>20. BarrierStep(n, w)
  BY DEF BarrierStep
<1>21. Places' /\ Fixed'
  BY <1>4, <1>5, <1>20, PlacesKept
<1>22. \A m \in Node : BarrierOf(m)'
  BY <1>19, <1>20, OtherNode
<1> QED
  BY <1>21, <1>22 DEF BInv

\* What set_mem_reg and set_dispatcher_config find, when all have registered.
LEMMA ConfigureMeans ==
  ASSUME BInv, NEW n \in Node, NEW w \in WsIds, Configure(n, w)
  PROVE  /\ w \in plan[n].threads /\ pc[n][w] = "configure" /\ First(n) = plan[n].threads
         /\ plan' = plan /\ active_ws_id_' = active_ws_id_
         /\ IF Skipped(n, w) THEN Go(n, w, "init") /\ UNCHANGED <<arrived, gen>>
                             ELSE Go(n, w, "ready") /\ Wait(n, w)
         /\ mem_reg_' = [mem_reg_ EXCEPT ![n][w] = MemReg(n, w)]
         /\ served' = [served EXCEPT ![n][w] = Serves(n, w)]
<1>1. Places /\ Fixed /\ BarrierOf(n) /\ PlanOK(plan[n])
  BY FixedPlans DEF BInv
<1>2. w \in plan[n].threads /\ pc[n][w] = "configure"
  BY DEF Configure, Step, At
<1>3. First(n) = plan[n].threads /\ active_ws_id_[n] = plan[n].threads
  BY <1>1, <1>2 DEF BarrierOf, Early
<1>4. /\ active_ws_id_[n] \intersect plan[n].dispatchers = plan[n].dispatchers
      /\ active_ws_id_[n] \intersect plan[n].workers = plan[n].workers
  BY <1>1, <1>3 DEF PlanOK
<1>5. AssignedTo(n, w) = Assigned(n, w)
  BY <1>4 DEF AssignedTo, Assigned
<1> DEFINE noMemReg == w \in plan[n].workers /\ plan[n].home[w] \notin plan[n].dispatchers
           serves == w \in plan[n].dispatchers /\ ~noMemReg
<1>6. /\ noMemReg <=> ~HasHome(n, w)
      /\ noMemReg \/ (serves /\ Assigned(n, w) = {}) <=> Skipped(n, w)
  BY DEF HasHome, Skipped
<1>7. /\ IF noMemReg \/ (serves /\ Assigned(n, w) = {})
           THEN Step(n, w, "configure", "init") /\ UNCHANGED <<arrived, gen>>
           ELSE Step(n, w, "configure", "ready") /\ Wait(n, w)
      /\ mem_reg_' = IF w \in plan[n].workers /\ ~noMemReg
                       THEN [mem_reg_ EXCEPT ![n][w] = plan[n].home[w]] ELSE mem_reg_
      /\ served' = IF serves THEN [served EXCEPT ![n][w] = Assigned(n, w)] ELSE served
      /\ UNCHANGED <<fixed, active_ws_id_>>
  BY <1>4, <1>5 DEF Configure
<1>8. IF Skipped(n, w) THEN Go(n, w, "init") /\ UNCHANGED <<arrived, gen>>
                       ELSE Go(n, w, "ready") /\ Wait(n, w)
  BY <1>6, <1>7 DEF Step
<1>9. ~IsLate(n, w)
  BY <1>2 DEF IsLate, Late
<1>10. mem_reg_[n][w] = None /\ served[n][w] = {}
  BY <1>1, <1>9 DEF BarrierOf
<1>11. mem_reg_' = [mem_reg_ EXCEPT ![n][w] = MemReg(n, w)]
  <2>1. CASE w \in plan[n].workers /\ ~noMemReg
    BY <1>6, <1>7, <2>1 DEF MemReg
  <2>2. CASE ~(w \in plan[n].workers /\ ~noMemReg)
    <3>1. MemReg(n, w) = mem_reg_[n][w] /\ mem_reg_' = mem_reg_
      BY <1>6, <1>7, <1>10, <2>2 DEF MemReg
    <3> QED
      BY <1>1, <3>1 DEF Places
  <2> QED
    BY <2>1, <2>2
<1>12. served' = [served EXCEPT ![n][w] = Serves(n, w)]
  <2>1. CASE serves
    BY <1>6, <1>7, <2>1 DEF Serves
  <2>2. CASE ~serves
    <3>1. Serves(n, w) = served[n][w] /\ served' = served
      BY <1>6, <1>7, <1>10, <2>2 DEF Serves
    <3> QED
      BY <1>1, <3>1 DEF Places
  <2> QED
    BY <2>1, <2>2
<1> QED
  BY <1>2, <1>3, <1>7, <1>8, <1>11, <1>12 DEF fixed

\* Phase 2 of the constructor keeps the invariant: a workspace that goes on to the
\* last wait() has come the second time, one that returns early has not.
LEMMA ConfigureKeeps ==
  ASSUME BInv, NEW n \in Node, NEW w \in WsIds, Configure(n, w)
  PROVE  BInv'
<1> DEFINE there == IF Skipped(n, w) THEN "init" ELSE "ready"
<1>1. Places /\ Fixed /\ BarrierOf(n) /\ PlanOK(plan[n])
  BY FixedPlans DEF BInv
<1>2. /\ w \in plan[n].threads /\ pc[n][w] = "configure" /\ First(n) = plan[n].threads
      /\ plan' = plan /\ active_ws_id_' = active_ws_id_
  BY ConfigureMeans
<1>3. w \notin Second(n) /\ w \notin Third(n)
  BY <1>2 DEF Second, Third, Late
<1>4. /\ generation(n) \in {1, 2} /\ arrived[n] \in Nat /\ totalThreads(n) \in Nat
      /\ generation(n) = 2 => arrived[n] >= 2 * totalThreads(n)
  BY <1>2, <1>3, GenerationSeen
<1>5. Go(n, w, there)
  BY ConfigureMeans
<1>6. \A v \in WsIds : pc'[n][v] = IF v = w THEN there ELSE pc[n][v]
  BY <1>1, <1>5, Moved
<1>7. \A v \in plan[n].threads : v \in WsIds
  BY <1>1, Ids
<1>8. there \in {"init", "ready"} /\ (there = "ready" <=> ~Skipped(n, w))
  OBVIOUS
<1> HIDE DEF there
<1>9. /\ Skipped(n, w) => arrived' = arrived /\ gen' = gen
      /\ ~Skipped(n, w) =>
           /\ arrived'[n] = arrived[n] + 1
           /\ \A v \in WsIds : gen'[n][v] = IF v = w THEN generation(n) ELSE gen[n][v]
  BY <1>1, ConfigureMeans, Waited
<1>10. /\ \A v : HasHome(n, v)' <=> HasHome(n, v)
       /\ \A v : Skipped(n, v)' <=> Skipped(n, v)
       /\ \A v : MemReg(n, v)' = MemReg(n, v) /\ Serves(n, v)' = Serves(n, v)
  BY <1>2 DEF HasHome, Skipped, Assigned, MemReg, Serves
<1>11. First(n)' = First(n)
  BY <1>2, <1>6, <1>7, <1>8 DEF First, Early
<1>12. Second(n)' = IF Skipped(n, w) THEN Second(n) ELSE Second(n) \union {w}
  BY <1>2, <1>6, <1>7, <1>8, <1>10 DEF Second, Late
<1>13. Third(n)' = Third(n)
  BY <1>2, <1>6, <1>7, <1>8 DEF Third
<1>14. totalThreads(n)' = totalThreads(n)
  BY <1>2 DEF totalThreads
<1>15. arrived'[n] = Cardinality(First(n)') + Cardinality(Second(n)') + Cardinality(Third(n)')
  <2>1. arrived[n] = Cardinality(First(n)) + Cardinality(Second(n)) + Cardinality(Third(n))
    BY <1>1 DEF BarrierOf
  <2>2. /\ Cardinality(First(n)) \in Nat /\ Cardinality(Third(n)) \in Nat
        /\ Cardinality(Second(n)) \in Nat /\ IsFiniteSet(Second(n))
    BY <1>1, Counts
  <2>3. Cardinality(Second(n) \union {w}) = Cardinality(Second(n)) + 1
    BY <2>2, <1>3, OneMore
  <2> QED
    BY <1>9, <1>11, <1>12, <1>13, <2>1, <2>2, <2>3
<1>16. arrived[n] >= 2 * totalThreads(n) => arrived'[n] >= 2 * totalThreads(n)'
  BY <1>4, <1>9, <1>14
<1>17. ASSUME NEW v \in plan'[n].threads
       PROVE  /\ pc'[n][v] \notin Early \union {"registered"} => First(n)' = plan'[n].threads
              /\ PastReady(n, v)' => Second(n)' \union Third(n)' = plan'[n].threads
              /\ pc'[n][v] = "registered" => gen'[n][v] = 0
              /\ pc'[n][v] \in {"ready", "start"} =>
                   /\ gen'[n][v] \in {1, 2}
                   /\ gen'[n][v] = 2 => arrived'[n] >= 2 * totalThreads(n)'
              /\ pc'[n][v] = "ready" => ~Skipped(n, v)'
  <2>1. v \in plan[n].threads /\ v \in WsIds
    BY <1>2, <1>7
  <2>2. First(n)' = plan'[n].threads
    BY <1>2, <1>11
  <2>3. CASE v # w
    <3>1. pc'[n][v] = pc[n][v] /\ gen'[n][v] = gen[n][v]
      BY <1>6, <1>9, <2>1, <2>3
    <3>2. PastReady(n, v)' => PastReady(n, v)
      BY <1>10, <3>1 DEF PastReady
    <3>3. PastReady(n, v) => Second(n) \union Third(n) = plan[n].threads
      BY <1>1, <2>1 DEF BarrierOf
    <3>4. ~PastReady(n, v)
      BY <1>2, <1>3, <3>3
    <3>5. pc'[n][v] = "registered" => gen'[n][v] = 0
      BY <1>1, <2>1, <3>1 DEF BarrierOf
    <3>6. pc[n][v] \in {"ready", "start"} =>
             /\ gen[n][v] \in {1, 2}
             /\ gen[n][v] = 2 => arrived[n] >= 2 * totalThreads(n)
      BY <1>1, <2>1 DEF BarrierOf
    <3>7. pc'[n][v] = "ready" => ~Skipped(n, v)'
      BY <1>1, <1>10, <2>1, <3>1 DEF BarrierOf
    <3> QED
      BY <1>16, <2>2, <3>1, <3>2, <3>4, <3>5, <3>6, <3>7
  <2>4. CASE v = w
    <3>1. pc'[n][v] = there
      BY <1>6, <2>1, <2>4
    <3>2. ~PastReady(n, v)'
      BY <1>8, <1>10, <2>4, <3>1 DEF PastReady
    <3>3. pc'[n][v] \notin {"registered", "start"}
      BY <1>8, <3>1
    <3>4. pc'[n][v] = "ready" => gen'[n][v] = generation(n) /\ ~Skipped(n, v)'
      BY <1>8, <1>9, <1>10, <2>1, <2>4, <3>1
    <3> QED
      BY <1>4, <1>16, <2>2, <3>2, <3>3, <3>4
  <2> QED
    BY <2>3, <2>4
<1>18. ASSUME NEW v \in WsIds
       PROVE  /\ mem_reg_'[n][v] = IF IsLate(n, v)' THEN MemReg(n, v)' ELSE None
              /\ served'[n][v] = IF IsLate(n, v)' THEN Serves(n, v)' ELSE {}
  <2>1. mem_reg_'[n][v] = IF v = w THEN MemReg(n, w) ELSE mem_reg_[n][v]
    BY <1>1, ConfigureMeans DEF Places
  <2>2. served'[n][v] = IF v = w THEN Serves(n, w) ELSE served[n][v]
    BY <1>1, ConfigureMeans DEF Places
  <2>3. pc'[n][v] = IF v = w THEN there ELSE pc[n][v]
    BY <1>6
  <2>4. IsLate(n, v)' <=> v = w \/ IsLate(n, v)
    BY <1>2, <1>8, <2>3 DEF IsLate, Late
  <2> QED
    BY <1>1, <1>10, <2>1, <2>2, <2>4 DEF BarrierOf
<1>19. active_ws_id_'[n] = First(n)'
  BY <1>1, <1>2, <1>11 DEF BarrierOf
<1>20. BarrierOf(n)'
  BY <1>15, <1>17, <1>18, <1>19 DEF BarrierOf
<1>21. BarrierStep(n, w)
  BY DEF BarrierStep
<1>22. mem_reg_' = mem_reg_ \/ plan[n].home[w] \in Threads
  <2>1. CASE w \in plan[n].workers /\ HasHome(n, w)
    BY <1>1, <2>1 DEF HasHome, PlanOK
  <2>2. CASE ~(w \in plan[n].workers /\ HasHome(n, w))
    <3>1. MemReg(n, w) = None /\ ~IsLate(n, w)
      BY <1>2, <2>2 DEF MemReg, IsLate, Late
    <3>2. mem_reg_[n][w] = None
      BY <1>1, <3>1 DEF BarrierOf
    <3>3. mem_reg_' = [mem_reg_ EXCEPT ![n][w] = None]
      BY <3>1, ConfigureMeans
    <3> QED
      BY <1>1, <3>2, <3>3 DEF Places
  <2> QED
    BY <2>1, <2>2
<1>23. Places' /\ Fixed'
  <2>1. UNCHANGED <<arrived, gen>> \/ generation(n) \in 0..2
    BY <1>4
  <2> QED
    BY <1>21, <1>22, <2>1, PlacesKept
<1>24. \A m \in Node : BarrierOf(m)'
  BY <1>20, <1>21, OtherNode
<1> QED
  BY <1>23, <1>24 DEF BInv

\* The invariant of the barrier is inductive.
LEMMA BInvInductive == BInv /\ [Next]_vars => BInv'
<1> SUFFICES ASSUME BInv, [Next]_vars PROVE BInv'
  OBVIOUS
<1>1. ASSUME NEW n \in Node, NEW w \in WsIds, BarrierStep(n, w) PROVE BInv'
  <2>1. CASE PassRegistered(n, w) \/ PassReady(n, w) \/ PassStart(n, w)
    <3>1. \/ Pass(n, w, "registered", "configure")
          \/ Pass(n, w, "ready", "init")
          \/ Pass(n, w, "start", "running")
      BY <2>1 DEF PassRegistered, PassReady, PassStart
    <3> QED
      BY <1>1, <3>1, PassKeeps DEF Passes
  <2> QED
    BY <1>1, <2>1, RegisterKeeps, ConfigureKeeps, EnterLoopKeeps DEF BarrierStep
<1> QED
  BY <1>1, StepKinds, EarlyKeepsBInv

\* Of every node and configuration: the barrier lets nobody look for its dispatcher
\* or its workers before all have registered, nor into the loop before all have
\* found theirs, though some workspaces come once less than others
\* (workspace.cc:33-98).
THEOREM BarrierInvariant == Spec => []BInv
BY InitBInv, BInvInductive, PTL DEF Spec

-----------------------------------------------------------------------------
(* Workspace queues have one dispatcher *)

\* From the barrier's invariant.
LEMMA OneDispatcher == BInv => QueuesHaveOneDispatcher
<1> SUFFICES ASSUME BInv, NEW n \in Node, NEW w \in plan[n].workers
             PROVE  LET users == {d \in WsIds : w \in served[n][d]}
                    IN  /\ Cardinality(users) <= 1
                        /\ mem_reg_[n][w] # None => users \subseteq {mem_reg_[n][w]}
                        /\ plan[n].whole /\ pc[n][w] = "running" => users = {mem_reg_[n][w]}
  BY DEF QueuesHaveOneDispatcher
<1> DEFINE users == {d \in WsIds : w \in served[n][d]}
           home == plan[n].home[w]
<1>1. Places /\ Fixed /\ BarrierOf(n) /\ PlanOK(plan[n])
  BY FixedPlans DEF BInv
<1>2. w \in plan[n].threads /\ w \in WsIds
  BY <1>1, Ids DEF PlanOK
<1>3. users \subseteq {home}
  <2>1. ASSUME NEW d \in WsIds, w \in served[n][d] PROVE d = home
    <3>1. served[n][d] = IF IsLate(n, d) THEN Serves(n, d) ELSE {}
      BY <1>1 DEF BarrierOf
    <3>2. w \in Serves(n, d)
      BY <2>1, <3>1
    <3>3. w \in Assigned(n, d)
      BY <3>2 DEF Serves
    <3> QED
      BY <3>3 DEF Assigned
  <2> QED
    BY <2>1
<1>4. Cardinality(users) <= 1
  <2>1. Cardinality({home}) = 1 /\ IsFiniteSet({home})
    BY FS_Singleton
  <2> HIDE DEF users, home
  <2>2. Cardinality(users) <= Cardinality({home})
    BY <1>3, <2>1, FS_Subset
  <2> QED
    BY <2>1, <2>2
<1>5. mem_reg_[n][w] # None => mem_reg_[n][w] = home
  BY <1>1, <1>2 DEF BarrierOf, MemReg
<1>6. ASSUME plan[n].whole, pc[n][w] = "running" PROVE users = {mem_reg_[n][w]}
  <2>1. Second(n) \union Third(n) = plan[n].threads
    BY <1>1, <1>2, <1>6 DEF BarrierOf, PastReady
  <2>2. home \in plan[n].dispatchers /\ home \in plan[n].threads /\ home \in WsIds
    <3>1. plan[n] = Plan(deploy.lines[n]) /\ deploy.lines[n] \in Seq(Line)
      BY <1>1, StartupAssumption DEF Fixed
    <3>2. home \in plan[n].dispatchers
      BY <3>1, <1>6, WholeHomes
    <3> QED
      BY <1>1, <3>2, Ids DEF PlanOK
  <2>3. IsLate(n, home) /\ IsLate(n, w)
    BY <1>2, <1>6, <2>1, <2>2 DEF Second, Third, IsLate, Late
  <2>4. HasHome(n, home)
    <3>1. home \in plan[n].workers => plan[n].home[home] \in plan[n].dispatchers
      <4>1. plan[n] = Plan(deploy.lines[n]) /\ deploy.lines[n] \in Seq(Line)
        BY <1>1, StartupAssumption DEF Fixed
      <4> QED
        BY <4>1, <1>6, WholeHomes
    <3> QED
      BY <3>1 DEF HasHome
  <2>5. served[n][home] = Assigned(n, home)
    BY <1>1, <2>2, <2>3, <2>4 DEF BarrierOf, Serves
  <2>6. home \in users
    BY <2>2, <2>5 DEF Assigned
  <2>7. mem_reg_[n][w] = home
    BY <1>1, <1>2, <2>2, <2>3 DEF BarrierOf, MemReg, HasHome
  <2> QED
    BY <1>3, <2>6, <2>7
<1> QED
  BY <1>3, <1>4, <1>5, <1>6

\* A worker's queues are used by one dispatcher only, whatever the configuration
\* and the order of the threads, and that is the one the worker takes its buffers
\* from (workspace.cc:64, 127-149).
THEOREM QueuesHaveOneDispatcherAlways == Spec => []QueuesHaveOneDispatcher
BY BarrierInvariant, OneDispatcher, PTL

-----------------------------------------------------------------------------
(* Queue pairs, sockets and messages: which steps change what *)

ChangesDpdk == \E n \in Node, d \in WsIds : AcquireQp(n, d) \/ OffloadFlowRules(n, d)

\* The actions of the connections, other than the end of a process.
Talks(d) ==
  \/ Listen(d) \/ Accept(d) \/ ReceiveFromClient(d)
  \/ CreateSocket(d) \/ connectToServer(d) \/ SendToServer(d)
  \/ BeginRead(d) \/ ReceiveFromServer(d) \/ DestroyClient(d)

\* No thread comes to one of the places of the connections.
Elsewhere ==
  \/ pc' = pc
  \/ \E n \in Node, w \in WsIds,
        there \in {"flow", "built", "registered", "configure"} \union Late :
       pc' = [pc EXCEPT ![n][w] = there]

ChangesProcess == \E n \in Node : Start(n) \/ Die(n)

Effects ==
  /\ UNCHANGED dpdkVars \/ ChangesDpdk
  /\ (UNCHANGED tcpVars /\ Elsewhere) \/ \E d \in WsIds : Talks(d)
  /\ UNCHANGED process \/ ChangesProcess
  /\ UNCHANGED call \/ \E w \in WsIds : Calling(w)

\* The end of a process.
LEMMA DieEffects == ASSUME NEW n \in Node, Die(n), UNCHANGED call PROVE Effects
BY DEF Die, Effects, Elsewhere, threadVars, ChangesProcess

\* Connecting.
LEMMA ConnectingEffects == ASSUME NEW d \in WsIds, Connecting(d) PROVE Effects
<1>1. CASE ClientVanished(d) \/ ConnectFails(d) \/ SendKills(d) \/ ReadFails(d)
  <2>1. (Die("server") \/ Die("client")) /\ UNCHANGED call
    BY <1>1 DEF ClientVanished, ConnectFails, SendKills, ReadFails
  <2> QED
    BY <2>1, DieEffects DEF Node
<1>2. CASE Talks(d)
  <2>1. UNCHANGED <<process, dpdkVars, call>>
    BY <1>2 DEF Talks, Listen, Accept, ReceiveFromClient, CreateSocket, connectToServer,
                SendToServer, BeginRead, ReceiveFromServer, DestroyClient
  <2> QED
    BY <1>2, <2>1 DEF Effects
<1> QED
  BY <1>1, <1>2 DEF Connecting, Talks

\* Launching.
LEMMA LaunchingEffects ==
  ASSUME NEW n \in Node, NEW w \in WsIds, Launching(n, w) PROVE Effects
<1>1. CASE AcquireQp(n, w) \/ OffloadFlowRules(n, w)
  <2>1. ChangesDpdk
    BY <1>1 DEF ChangesDpdk
  <2>2. UNCHANGED <<process, tcpVars, call>>
    BY <1>1 DEF AcquireQp, OffloadFlowRules
  <2>3. Elsewhere
    BY <1>1 DEF AcquireQp, OffloadFlowRules, Step, Go, Elsewhere
  <2> QED
    BY <2>1, <2>2, <2>3 DEF Effects
<1>2. CASE NoQpLeft(n, w) \/ ApplyWithoutMemReg(n, w)
  <2>1. Die(n) /\ UNCHANGED call
    BY <1>2 DEF NoQpLeft, ApplyWithoutMemReg
  <2> QED
    BY <2>1, DieEffects
<1>3. CASE BarrierStep(n, w)
  <2>1. PICK there \in {"registered", "configure"} \union Late : Go(n, w, there)
    BY <1>3, BarrierStepMoves
  <2>2. Elsewhere
    BY <2>1 DEF Go, Elsewhere
  <2>3. UNCHANGED <<process, dpdkVars, tcpVars, call>>
    BY <1>3 DEF BarrierStep, Register, Configure, EnterLoop, PassRegistered, PassReady,
                PassStart, Pass
  <2> QED
    BY <2>2, <2>3 DEF Effects
<1> QED
  BY <1>1, <1>2, <1>3 DEF Launching, BarrierStep

\* The first message.
LEMMA CallingEffects == ASSUME NEW w \in WsIds, Calling(w) PROVE Effects
<1>1. CASE NoRoute(w)
  <2>1. \E n \in Node : Die(n)
    BY <1>1 DEF NoRoute, Receiver, Sender, Peer, Node
  <2>2. UNCHANGED <<dpdkVars, tcpVars>> /\ Elsewhere
    BY <2>1 DEF Die, Elsewhere, threadVars
  <2> QED
    BY <1>1, <2>1, <2>2 DEF Effects, ChangesProcess, Calling
<1>2. CASE Request(w) \/ Deliver(w) \/ Dispatch(w) \/ Respond(w) \/ TakeResponse(w)
  <2>1. UNCHANGED <<process, dpdkVars, tcpVars>> /\ pc' = pc
    BY <1>2 DEF Request, Deliver, Dispatch, Respond, TakeResponse, Emit, threadVars
  <2> QED
    BY <1>2, <2>1 DEF Effects, Elsewhere, Calling
<1> QED
  BY <1>1, <1>2 DEF Calling

\* All steps.
LEMMA NextEffects == [Next]_vars => Effects
<1> SUFFICES ASSUME [Next]_vars PROVE Effects
  OBVIOUS
<1>1. CASE UNCHANGED vars
  BY <1>1 DEF vars, Effects, Elsewhere, threadVars
<1>2. ASSUME NEW n \in Node, Start(n) PROVE Effects
  BY <1>2 DEF Start, Effects, Elsewhere, threadVars, ChangesProcess
<1> QED
  BY <1>1, <1>2, LaunchingEffects, ConnectingEffects, CallingEffects DEF Next

\* The configuration stays as it is.
LEMMA PlanKept == ASSUME [Next]_vars PROVE deploy' = deploy /\ plan' = plan
<1>1. CASE EarlyStep
  BY <1>1 DEF EarlyStep, fixed
<1>2. ASSUME NEW n \in Node, NEW w \in WsIds, BarrierStep(n, w)
      PROVE  deploy' = deploy /\ plan' = plan
  BY <1>2, BarrierStepMoves DEF fixed
<1> QED
  BY <1>1, <1>2, StepKinds

\* A thread never comes back to the beginning of its constructor.
LEMMA NeverBack ==
  ASSUME Places, [Next]_vars, NEW n \in Node, NEW d \in WsIds, pc'[n][d] = "construct"
  PROVE  pc[n][d] = "construct"
<1>1. CASE EarlyStep
  <2>1. ASSUME NEW m \in Node, NEW w \in WsIds, NEW there \in Early \ {"construct"},
               pc' = [pc EXCEPT ![m][w] = there]
        PROVE  pc[n][d] = "construct"
    <3>1. pc'[n][d] = IF n = m /\ d = w THEN there ELSE pc[n][d]
      BY <2>1 DEF Places
    <3> QED
      BY <3>1
  <2> QED
    BY <1>1, <2>1 DEF EarlyStep
<1>2. ASSUME NEW m \in Node, NEW w \in WsIds, BarrierStep(m, w)
      PROVE  pc[n][d] = "construct"
  <2>1. PICK there \in {"registered", "configure"} \union Late : Go(m, w, there)
    BY <1>2, BarrierStepMoves
  <2>2. pc'[n][d] = IF n = m /\ d = w THEN there ELSE pc[n][d]
    BY <2>1 DEF Places, Go
  <2> QED
    BY <2>2 DEF Late
<1> QED
  BY <1>1, <1>2, StepKinds

-----------------------------------------------------------------------------
(* A DPDK queue pair belongs to one dispatcher *)

\* DPDK.
DpdkOK ==
  /\ qp_id_ \in [Node -> [WsIds -> Qps \union {NoQp}]]
  /\ flow \in [Node -> [WsIds -> Qps \union {NoQp}]]
  /\ \A n \in Node : \A d, e \in WsIds :
       /\ pc[n][d] = "construct" => qp_id_[n][d] = NoQp
       /\ qp_id_[n][d] = qp_id_[n][e] /\ d # e => qp_id_[n][d] = NoQp
       /\ qp_id_[n][d] # NoQp => qp_id_[n][d] < deploy.queues[n]
       /\ flow[n][d] \in {NoQp, qp_id_[n][d]}

\* DPDK's invariant is inductive, with the barrier's.
LEMMA DpdkOKInductive == BInv /\ DpdkOK /\ [Next]_vars => DpdkOK'
<1> SUFFICES ASSUME BInv, DpdkOK, [Next]_vars PROVE DpdkOK'
  OBVIOUS
<1>1. Places /\ deploy' = deploy
  <2>1. CASE EarlyStep
    BY <2>1 DEF EarlyStep, fixed, BInv
  <2>2. ASSUME NEW n \in Node, NEW w \in WsIds, BarrierStep(n, w) PROVE deploy' = deploy
    BY <2>2, BarrierStepMoves DEF fixed
  <2> QED
    BY <2>1, <2>2, StepKinds DEF BInv
<1>2. \A n \in Node, d \in WsIds : pc'[n][d] = "construct" => pc[n][d] = "construct"
  BY <1>1, NeverBack
<1>3. CASE UNCHANGED dpdkVars
  BY <1>1, <1>2, <1>3 DEF DpdkOK, dpdkVars
<1>4. ASSUME NEW n \in Node, NEW d \in WsIds, AcquireQp(n, d) PROVE DpdkOK'
  <2>1. PICK q \in get_qp(n) : q < deploy.queues[n] /\ qp_id_' = [qp_id_ EXCEPT ![n][d] = q]
    BY <1>4 DEF AcquireQp
  <2>2. /\ pc[n][d] = "construct" /\ pc' = [pc EXCEPT ![n][d] = "flow"] /\ flow' = flow
    BY <1>4 DEF AcquireQp, Step, At, Go
  <2>3. q \in Qps /\ \A e \in WsIds : qp_id_[n][e] # q
    BY <2>1 DEF get_qp
  <2>4. qp_id_' \in [Node -> [WsIds -> Qps \union {NoQp}]]
    BY <2>1, <2>3 DEF DpdkOK
  <2>5. \A m \in Node, e \in WsIds :
          qp_id_'[m][e] = IF m = n /\ e = d THEN q ELSE qp_id_[m][e]
    BY <2>1 DEF DpdkOK
  <2>6. pc'[n][d] = "flow"
    BY <1>1, <2>2 DEF Places
  <2>7. flow[n][d] = NoQp
    BY <2>2 DEF DpdkOK
  <2>8. ASSUME NEW m \in Node, NEW e \in WsIds, NEW f \in WsIds
        PROVE  /\ pc'[m][e] = "construct" => qp_id_'[m][e] = NoQp
               /\ qp_id_'[m][e] = qp_id_'[m][f] /\ e # f => qp_id_'[m][e] = NoQp
               /\ qp_id_'[m][e] # NoQp => qp_id_'[m][e] < deploy'.queues[m]
               /\ flow'[m][e] \in {NoQp, qp_id_'[m][e]}
    <3>1. pc'[m][e] = "construct" => qp_id_'[m][e] = NoQp
      BY <1>2, <2>5, <2>6 DEF DpdkOK
    <3>2. qp_id_'[m][e] = qp_id_'[m][f] /\ e # f => qp_id_'[m][e] = NoQp
      BY <2>3, <2>5 DEF DpdkOK
    <3>3. qp_id_'[m][e] # NoQp => qp_id_'[m][e] < deploy'.queues[m]
      BY <1>1, <2>1, <2>5 DEF DpdkOK
    <3>4. flow'[m][e] \in {NoQp, qp_id_'[m][e]}
      BY <2>2, <2>5, <2>7 DEF DpdkOK
    <3> QED
      BY <3>1, <3>2, <3>3, <3>4
  <2>9. flow' \in [Node -> [WsIds -> Qps \union {NoQp}]]
    BY <2>2 DEF DpdkOK
  <2> QED
    BY <2>4, <2>8, <2>9 DEF DpdkOK
<1>5. ASSUME NEW n \in Node, NEW d \in WsIds, OffloadFlowRules(n, d) PROVE DpdkOK'
  <2>1. qp_id_' = qp_id_ /\ flow' = [flow EXCEPT ![n][d] = qp_id_[n][d]]
    BY <1>5 DEF OffloadFlowRules
  <2>2. qp_id_[n][d] \in Qps \union {NoQp}
    BY DEF DpdkOK
  <2>3. flow' \in [Node -> [WsIds -> Qps \union {NoQp}]]
    BY <2>1, <2>2 DEF DpdkOK
  <2>4. \A m \in Node, e \in WsIds :
          flow'[m][e] = IF m = n /\ e = d THEN qp_id_[m][e] ELSE flow[m][e]
    BY <2>1 DEF DpdkOK
  <2> QED
    BY <1>1, <1>2, <2>1, <2>3, <2>4 DEF DpdkOK
<1> QED
  BY <1>3, <1>4, <1>5, NextEffects DEF Effects, ChangesDpdk

-----------------------------------------------------------------------------
(* Where the threads are when they talk over the connections *)

\* The places of the connections; those where a client dispatcher has not been
\* answered; those where its next call names its descriptor.
Talking == {"construct", "listening", "accepted", "socket", "connected", "sent", "reading",
            "disconnected"}
Young == {"construct", "socket", "connected", "sent", "reading"}
Using == {"socket", "connected", "sent"}

\* One thread moves, the others stay.
LEMMA OneMoves ==
  ASSUME Places, NEW n \in Node, NEW w \in WsIds, NEW here, NEW there, Step(n, w, here, there)
  PROVE  /\ pc[n][w] = here
         /\ \A m \in Node, e \in WsIds :
              pc'[m][e] = IF m = n /\ e = w THEN there ELSE pc[m][e]
BY DEF Places, Step, At, Go

\* A thread comes to a place of the connections by the action that leads there,
\* and never comes back.
KeepsPlace(n, e) ==
  /\ pc'[n][e] = "construct" => pc[n][e] = "construct"
  /\ pc'[n][e] \in {"construct", "listening"} => pc[n][e] \in {"construct", "listening"}
  /\ pc'[n][e] \in {"construct", "socket", "connected"}
       => pc[n][e] \in {"construct", "socket", "connected"}
  /\ n = "client" /\ pc'[n][e] \in Using => pc[n][e] \in Using \/ CreateSocket(e)
  /\ n = "client" /\ pc'[n][e] = "reading" => pc[n][e] = "reading" \/ BeginRead(e)
  /\ pc[n][e] \notin Young => pc'[n][e] \notin Young

LEMMA TalkPlaces ==
  ASSUME Places, NEW d \in WsIds, Talks(d), NEW n \in Node, NEW e \in WsIds
  PROVE  KeepsPlace(n, e)
<1>0. "client" \in Node /\ "server" \in Node /\ "client" # "server"
  BY DEF Node
<1>1. CASE Listen(d)
  BY <1>0, <1>1, OneMoves DEF Listen, KeepsPlace, Using, Young
<1>2. CASE Accept(d)
  BY <1>0, <1>2, OneMoves DEF Accept, KeepsPlace, Using, Young
<1>3. CASE ReceiveFromClient(d)
  BY <1>0, <1>3, OneMoves DEF ReceiveFromClient, KeepsPlace, Using, Young
<1>4. CASE CreateSocket(d)
  <2>1. Step("client", d, "construct", "socket")
    BY <1>4 DEF CreateSocket
  <2>2. /\ pc["client"][d] = "construct"
        /\ pc'[n][e] = IF n = "client" /\ e = d THEN "socket" ELSE pc[n][e]
    BY <1>0, <2>1, OneMoves
  <2> QED
    BY <1>4, <2>2 DEF KeepsPlace, Using, Young
<1>5. CASE connectToServer(d)
  BY <1>0, <1>5, OneMoves DEF connectToServer, KeepsPlace, Using, Young
<1>6. CASE SendToServer(d)
  BY <1>0, <1>6, OneMoves DEF SendToServer, KeepsPlace, Using, Young
<1>7. CASE BeginRead(d)
  <2>1. Step("client", d, "sent", "reading")
    BY <1>7 DEF BeginRead
  <2>2. /\ pc["client"][d] = "sent"
        /\ pc'[n][e] = IF n = "client" /\ e = d THEN "reading" ELSE pc[n][e]
    BY <1>0, <2>1, OneMoves
  <2> QED
    BY <1>7, <2>2 DEF KeepsPlace, Using, Young
<1>8. CASE ReceiveFromServer(d)
  BY <1>0, <1>8, OneMoves DEF ReceiveFromServer, KeepsPlace, Using, Young
<1>9. CASE DestroyClient(d)
  BY <1>0, <1>9, OneMoves DEF DestroyClient, KeepsPlace, Using, Young
<1> QED
  BY <1>1, <1>2, <1>3, <1>4, <1>5, <1>6, <1>7, <1>8, <1>9 DEF Talks

\* So it is for every step.
LEMMA StepPlaces ==
  ASSUME Places, [Next]_vars PROVE \A n \in Node, e \in WsIds : KeepsPlace(n, e)
<1> SUFFICES ASSUME NEW n \in Node, NEW e \in WsIds PROVE KeepsPlace(n, e)
  OBVIOUS
<1>1. CASE Elsewhere
  <2> DEFINE Further == {"flow", "built", "registered", "configure"} \union Late
  <2>1. pc'[n][e] = pc[n][e] \/ pc'[n][e] \in Further
    <3>1. pc' = pc \/ \E m \in Node, w \in WsIds, there \in Further :
                        pc' = [pc EXCEPT ![m][w] = there]
      BY <1>1 DEF Elsewhere
    <3> HIDE DEF Further
    <3>2. ASSUME NEW m \in Node, NEW w \in WsIds, NEW there \in Further,
                 pc' = [pc EXCEPT ![m][w] = there]
          PROVE  pc'[n][e] = IF n = m /\ e = w THEN there ELSE pc[n][e]
      BY <3>2 DEF Places
    <3> QED
      BY <3>1, <3>2
  <2>2. CASE pc'[n][e] = pc[n][e]
    BY <2>2 DEF KeepsPlace
  <2>3. CASE pc'[n][e] \in Further
    BY <2>3 DEF KeepsPlace, Using, Young, Late
  <2> QED
    BY <2>1, <2>2, <2>3
<1> QED
  BY <1>1, TalkPlaces, NextEffects DEF Effects

-----------------------------------------------------------------------------
(* The sockets of the client *)

\* The sockets of the client: each belongs to a dispatcher that has created it, and
\* none has two descriptors; a dispatcher whose next call names one has one.
SocketsOK ==
  /\ fds \in [Fds -> WsIds \union {None}] /\ sockfd \in [WsIds -> Fds \union {0}]
  /\ \A f \in Fds : fds[f] # None => /\ fds[f] \in plan["client"].dispatchers
                                     /\ pc["client"][fds[f]] # "construct"
  /\ \A f, g \in Fds : f # g /\ fds[f] = fds[g] => fds[f] = None
  /\ \A d \in WsIds : pc["client"][d] \in Using =>
       sockfd[d] \in Fds /\ d \in plan["client"].dispatchers

\* socket() never fails for want of a descriptor: there are fewer sockets than
\* dispatchers, and a descriptor for every thread.
LEMMA FreeDescriptor ==
  ASSUME Fixed, SocketsOK, NEW d \in plan["client"].dispatchers, pc["client"][d] = "construct"
  PROVE  {f \in Fds : fds[f] = None} # {}
<1> SUFFICES ASSUME \A f \in Fds : fds[f] # None PROVE FALSE
  OBVIOUS
<1> DEFINE T == Threads \ {d}
<1>1. plan["client"].dispatchers \subseteq Threads /\ d \in Threads
  BY FixedPlans DEF PlanOK, Node
<1>2. \A f \in Fds : fds[f] \in T
  BY <1>1 DEF SocketsOK
<1>3. fds \in [Fds -> T] /\ \A f, g \in Fds : f # g => fds[f] # fds[g]
  BY <1>2 DEF SocketsOK
<1>4. IsFiniteSet(Threads) /\ Cardinality(Threads) = kWorkspaceMaxNum
  <2>1. kWorkspaceMaxNum - 1 \in Int /\ 0 \in Int /\ ~(0 > kWorkspaceMaxNum - 1)
        /\ kWorkspaceMaxNum - 1 - 0 + 1 = kWorkspaceMaxNum
    BY DeploymentAssumption
  <2> QED
    BY <2>1, FS_Interval DEF Threads
<1>5. IsFiniteSet(T) /\ Cardinality(T) = kWorkspaceMaxNum - 1
  BY <1>1, <1>4, FS_RemoveElement
<1>6. IsFiniteSet(Fds) /\ Cardinality(Fds) >= kWorkspaceMaxNum /\ Cardinality(Fds) \in Nat
  BY StartupAssumption, FS_CardinalityType
<1>7. Cardinality(T) < Cardinality(Fds)
  BY <1>5, <1>6, DeploymentAssumption
<1> HIDE DEF T
<1>8. \E f, g \in Fds : f # g /\ fds[f] = fds[g]
  BY <1>3, <1>5, <1>6, <1>7, FS_PigeonHole
<1> QED
  BY <1>3, <1>8

\* The lowest of them is what socket() returns.
LEMMA LowestDescriptor ==
  ASSUME NEW free \in SUBSET Fds, free # {}
  PROVE  (CHOOSE f \in free : \A g \in free : f <= g) \in free
<1>1. free \in SUBSET Nat
  BY StartupAssumption
<1>2. \E f \in free : \A g \in free : f <= g
  BY <1>1, NatMin
<1> QED
  BY <1>2

\* The sockets are created once and closed twice; the other steps leave them alone.
LEMMA SocketsOKInductive == BInv /\ SocketsOK /\ [Next]_vars => SocketsOK'
<1> SUFFICES ASSUME BInv, SocketsOK, [Next]_vars PROVE SocketsOK'
  OBVIOUS
<1>1. Places /\ Fixed /\ plan' = plan
  BY PlanKept DEF BInv
<1>2. \A d \in WsIds : KeepsPlace("client", d)
  BY <1>1, StepPlaces DEF Node
<1>3. plan["client"].dispatchers \subseteq WsIds
  BY <1>1, FixedPlans, Ids DEF PlanOK, Node
<1>4. ASSUME sockfd' = sockfd, \A d \in WsIds : ~CreateSocket(d)
      PROVE  \A d \in WsIds : pc'["client"][d] \in Using =>
               sockfd'[d] \in Fds /\ d \in plan'["client"].dispatchers
  BY <1>1, <1>2, <1>4 DEF SocketsOK, KeepsPlace
<1>5. CASE fds' = fds /\ sockfd' = sockfd /\ \A d \in WsIds : ~CreateSocket(d)
  BY <1>1, <1>2, <1>3, <1>4, <1>5 DEF SocketsOK, KeepsPlace
<1>6. ASSUME NEW d \in WsIds, Close(d), sockfd' = sockfd, \A e \in WsIds : ~CreateSocket(e)
      PROVE  SocketsOK'
  <2> DEFINE s == sockfd[d]
  <2>1. fds' = [fds EXCEPT ![s] = None]
    BY <1>6 DEF Close
  <2> HIDE DEF s
  <2>2. fds' \in [Fds -> WsIds \union {None}]
    BY <2>1 DEF SocketsOK
  <2>3. \A f \in Fds : fds'[f] = IF f = s THEN None ELSE fds[f]
    BY <2>1 DEF SocketsOK
  <2>4. \A f \in Fds : fds'[f] # None => /\ fds'[f] \in plan'["client"].dispatchers
                                         /\ pc'["client"][fds'[f]] # "construct"
    BY <1>1, <1>2, <1>3, <2>3 DEF SocketsOK, KeepsPlace
  <2>5. \A f, g \in Fds : f # g /\ fds'[f] = fds'[g] => fds'[f] = None
    BY <2>3 DEF SocketsOK
  <2>6. sockfd' \in [WsIds -> Fds \union {0}]
    BY <1>6 DEF SocketsOK
  <2> QED
    BY <1>4, <1>6, <2>2, <2>4, <2>5, <2>6 DEF SocketsOK
<1>7. ASSUME NEW d \in WsIds, CreateSocket(d) PROVE SocketsOK'
  <2> DEFINE free == {f \in Fds : fds[f] = None}
             lowest == CHOOSE f \in free : \A g \in free : f <= g
  <2>1. /\ d \in plan["client"].dispatchers /\ Step("client", d, "construct", "socket")
        /\ sockfd' = [sockfd EXCEPT ![d] = lowest] /\ fds' = [fds EXCEPT ![lowest] = d]
    BY <1>7 DEF CreateSocket, IsSide
  <2>2. /\ pc["client"][d] = "construct"
        /\ \A e \in WsIds : pc'["client"][e] = IF e = d THEN "socket" ELSE pc["client"][e]
    BY <1>1, <2>1, OneMoves DEF Node
  <2>3. lowest \in free
    <3>1. free # {} /\ free \in SUBSET Fds
      BY <1>1, <2>1, <2>2, FreeDescriptor
    <3> HIDE DEF free
    <3> QED
      BY <3>1, LowestDescriptor
  <2>4. lowest \in Fds /\ fds[lowest] = None
    BY <2>3
  <2> HIDE DEF free, lowest
  <2>5. fds' \in [Fds -> WsIds \union {None}] /\ sockfd' \in [WsIds -> Fds \union {0}]
    BY <2>1, <2>4 DEF SocketsOK
  <2>6. \A f \in Fds : fds'[f] = IF f = lowest THEN d ELSE fds[f]
    BY <2>1 DEF SocketsOK
  <2>7. \A f \in Fds : fds[f] # d
    BY <2>2, Ids DEF SocketsOK
  <2>8. ASSUME NEW f \in Fds, fds'[f] # None
        PROVE  fds'[f] \in plan'["client"].dispatchers /\ pc'["client"][fds'[f]] # "construct"
    BY <1>1, <1>3, <2>1, <2>2, <2>6, <2>8 DEF SocketsOK
  <2>9. \A f, g \in Fds : f # g /\ fds'[f] = fds'[g] => fds'[f] = None
    BY <2>6, <2>7 DEF SocketsOK
  <2>10. \A e \in WsIds : sockfd'[e] = IF e = d THEN lowest ELSE sockfd[e]
    BY <2>1 DEF SocketsOK
  <2>11. \A e \in WsIds : pc'["client"][e] \in Using =>
           sockfd'[e] \in Fds /\ e \in plan'["client"].dispatchers
    BY <1>1, <2>1, <2>2, <2>4, <2>10 DEF SocketsOK
  <2> QED
    BY <2>5, <2>8, <2>9, <2>11 DEF SocketsOK
<1>8. ASSUME NEW d \in WsIds, \/ Listen(d) \/ Accept(d) \/ ReceiveFromClient(d)
                              \/ connectToServer(d) \/ SendToServer(d) \/ BeginRead(d)
      PROVE  fds' = fds /\ sockfd' = sockfd
  BY <1>8 DEF Listen, Accept, ReceiveFromClient, connectToServer, SendToServer, BeginRead, tcpVars
<1>9. ASSUME NEW d \in WsIds, ReceiveFromServer(d) \/ DestroyClient(d)
      PROVE  Close(d) /\ sockfd' = sockfd
  BY <1>9 DEF ReceiveFromServer, DestroyClient
<1>10. CASE UNCHANGED tcpVars
  BY <1>5, <1>7, <1>10 DEF tcpVars
<1> QED
  BY <1>5, <1>6, <1>7, <1>8, <1>9, <1>10, NextEffects DEF Effects, Talks

-----------------------------------------------------------------------------
(* A number is read once *)

Messages == [toServer : Threads \union {None}, toClient : Threads \union {None}]

\* The types of what is sent over the connections; a client dispatcher that waits
\* for a message waits for one from a port.
ExchangeTypes ==
  /\ remote_qp_ \in [Node -> [WsIds -> Threads \union {None}]]
  /\ port \in [WsIds -> WsIds \union {None}]
  /\ reading \in [WsIds -> WsIds \union {None}]
  /\ conn \in [WsIds -> Messages]
  /\ \A d \in WsIds : pc["client"][d] = "reading" => reading[d] \in WsIds

\* A number of the server is on its way or with the one that has read it.
ClientGiven ==
  /\ \A p \in WsIds : conn[p].toClient \in {None, p}
  /\ \A p \in WsIds : pc["server"][p] \in {"construct", "listening"} =>
       conn[p].toClient = None /\ \A d \in WsIds : remote_qp_["client"][d] # p
  /\ \A p, d \in WsIds : conn[p].toClient = p => remote_qp_["client"][d] # p
  /\ \A d, e \in WsIds : remote_qp_["client"][d] = remote_qp_["client"][e] /\ d # e =>
       remote_qp_["client"][d] = None

\* A number of the client is sent once, over one connection.
ServerGiven ==
  /\ \A d, p \in WsIds : pc["client"][d] \in {"construct", "socket", "connected"} =>
       conn[p].toServer # d
  /\ \A p, q \in WsIds : conn[p].toServer = conn[q].toServer /\ p # q => conn[p].toServer = None
  /\ \A p \in WsIds : remote_qp_["server"][p] \in {None, conn[p].toServer}

\* Writing one field of one connection.
LEMMA WriteToClient ==
  ASSUME conn \in [WsIds -> Messages], NEW p \in WsIds, NEW x \in Threads \union {None},
         conn' = [conn EXCEPT ![p].toClient = x]
  PROVE  /\ conn' \in [WsIds -> Messages]
         /\ \A q \in WsIds : /\ conn'[q].toServer = conn[q].toServer
                            /\ conn'[q].toClient = IF q = p THEN x ELSE conn[q].toClient
<1>1. conn[p] \in Messages
  OBVIOUS
<1>2. [conn[p] EXCEPT !.toClient = x] \in Messages
  BY <1>1 DEF Messages
<1>3. \A q \in WsIds : conn'[q] = IF q = p THEN [conn[p] EXCEPT !.toClient = x] ELSE conn[q]
  OBVIOUS
<1>4. /\ [conn[p] EXCEPT !.toClient = x].toServer = conn[p].toServer
      /\ [conn[p] EXCEPT !.toClient = x].toClient = x
  BY <1>1 DEF Messages
<1>5. conn' \in [WsIds -> Messages]
  BY <1>2
<1> QED
  BY <1>3, <1>4, <1>5

LEMMA WriteToServer ==
  ASSUME conn \in [WsIds -> Messages], NEW p \in WsIds, NEW x \in Threads \union {None},
         conn' = [conn EXCEPT ![p].toServer = x]
  PROVE  /\ conn' \in [WsIds -> Messages]
         /\ \A q \in WsIds : /\ conn'[q].toClient = conn[q].toClient
                            /\ conn'[q].toServer = IF q = p THEN x ELSE conn[q].toServer
<1>1. conn[p] \in Messages
  OBVIOUS
<1>2. [conn[p] EXCEPT !.toServer = x] \in Messages
  BY <1>1 DEF Messages
<1>3. \A q \in WsIds : conn'[q] = IF q = p THEN [conn[p] EXCEPT !.toServer = x] ELSE conn[q]
  OBVIOUS
<1>4. /\ [conn[p] EXCEPT !.toServer = x].toClient = conn[p].toClient
      /\ [conn[p] EXCEPT !.toServer = x].toServer = x
  BY <1>1 DEF Messages
<1>5. conn' \in [WsIds -> Messages]
  BY <1>2
<1> QED
  BY <1>3, <1>4, <1>5

\* The sockets a dispatcher's calls act on.
LEMMA OwnerTyped ==
  ASSUME SocketsOK, NEW d \in WsIds, pc["client"][d] \in Using
  PROVE  /\ sockfd[d] \in Fds /\ Owner(d) \in WsIds \union {None}
         /\ Owner(d) # None => Owner(d) \in plan["client"].dispatchers
         /\ d \in plan["client"].dispatchers
BY DEF SocketsOK, Owner

\* What the steps do to what is sent and received.
Exchanges ==
  \/ UNCHANGED <<remote_qp_, conn>>
  \/ \E d \in plan["server"].dispatchers :
       /\ pc["server"][d] = "listening" /\ pc'["server"][d] = "accepted"
       /\ conn' = [conn EXCEPT ![d].toClient = d] /\ remote_qp_' = remote_qp_
  \/ \E d \in plan["server"].dispatchers :
       /\ remote_qp_' = [remote_qp_ EXCEPT !["server"][d] = conn[d].toServer]
       /\ conn' = conn
  \/ \E d \in plan["client"].dispatchers, p \in WsIds :
       /\ pc["client"][d] = "connected" /\ pc'["client"][d] = "sent"
       /\ p = port[Owner(d)] /\ Owner(d) # None /\ conn[p].toServer = None
       /\ conn' = [conn EXCEPT ![p].toServer = d] /\ remote_qp_' = remote_qp_
  \/ \E d \in plan["client"].dispatchers, p \in WsIds :
       /\ p = reading[d]
       /\ remote_qp_' = [remote_qp_ EXCEPT !["client"][d] = conn[p].toClient]
       /\ conn' = [conn EXCEPT ![p].toClient = None]

LEMMA NextExchanges ==
  ASSUME BInv, SocketsOK, ExchangeTypes, [Next]_vars PROVE Exchanges
<1>0. Places /\ "client" \in Node /\ "server" \in Node
  BY DEF BInv, Node
<1>1. CASE UNCHANGED tcpVars
  BY <1>1 DEF Exchanges, tcpVars
<1>2. ASSUME NEW d \in WsIds,
             Listen(d) \/ CreateSocket(d) \/ connectToServer(d) \/ BeginRead(d) \/ DestroyClient(d)
      PROVE  Exchanges
  <2>1. UNCHANGED <<remote_qp_, conn>>
    BY <1>2 DEF Listen, CreateSocket, connectToServer, BeginRead, DestroyClient, tcpVars
  <2> QED
    BY <2>1 DEF Exchanges
<1>3. ASSUME NEW d \in WsIds, Accept(d) PROVE Exchanges
  <2>1. /\ Step("server", d, "listening", "accepted") /\ d \in plan["server"].dispatchers
        /\ conn' = [conn EXCEPT ![d].toClient = d] /\ remote_qp_' = remote_qp_
    BY <1>3 DEF Accept, IsSide
  <2>2. pc["server"][d] = "listening" /\ pc'["server"][d] = "accepted"
    BY <1>0, <2>1, OneMoves
  <2> QED
    BY <2>1, <2>2 DEF Exchanges
<1>4. ASSUME NEW d \in WsIds, ReceiveFromClient(d) PROVE Exchanges
  BY <1>4 DEF ReceiveFromClient, IsSide, Exchanges
<1>5. ASSUME NEW d \in WsIds, SendToServer(d) PROVE Exchanges
  <2> DEFINE p == port[Owner(d)]
  <2>1. /\ Step("client", d, "connected", "sent") /\ d \in plan["client"].dispatchers
        /\ remote_qp_' = remote_qp_
        /\ conn' = IF Connected(d) /\ Listening(p) /\ conn[p].toServer = None
                     THEN [conn EXCEPT ![p].toServer = d] ELSE conn
    BY <1>5 DEF SendToServer, IsSide
  <2>2. pc["client"][d] = "connected" /\ pc'["client"][d] = "sent"
    BY <1>0, <2>1, OneMoves
  <2>3. CASE Connected(d) /\ Listening(p) /\ conn[p].toServer = None
    <3>1. Owner(d) # None /\ Owner(d) \in WsIds
      BY <2>2, <2>3, OwnerTyped DEF Connected, Using
    <3>2. p \in WsIds
      BY <2>3, <3>1 DEF Connected, ExchangeTypes
    <3>3. conn' = [conn EXCEPT ![p].toServer = d]
      BY <2>1, <2>3
    <3> QED
      BY <2>1, <2>2, <2>3, <3>1, <3>2, <3>3 DEF Exchanges
  <2>4. CASE ~(Connected(d) /\ Listening(p) /\ conn[p].toServer = None)
    BY <2>1, <2>4 DEF Exchanges
  <2> QED
    BY <2>3, <2>4
<1>6. ASSUME NEW d \in WsIds, ReceiveFromServer(d) PROVE Exchanges
  <2>1. /\ Step("client", d, "reading", "disconnected") /\ d \in plan["client"].dispatchers
        /\ remote_qp_' = [remote_qp_ EXCEPT !["client"][d] = conn[reading[d]].toClient]
        /\ conn' = [conn EXCEPT ![reading[d]].toClient = None]
    BY <1>6 DEF ReceiveFromServer, IsSide
  <2>2. reading[d] \in WsIds
    BY <1>0, <2>1, OneMoves DEF ExchangeTypes
  <2> QED
    BY <2>1, <2>2 DEF Exchanges
<1> QED
  BY <1>1, <1>2, <1>3, <1>4, <1>5, <1>6, NextEffects DEF Effects, Talks

\* The types are kept.
LEMMA ExchangeTypesInductive ==
  BInv /\ SocketsOK /\ ExchangeTypes /\ [Next]_vars => ExchangeTypes'
<1> SUFFICES ASSUME BInv, SocketsOK, ExchangeTypes, [Next]_vars PROVE ExchangeTypes'
  OBVIOUS
<1>1. Places /\ \A n \in Node : plan[n].dispatchers \subseteq Threads
  BY FixedPlans DEF BInv, PlanOK
<1>2. remote_qp_ \in [Node -> [WsIds -> Threads \union {None}]] /\ conn \in [WsIds -> Messages]
  BY DEF ExchangeTypes
<1>3. /\ remote_qp_' \in [Node -> [WsIds -> Threads \union {None}]]
      /\ conn' \in [WsIds -> Messages]
  <2>1. CASE UNCHANGED <<remote_qp_, conn>>
    BY <1>2, <2>1
  <2>2. ASSUME NEW d \in plan["server"].dispatchers,
               conn' = [conn EXCEPT ![d].toClient = d], remote_qp_' = remote_qp_
        PROVE  /\ remote_qp_' \in [Node -> [WsIds -> Threads \union {None}]]
               /\ conn' \in [WsIds -> Messages]
    <3>1. d \in Threads /\ d \in WsIds
      BY <1>1, Ids DEF Node
    <3> QED
      BY <1>2, <2>2, <3>1, WriteToClient
  <2>3. ASSUME NEW d \in plan["server"].dispatchers, conn' = conn,
               remote_qp_' = [remote_qp_ EXCEPT !["server"][d] = conn[d].toServer]
        PROVE  /\ remote_qp_' \in [Node -> [WsIds -> Threads \union {None}]]
               /\ conn' \in [WsIds -> Messages]
    <3>1. d \in WsIds
      BY <1>1, Ids DEF Node
    <3>2. conn[d].toServer \in Threads \union {None}
      BY <1>2, <3>1 DEF Messages
    <3> QED
      BY <1>2, <2>3, <3>1, <3>2
  <2>4. ASSUME NEW d \in plan["client"].dispatchers, NEW p \in WsIds,
               conn' = [conn EXCEPT ![p].toServer = d], remote_qp_' = remote_qp_
        PROVE  /\ remote_qp_' \in [Node -> [WsIds -> Threads \union {None}]]
               /\ conn' \in [WsIds -> Messages]
    <3>1. d \in Threads
      BY <1>1 DEF Node
    <3> QED
      BY <1>2, <2>4, <3>1, WriteToServer
  <2>5. ASSUME NEW d \in plan["client"].dispatchers, NEW p \in WsIds,
               conn' = [conn EXCEPT ![p].toClient = None],
               remote_qp_' = [remote_qp_ EXCEPT !["client"][d] = conn[p].toClient]
        PROVE  /\ remote_qp_' \in [Node -> [WsIds -> Threads \union {None}]]
               /\ conn' \in [WsIds -> Messages]
    <3>1. d \in WsIds
      BY <1>1, Ids DEF Node
    <3>2. conn[p].toClient \in Threads \union {None}
      BY <1>2 DEF Messages
    <3>3. conn' \in [WsIds -> Messages]
      BY <1>2, <2>5, WriteToClient
    <3> QED
      BY <1>2, <2>5, <3>1, <3>2, <3>3
  <2> QED
    BY <2>1, <2>2, <2>3, <2>4, <2>5, NextExchanges DEF Exchanges
<1>4. port' \in [WsIds -> WsIds \union {None}]
  <2>1. port' = port \/ \E d \in WsIds : port' = [port EXCEPT ![Owner(d)] = d]
    <3>1. ASSUME NEW d \in WsIds, Talks(d)
          PROVE  port' = port \/ port' = [port EXCEPT ![Owner(d)] = d]
      BY <3>1 DEF Talks, Listen, Accept, ReceiveFromClient, CreateSocket, connectToServer,
                  SendToServer, BeginRead, ReceiveFromServer, DestroyClient, tcpVars
    <3> QED
      BY <3>1, NextEffects DEF Effects, tcpVars
  <2> QED
    BY <2>1 DEF ExchangeTypes
<1>5. ASSUME reading' = reading, \A d \in WsIds : ~BeginRead(d)
      PROVE  /\ reading' \in [WsIds -> WsIds \union {None}]
             /\ \A d \in WsIds : pc'["client"][d] = "reading" => reading'[d] \in WsIds
  BY <1>1, <1>5, StepPlaces DEF ExchangeTypes, KeepsPlace, Node
<1>6. ASSUME NEW d \in WsIds, ReceiveFromServer(d)
      PROVE  /\ reading' \in [WsIds -> WsIds \union {None}]
             /\ \A e \in WsIds : pc'["client"][e] = "reading" => reading'[e] \in WsIds
  <2>1. /\ Step("client", d, "reading", "disconnected")
        /\ reading' = [reading EXCEPT ![d] = None]
    BY <1>6 DEF ReceiveFromServer
  <2>2. \A e \in WsIds : pc'["client"][e] = IF e = d THEN "disconnected" ELSE pc["client"][e]
    BY <1>1, <2>1, OneMoves DEF Node
  <2> QED
    BY <2>1, <2>2 DEF ExchangeTypes
<1>7. ASSUME NEW d \in WsIds, BeginRead(d)
      PROVE  /\ reading' \in [WsIds -> WsIds \union {None}]
             /\ \A e \in WsIds : pc'["client"][e] = "reading" => reading'[e] \in WsIds
  <2>1. /\ Step("client", d, "sent", "reading") /\ Connected(d)
        /\ reading' = [reading EXCEPT ![d] = port[Owner(d)]]
    BY <1>7 DEF BeginRead
  <2>2. /\ pc["client"][d] = "sent"
        /\ \A e \in WsIds : pc'["client"][e] = IF e = d THEN "reading" ELSE pc["client"][e]
    BY <1>1, <2>1, OneMoves DEF Node
  <2>3. port[Owner(d)] \in WsIds
    <3>1. Owner(d) \in WsIds
      BY <2>1, <2>2, OwnerTyped DEF Connected, Using
    <3> QED
      BY <2>1, <3>1 DEF Connected, ExchangeTypes
  <2> QED
    BY <2>1, <2>2, <2>3 DEF ExchangeTypes
<1>8. /\ reading' \in [WsIds -> WsIds \union {None}]
      /\ \A d \in WsIds : pc'["client"][d] = "reading" => reading'[d] \in WsIds
  <2>1. ASSUME NEW d \in WsIds, Talks(d)
        PROVE  reading' = reading \/ ReceiveFromServer(d) \/ BeginRead(d)
    BY <2>1 DEF Talks, Listen, Accept, ReceiveFromClient, CreateSocket, connectToServer,
                SendToServer, DestroyClient, tcpVars
  <2> QED
    BY <1>5, <1>6, <1>7, <2>1, NextEffects DEF Effects, tcpVars
<1> QED
  BY <1>3, <1>4, <1>8 DEF ExchangeTypes

\* The server's numbers: each is sent once, when the connection is accepted, and
\* whoever reads it takes it away.
LEMMA ClientGivenInductive ==
  BInv /\ SocketsOK /\ ExchangeTypes /\ ClientGiven /\ [Next]_vars => ClientGiven'
<1> SUFFICES ASSUME BInv, SocketsOK, ExchangeTypes, ClientGiven, [Next]_vars PROVE ClientGiven'
  OBVIOUS
<1>1. Places /\ \A n \in Node : plan[n].dispatchers \subseteq Threads
  BY FixedPlans DEF BInv, PlanOK
<1>2. remote_qp_ \in [Node -> [WsIds -> Threads \union {None}]] /\ conn \in [WsIds -> Messages]
  BY DEF ExchangeTypes
<1>3. \A p \in WsIds : pc'["server"][p] \in {"construct", "listening"} =>
                         pc["server"][p] \in {"construct", "listening"}
  BY <1>1, StepPlaces DEF KeepsPlace, Node
<1>4. None \notin WsIds /\ Threads \subseteq WsIds /\ "client" \in Node /\ "server" \in Node
  BY Ids DEF Node
<1>5. CASE /\ \A p \in WsIds : conn'[p].toClient = conn[p].toClient
           /\ \A d \in WsIds : remote_qp_'["client"][d] = remote_qp_["client"][d]
  BY <1>3, <1>5 DEF ClientGiven
<1>6. CASE UNCHANGED <<remote_qp_, conn>>
  BY <1>5, <1>6
<1>7. ASSUME NEW d \in plan["server"].dispatchers,
             pc["server"][d] = "listening", pc'["server"][d] = "accepted",
             conn' = [conn EXCEPT ![d].toClient = d], remote_qp_' = remote_qp_
      PROVE  ClientGiven'
  <2>1. d \in Threads /\ d \in WsIds
    BY <1>1, <1>4
  <2>2. \A q \in WsIds : conn'[q].toClient = IF q = d THEN d ELSE conn[q].toClient
    BY <1>2, <1>7, <2>1, WriteToClient
  <2>3. \A e \in WsIds : remote_qp_["client"][e] # d
    BY <1>7, <2>1 DEF ClientGiven
  <2> QED
    BY <1>3, <1>7, <2>2, <2>3 DEF ClientGiven
<1>8. ASSUME NEW d \in plan["server"].dispatchers, conn' = conn,
             remote_qp_' = [remote_qp_ EXCEPT !["server"][d] = conn[d].toServer]
      PROVE  ClientGiven'
  <2>1. \A e \in WsIds : remote_qp_'["client"][e] = remote_qp_["client"][e]
    BY <1>2, <1>4, <1>8
  <2> QED
    BY <1>5, <1>8, <2>1
<1>9. ASSUME NEW d \in plan["client"].dispatchers, NEW p \in WsIds,
             conn' = [conn EXCEPT ![p].toServer = d], remote_qp_' = remote_qp_
      PROVE  ClientGiven'
  <2>1. d \in Threads
    BY <1>1, <1>4
  <2>2. \A q \in WsIds : conn'[q].toClient = conn[q].toClient
    BY <1>2, <1>9, <2>1, WriteToServer
  <2> QED
    BY <1>5, <1>9, <2>2
<1>10. ASSUME NEW d \in plan["client"].dispatchers, NEW p \in WsIds,
              conn' = [conn EXCEPT ![p].toClient = None],
              remote_qp_' = [remote_qp_ EXCEPT !["client"][d] = conn[p].toClient]
       PROVE  ClientGiven'
  <2>1. d \in WsIds
    BY <1>1, <1>4
  <2>2. \A q \in WsIds : conn'[q].toClient = IF q = p THEN None ELSE conn[q].toClient
    BY <1>2, <1>10, WriteToClient
  <2>3. \A e \in WsIds : remote_qp_'["client"][e] =
                           IF e = d THEN conn[p].toClient ELSE remote_qp_["client"][e]
    BY <1>2, <1>4, <1>10, <2>1
  <2>4. conn[p].toClient \in {None, p}
    BY DEF ClientGiven
  <2>5. CASE conn[p].toClient = None
    BY <1>3, <1>4, <2>2, <2>3, <2>5 DEF ClientGiven
  <2>6. CASE conn[p].toClient = p
    <3>1. \A e \in WsIds : remote_qp_["client"][e] # p
      BY <2>6 DEF ClientGiven
    <3>2. pc["server"][p] \notin {"construct", "listening"}
      BY <1>4, <2>6 DEF ClientGiven
    <3> QED
      BY <1>3, <1>4, <2>2, <2>3, <2>6, <3>1, <3>2 DEF ClientGiven
  <2> QED
    BY <2>4, <2>5, <2>6
<1> QED
  BY <1>6, <1>7, <1>8, <1>9, <1>10, NextExchanges DEF Exchanges

\* The client's numbers: each is sent once.
LEMMA ServerGivenInductive ==
  BInv /\ SocketsOK /\ ExchangeTypes /\ ServerGiven /\ [Next]_vars => ServerGiven'
<1> SUFFICES ASSUME BInv, SocketsOK, ExchangeTypes, ServerGiven, [Next]_vars PROVE ServerGiven'
  OBVIOUS
<1>1. Places /\ \A n \in Node : plan[n].dispatchers \subseteq Threads
  BY FixedPlans DEF BInv, PlanOK
<1>2. remote_qp_ \in [Node -> [WsIds -> Threads \union {None}]] /\ conn \in [WsIds -> Messages]
  BY DEF ExchangeTypes
<1>3. \A d \in WsIds : pc'["client"][d] \in {"construct", "socket", "connected"} =>
                         pc["client"][d] \in {"construct", "socket", "connected"}
  BY <1>1, StepPlaces DEF KeepsPlace, Node
<1>4. None \notin WsIds /\ Threads \subseteq WsIds /\ "client" \in Node /\ "server" \in Node
  BY Ids DEF Node
<1>5. CASE /\ \A p \in WsIds : conn'[p].toServer = conn[p].toServer
           /\ \A d \in WsIds : remote_qp_'["server"][d] = remote_qp_["server"][d]
  BY <1>3, <1>5 DEF ServerGiven
<1>6. CASE UNCHANGED <<remote_qp_, conn>>
  BY <1>5, <1>6
<1>7. ASSUME NEW d \in plan["server"].dispatchers,
             conn' = [conn EXCEPT ![d].toClient = d], remote_qp_' = remote_qp_
      PROVE  ServerGiven'
  <2>1. d \in Threads /\ d \in WsIds
    BY <1>1, <1>4
  <2>2. \A q \in WsIds : conn'[q].toServer = conn[q].toServer
    BY <1>2, <1>7, <2>1, WriteToClient
  <2> QED
    BY <1>5, <1>7, <2>2
<1>8. ASSUME NEW d \in plan["server"].dispatchers, conn' = conn,
             remote_qp_' = [remote_qp_ EXCEPT !["server"][d] = conn[d].toServer]
      PROVE  ServerGiven'
  <2>1. \A e \in WsIds : remote_qp_'["server"][e] =
                           IF e = d THEN conn[d].toServer ELSE remote_qp_["server"][e]
    BY <1>2, <1>4, <1>8
  <2> QED
    BY <1>3, <1>8, <2>1 DEF ServerGiven
<1>9. ASSUME NEW d \in plan["client"].dispatchers, NEW p \in WsIds,
             pc["client"][d] = "connected", pc'["client"][d] = "sent",
             conn[p].toServer = None,
             conn' = [conn EXCEPT ![p].toServer = d], remote_qp_' = remote_qp_
      PROVE  ServerGiven'
  <2>1. d \in Threads /\ d \in WsIds
    BY <1>1, <1>4
  <2>2. \A q \in WsIds : conn'[q].toServer = IF q = p THEN d ELSE conn[q].toServer
    BY <1>2, <1>9, <2>1, WriteToServer
  <2>3. \A q \in WsIds : conn[q].toServer # d
    BY <1>9, <2>1 DEF ServerGiven
  <2>4. \A e, q \in WsIds : pc'["client"][e] \in {"construct", "socket", "connected"} =>
          conn'[q].toServer # e
    BY <1>3, <1>9, <2>2 DEF ServerGiven
  <2>5. \A q, r \in WsIds : conn'[q].toServer = conn'[r].toServer /\ q # r =>
          conn'[q].toServer = None
    BY <2>2, <2>3 DEF ServerGiven
  <2>6. \A q \in WsIds : remote_qp_'["server"][q] \in {None, conn'[q].toServer}
    BY <1>9, <2>2 DEF ServerGiven
  <2> QED
    BY <2>4, <2>5, <2>6 DEF ServerGiven
<1>10. ASSUME NEW d \in plan["client"].dispatchers, NEW p \in WsIds,
              conn' = [conn EXCEPT ![p].toClient = None],
              remote_qp_' = [remote_qp_ EXCEPT !["client"][d] = conn[p].toClient]
       PROVE  ServerGiven'
  <2>1. \A q \in WsIds : conn'[q].toServer = conn[q].toServer
    BY <1>2, <1>10, WriteToClient
  <2>2. \A e \in WsIds : remote_qp_'["server"][e] = remote_qp_["server"][e]
    BY <1>2, <1>4, <1>10
  <2> QED
    BY <1>5, <2>1, <2>2
<1> QED
  BY <1>6, <1>7, <1>8, <1>9, <1>10, NextExchanges DEF Exchanges

-----------------------------------------------------------------------------
(* Whose socket a descriptor stands for *)

\* A dispatcher that has lost its socket has lost it to another that has already
\* been answered, and finds a third one's in its place if any.
LostSocket ==
  \A d \in WsIds : pc["client"][d] \in Using =>
    /\ Owner(d) # d => \E c \in plan["client"].dispatchers :
                         c # d /\ pc["client"][c] \notin Young
    /\ Owner(d) \notin {d, None} => \E c \in plan["client"].dispatchers :
                                      c # d /\ c # Owner(d)

LEMMA LostSocketInductive == BInv /\ SocketsOK /\ LostSocket /\ [Next]_vars => LostSocket'
<1> SUFFICES ASSUME BInv, SocketsOK, LostSocket, [Next]_vars PROVE LostSocket'
  OBVIOUS
<1>1. Places /\ Fixed /\ plan' = plan /\ "client" \in Node
  BY PlanKept DEF BInv, Node
<1>2. \A d \in WsIds : KeepsPlace("client", d)
  BY <1>1, StepPlaces
<1>3. plan["client"].dispatchers \subseteq WsIds
  BY <1>1, FixedPlans, Ids DEF PlanOK
<1>4. \A d \in WsIds : Owner(d)' = fds'[sockfd'[d]] /\ Owner(d) = fds[sockfd[d]]
  BY DEF Owner
<1>5. ASSUME NEW d \in WsIds, pc["client"][d] \in Using, Owner(d)' = Owner(d)
      PROVE  /\ Owner(d)' # d => \E c \in plan'["client"].dispatchers :
                                   c # d /\ pc'["client"][c] \notin Young
             /\ Owner(d)' \notin {d, None} => \E c \in plan'["client"].dispatchers :
                                                c # d /\ c # Owner(d)'
  BY <1>1, <1>2, <1>3, <1>5 DEF LostSocket, KeepsPlace
<1>6. CASE fds' = fds /\ sockfd' = sockfd /\ \A d \in WsIds : ~CreateSocket(d)
  <2>1. \A d \in WsIds : Owner(d)' = Owner(d)
    BY <1>4, <1>6
  <2>2. \A d \in WsIds : pc'["client"][d] \in Using => pc["client"][d] \in Using
    BY <1>2, <1>6 DEF KeepsPlace
  <2> QED
    BY <1>5, <2>1, <2>2 DEF LostSocket
<1>7. ASSUME NEW c \in WsIds, c \in plan["client"].dispatchers, Close(c), sockfd' = sockfd,
             pc["client"][c] \notin Using, pc'["client"][c] \notin Young,
             \A d \in WsIds : ~CreateSocket(d)
      PROVE  LostSocket'
  <2>1. \A d \in WsIds : pc'["client"][d] \in Using => pc["client"][d] \in Using
    BY <1>2, <1>7 DEF KeepsPlace
  <2>2. fds' = [fds EXCEPT ![sockfd[c]] = None]
    BY <1>7 DEF Close
  <2>3. \A f \in Fds : fds'[f] \in {fds[f], None}
    BY <2>2 DEF SocketsOK
  <2>4. ASSUME NEW d \in WsIds, pc["client"][d] \in Using
        PROVE  /\ Owner(d)' # d => \E e \in plan'["client"].dispatchers :
                                     e # d /\ pc'["client"][e] \notin Young
               /\ Owner(d)' \notin {d, None} => \E e \in plan'["client"].dispatchers :
                                                  e # d /\ e # Owner(d)'
    <3>1. Owner(d)' \in {Owner(d), None} /\ c # d
      BY <1>4, <1>7, <2>3, <2>4, OwnerTyped
    <3>2. CASE Owner(d)' = Owner(d)
      BY <1>5, <2>4, <3>2
    <3>3. CASE Owner(d)' = None
      BY <1>1, <1>7, <3>1, <3>3
    <3> QED
      BY <3>1, <3>2, <3>3
  <2> QED
    BY <2>1, <2>4 DEF LostSocket
<1>8. ASSUME NEW o \in WsIds, CreateSocket(o) PROVE LostSocket'
  <2> DEFINE free == {f \in Fds : fds[f] = None}
             lowest == CHOOSE f \in free : \A g \in free : f <= g
  <2>1. /\ o \in plan["client"].dispatchers /\ Step("client", o, "construct", "socket")
        /\ sockfd' = [sockfd EXCEPT ![o] = lowest] /\ fds' = [fds EXCEPT ![lowest] = o]
    BY <1>8 DEF CreateSocket, IsSide
  <2>2. /\ pc["client"][o] = "construct"
        /\ \A e \in WsIds : pc'["client"][e] = IF e = o THEN "socket" ELSE pc["client"][e]
    BY <1>1, <2>1, OneMoves
  <2>3. lowest \in free
    <3>1. free # {} /\ free \in SUBSET Fds
      BY <1>1, <2>1, <2>2, FreeDescriptor
    <3> HIDE DEF free
    <3> QED
      BY <3>1, LowestDescriptor
  <2>4. lowest \in Fds /\ fds[lowest] = None
    BY <2>3
  <2> HIDE DEF free, lowest
  <2>5. \A f \in Fds : fds'[f] = IF f = lowest THEN o ELSE fds[f]
    BY <2>1 DEF SocketsOK
  <2>6. \A e \in WsIds : sockfd'[e] = IF e = o THEN lowest ELSE sockfd[e]
    BY <2>1 DEF SocketsOK
  <2>7. Owner(o)' = o
    BY <1>4, <2>4, <2>5, <2>6
  <2>8. ASSUME NEW d \in WsIds, d # o, pc["client"][d] \in Using
        PROVE  /\ Owner(d)' # d => \E c \in plan'["client"].dispatchers :
                                     c # d /\ pc'["client"][c] \notin Young
               /\ Owner(d)' \notin {d, None} => \E c \in plan'["client"].dispatchers :
                                                  c # d /\ c # Owner(d)'
    <3>1. sockfd[d] \in Fds /\ sockfd'[d] = sockfd[d]
      BY <2>6, <2>8, OwnerTyped
    <3>2. CASE sockfd[d] # lowest
      <4>1. Owner(d)' = Owner(d)
        BY <1>4, <2>5, <3>1, <3>2
      <4> QED
        BY <1>5, <2>8, <4>1
    <3>3. CASE sockfd[d] = lowest
      <4>1. Owner(d)' = o /\ Owner(d) = None
        BY <1>4, <2>4, <2>5, <3>1, <3>3
      <4>2. PICK c \in plan["client"].dispatchers : c # d /\ pc["client"][c] \notin Young
        BY <2>8, <4>1, Ids DEF LostSocket
      <4>3. c # o /\ pc'["client"][c] \notin Young
        BY <1>2, <1>3, <2>2, <4>2 DEF KeepsPlace, Young
      <4> QED
        BY <1>1, <4>1, <4>2, <4>3
    <3> QED
      BY <3>2, <3>3
  <2>9. \A d \in WsIds : d # o /\ pc'["client"][d] \in Using => pc["client"][d] \in Using
    BY <2>2
  <2>10. ASSUME NEW d \in WsIds, pc'["client"][d] \in Using
         PROVE  /\ Owner(d)' # d => \E c \in plan'["client"].dispatchers :
                                      c # d /\ pc'["client"][c] \notin Young
                /\ Owner(d)' \notin {d, None} => \E c \in plan'["client"].dispatchers :
                                                   c # d /\ c # Owner(d)'
    <3>1. CASE d = o
      BY <2>7, <3>1
    <3>2. CASE d # o
      BY <2>8, <2>9, <2>10, <3>2
    <3> QED
      BY <3>1, <3>2
  <2> QED
    BY <2>10 DEF LostSocket
<1>9. ASSUME NEW d \in WsIds, \/ Listen(d) \/ Accept(d) \/ ReceiveFromClient(d)
                              \/ connectToServer(d) \/ SendToServer(d) \/ BeginRead(d)
      PROVE  fds' = fds /\ sockfd' = sockfd
  BY <1>9 DEF Listen, Accept, ReceiveFromClient, connectToServer, SendToServer, BeginRead, tcpVars
<1>10. ASSUME NEW d \in WsIds, ReceiveFromServer(d) \/ DestroyClient(d),
              \A e \in WsIds : ~CreateSocket(e)
       PROVE  LostSocket'
  <2>1. /\ d \in plan["client"].dispatchers /\ Close(d) /\ sockfd' = sockfd
        /\ \/ Step("client", d, "reading", "disconnected")
           \/ Step("client", d, "disconnected", "built")
    BY <1>10 DEF ReceiveFromServer, DestroyClient, IsSide
  <2>2. /\ pc["client"][d] \in {"reading", "disconnected"}
        /\ pc'["client"][d] \in {"disconnected", "built"}
    BY <1>1, <2>1, OneMoves
  <2> QED
    BY <1>7, <1>10, <2>1, <2>2 DEF Using, Young
<1>11. CASE UNCHANGED tcpVars
  BY <1>6, <1>8, <1>11 DEF tcpVars
<1> QED
  BY <1>6, <1>8, <1>9, <1>10, <1>11, NextEffects DEF Effects, Talks

\* So where there is no third, a descriptor stands for the own socket or none.
LEMMA OwnSocket ==
  ASSUME BInv, SocketsOK, LostSocket, NoThirdSocket, NEW d \in WsIds, pc["client"][d] \in Using
  PROVE  Owner(d) \in {d, None}
<1> SUFFICES ASSUME Owner(d) \notin {d, None} PROVE FALSE
  OBVIOUS
<1>1. PICK c \in plan["client"].dispatchers : c # d /\ c # Owner(d)
  BY DEF LostSocket
<1>2. d \in plan["client"].dispatchers /\ Owner(d) \in plan["client"].dispatchers
  BY OwnerTyped
<1> QED
  BY <1>1, <1>2 DEF NoThirdSocket

\* And then everything is said between the two of a ws_id.
OwnPorts ==
  NoThirdSocket => \A d \in WsIds :
    /\ port[d] \in {None, d} /\ reading[d] \in {None, d} /\ conn[d].toServer \in {None, d}
    /\ \A n \in Node : remote_qp_[n][d] \in {None, d}

LEMMA OwnPortsInductive ==
  /\ BInv /\ SocketsOK /\ ExchangeTypes /\ ClientGiven /\ LostSocket /\ OwnPorts
  /\ [Next]_vars
  => OwnPorts'
<1> SUFFICES ASSUME BInv, SocketsOK, ExchangeTypes, ClientGiven, LostSocket, OwnPorts,
                    [Next]_vars, NoThirdSocket
             PROVE  OwnPorts'
  BY PlanKept DEF NoThirdSocket, OwnPorts
<1>1. Places /\ \A n \in Node : plan[n].dispatchers \subseteq Threads
  BY FixedPlans DEF BInv, PlanOK
<1>2. /\ None \notin WsIds /\ Threads \subseteq WsIds /\ "client" \in Node /\ "server" \in Node
      /\ Node = {"client", "server"}
  BY Ids DEF Node
<1>3. \A d \in WsIds :
        /\ port[d] \in {None, d} /\ reading[d] \in {None, d} /\ conn[d].toServer \in {None, d}
        /\ \A n \in Node : remote_qp_[n][d] \in {None, d}
  BY DEF OwnPorts
<1>4. \A d \in WsIds : port'[d] \in {None, d}
  <2>1. ASSUME NEW d \in WsIds, connectToServer(d)
        PROVE  \A e \in WsIds : port'[e] \in {None, e}
    <3>1. /\ Step("client", d, "socket", "connected")
          /\ port' = port \/ (Owner(d) # None /\ port' = [port EXCEPT ![Owner(d)] = d])
      BY <2>1 DEF connectToServer, CanConnect
    <3>2. pc["client"][d] \in Using
      BY <1>1, <1>2, <3>1, OneMoves DEF Using
    <3>3. Owner(d) # None => Owner(d) = d
      BY <3>2, OwnSocket
    <3>4. CASE port' = port
      BY <1>3, <3>4
    <3>5. CASE port' = [port EXCEPT ![d] = d]
      BY <1>3, <3>5 DEF ExchangeTypes
    <3> QED
      BY <3>1, <3>3, <3>4, <3>5
  <2>2. ASSUME NEW d \in WsIds, Talks(d) PROVE port' = port \/ connectToServer(d)
    BY <2>2 DEF Talks, Listen, Accept, ReceiveFromClient, CreateSocket, SendToServer,
                BeginRead, ReceiveFromServer, DestroyClient, tcpVars
  <2>3. CASE port' = port
    BY <1>3, <2>3
  <2> QED
    BY <2>1, <2>2, <2>3, NextEffects DEF Effects, tcpVars
<1>5. \A d \in WsIds : reading'[d] \in {None, d}
  <2>1. ASSUME NEW d \in WsIds, BeginRead(d) PROVE \A e \in WsIds : reading'[e] \in {None, e}
    <3>1. /\ Step("client", d, "sent", "reading") /\ Owner(d) # None
          /\ reading' = [reading EXCEPT ![d] = port[Owner(d)]]
      BY <2>1 DEF BeginRead, Connected
    <3>2. pc["client"][d] \in Using
      BY <1>1, <1>2, <3>1, OneMoves DEF Using
    <3>3. Owner(d) = d
      BY <3>1, <3>2, OwnSocket
    <3>4. reading' = [reading EXCEPT ![d] = port[d]]
      BY <3>1, <3>3
    <3> QED
      BY <1>3, <3>4 DEF ExchangeTypes
  <2>2. ASSUME NEW d \in WsIds, ReceiveFromServer(d)
        PROVE  \A e \in WsIds : reading'[e] \in {None, e}
    <3>1. reading' = [reading EXCEPT ![d] = None]
      BY <2>2 DEF ReceiveFromServer
    <3> QED
      BY <1>3, <3>1 DEF ExchangeTypes
  <2>3. ASSUME NEW d \in WsIds, Talks(d)
        PROVE  reading' = reading \/ ReceiveFromServer(d) \/ BeginRead(d)
    BY <2>3 DEF Talks, Listen, Accept, ReceiveFromClient, CreateSocket, connectToServer,
                SendToServer, DestroyClient, tcpVars
  <2>4. CASE reading' = reading
    BY <1>3, <2>4
  <2> QED
    BY <2>1, <2>2, <2>3, <2>4, NextEffects DEF Effects, tcpVars
<1>6. /\ \A q \in WsIds : conn'[q].toServer \in {None, q}
      /\ \A n \in Node, q \in WsIds : remote_qp_'[n][q] \in {None, q}
  <2>0. remote_qp_ \in [Node -> [WsIds -> Threads \union {None}]] /\ conn \in [WsIds -> Messages]
    BY DEF ExchangeTypes
  <2>1. CASE UNCHANGED <<remote_qp_, conn>>
    BY <1>3, <2>1
  <2>2. ASSUME NEW d \in plan["server"].dispatchers,
               conn' = [conn EXCEPT ![d].toClient = d], remote_qp_' = remote_qp_
        PROVE  /\ \A q \in WsIds : conn'[q].toServer \in {None, q}
               /\ \A n \in Node, q \in WsIds : remote_qp_'[n][q] \in {None, q}
    <3>1. d \in Threads /\ d \in WsIds
      BY <1>1, <1>2
    <3>2. \A q \in WsIds : conn'[q].toServer = conn[q].toServer
      BY <2>0, <2>2, <3>1, WriteToClient
    <3> QED
      BY <1>3, <2>2, <3>2
  <2>3. ASSUME NEW d \in plan["server"].dispatchers, conn' = conn,
               remote_qp_' = [remote_qp_ EXCEPT !["server"][d] = conn[d].toServer]
        PROVE  /\ \A q \in WsIds : conn'[q].toServer \in {None, q}
               /\ \A n \in Node, q \in WsIds : remote_qp_'[n][q] \in {None, q}
    <3>1. d \in WsIds
      BY <1>1, <1>2
    <3>2. \A n \in Node, q \in WsIds : remote_qp_'[n][q] =
            IF n = "server" /\ q = d THEN conn[d].toServer ELSE remote_qp_[n][q]
      BY <2>0, <2>3, <3>1
    <3> QED
      BY <1>3, <2>3, <3>1, <3>2
  <2>4. ASSUME NEW d \in plan["client"].dispatchers, NEW p \in WsIds,
               pc["client"][d] = "connected", p = port[Owner(d)], Owner(d) # None,
               conn' = [conn EXCEPT ![p].toServer = d], remote_qp_' = remote_qp_
        PROVE  /\ \A q \in WsIds : conn'[q].toServer \in {None, q}
               /\ \A n \in Node, q \in WsIds : remote_qp_'[n][q] \in {None, q}
    <3>1. d \in Threads /\ d \in WsIds
      BY <1>1, <1>2
    <3>2. Owner(d) = d
      BY <2>4, <3>1, OwnSocket DEF Using
    <3>3. p = d
      BY <1>2, <1>3, <2>4, <3>1, <3>2
    <3>4. \A q \in WsIds : conn'[q].toServer = IF q = p THEN d ELSE conn[q].toServer
      BY <2>0, <2>4, <3>1, WriteToServer
    <3> QED
      BY <1>3, <2>4, <3>3, <3>4
  <2>5. ASSUME NEW d \in plan["client"].dispatchers, NEW p \in WsIds, p = reading[d],
               conn' = [conn EXCEPT ![p].toClient = None],
               remote_qp_' = [remote_qp_ EXCEPT !["client"][d] = conn[p].toClient]
        PROVE  /\ \A q \in WsIds : conn'[q].toServer \in {None, q}
               /\ \A n \in Node, q \in WsIds : remote_qp_'[n][q] \in {None, q}
    <3>1. d \in WsIds
      BY <1>1, <1>2
    <3>2. p = d
      BY <1>2, <1>3, <2>5, <3>1
    <3>3. conn[p].toClient \in {None, d}
      BY <3>2 DEF ClientGiven
    <3>4. \A q \in WsIds : conn'[q].toServer = conn[q].toServer
      BY <2>0, <2>5, WriteToClient
    <3>5. \A n \in Node, q \in WsIds : remote_qp_'[n][q] =
            IF n = "client" /\ q = d THEN conn[p].toClient ELSE remote_qp_[n][q]
      BY <2>0, <2>5, <3>1
    <3> QED
      BY <1>3, <3>3, <3>4, <3>5
  <2> QED
    BY <2>1, <2>2, <2>3, <2>4, <2>5, NextExchanges DEF Exchanges
<1> QED
  BY <1>4, <1>5, <1>6 DEF OwnPorts

-----------------------------------------------------------------------------
(* A queue pair belongs to one dispatcher *)

ConnectedOK ==
  SocketsOK /\ ExchangeTypes /\ ClientGiven /\ ServerGiven /\ LostSocket /\ OwnPorts

\* Nothing is connected at first.
LEMMA ConnectedOKInit == Init => DpdkOK /\ ConnectedOK
<1> SUFFICES ASSUME Init PROVE DpdkOK /\ ConnectedOK
  OBVIOUS
<1>1. DpdkOK
  BY DEF Init, DpdkOK
<1>2. /\ SocketsOK /\ LostSocket
  BY Ids DEF Init, SocketsOK, LostSocket, Using, Node
<1>3. /\ \A p \in WsIds : conn[p].toServer = None /\ conn[p].toClient = None
      /\ \A n \in Node, d \in WsIds : remote_qp_[n][d] = None /\ pc[n][d] = "construct"
      /\ \A d \in WsIds : port[d] = None /\ reading[d] = None
  BY DEF Init, NothingSent
<1>4. ExchangeTypes
  BY <1>3 DEF Init, ExchangeTypes, Messages, NothingSent, Node
<1>5. ClientGiven /\ ServerGiven /\ OwnPorts
  BY <1>3, Ids DEF ClientGiven, ServerGiven, OwnPorts, Node
<1> QED
  BY <1>1, <1>2, <1>4, <1>5 DEF ConnectedOK

LEMMA ConnectedOKInductive == BInv /\ ConnectedOK /\ [Next]_vars => ConnectedOK'
BY SocketsOKInductive, ExchangeTypesInductive, ClientGivenInductive, ServerGivenInductive,
   LostSocketInductive, OwnPortsInductive DEF ConnectedOK

\* That is what the queue pairs are exchanged for.
LEMMA QueuePairsFollow == DpdkOK /\ ConnectedOK => QueuePairsMatch
<1> SUFFICES ASSUME DpdkOK, ConnectedOK PROVE QueuePairsMatch
  OBVIOUS
<1>1. ASSUME NEW n \in Node, NEW d \in WsIds, NEW e \in WsIds,
             remote_qp_[n][d] = remote_qp_[n][e], d # e
      PROVE  remote_qp_[n][d] = None
  <2>1. CASE n = "client"
    BY <1>1, <2>1 DEF ConnectedOK, ClientGiven
  <2>2. CASE n = "server"
    BY <1>1, <2>2 DEF ConnectedOK, ServerGiven
  <2> QED
    BY <2>1, <2>2 DEF Node
<1> QED
  BY <1>1 DEF ConnectedOK, OwnPorts, DpdkOK, QueuePairsMatch

\* A queue pair belongs to one dispatcher, whatever the configurations and the
\* order of the threads (dpdk_dispatcher.h:137-163, dpdk_dispatcher.cc:43-89,
\* roce_dispatcher.cc:192-210); with at most two RoCE dispatchers on the client each
\* is connected to that of its own ws_id.
THEOREM QueuePairsMatchAlways == Spec => []QueuePairsMatch
<1>1. BInv => Fixed
  BY DEF BInv
<1> QED
  BY <1>1, ConnectedOKInit, QueuePairsFollow, BarrierInvariant, DpdkOKInductive,
     ConnectedOKInductive, PTL DEF Spec
-----------------------------------------------------------------------------
(* Types *)

\* The messages.
CallType == [leg : {"request", "response"}, from : WsIds \union {None}, to : WsIds \union {None},
             at : {"worker", "wire", "dispatcher", "handler", "answered", "lost"}]
CallsOK == call \in [WsIds -> CallType] /\ process \in [Node -> {"off", "up", "down"}]

\* A message goes out from a dispatcher that serves its worker, to one of the
\* remote dispatchers of the worker's workload.
LEMMA EmitTyped ==
  ASSUME BInv, CallsOK, NEW n \in Node, NEW w \in WsIds, NEW v,
         NEW leg \in {"request", "response"}, Emit(n, w, v, leg)
  PROVE  call' \in [WsIds -> CallType]
<1>1. PlanOK(plan[n]) /\ BarrierOf(n) /\ Places
  BY FixedPlans DEF BInv
<1>2. PICK d \in WsIds, r \in plan[n].remotes[plan[n].workload[v]] :
        /\ v \in served[n][d]
        /\ call' = [call EXCEPT ![w] = [leg |-> leg, at |-> "wire", from |-> d, to |-> r]]
  BY DEF Emit
<1>3. v \in plan[n].workers
  BY <1>1, <1>2 DEF BarrierOf, Serves, Assigned
<1>4. r \in WsIds
  BY <1>1, <1>2, <1>3 DEF PlanOK
<1>5. [leg |-> leg, at |-> "wire", from |-> d, to |-> r] \in CallType
  BY <1>4 DEF CallType
<1> QED
  BY <1>2, <1>5 DEF CallsOK

\* The types of the messages and the processes.
LEMMA CallsOKInductive == BInv /\ CallsOK /\ [Next]_vars => CallsOK'
<1> SUFFICES ASSUME BInv, CallsOK, [Next]_vars PROVE CallsOK'
  OBVIOUS
<1>1. Places /\ \A n \in Node : PlanOK(plan[n])
  BY FixedPlans DEF BInv
<1>2. call \in [WsIds -> CallType] /\ process \in [Node -> {"off", "up", "down"}]
  BY DEF CallsOK
<1>3. process' \in [Node -> {"off", "up", "down"}]
  <2>1. ASSUME NEW n \in Node, Start(n) \/ Die(n) PROVE process' \in [Node -> {"off", "up", "down"}]
    BY <1>2, <2>1 DEF Start, Die
  <2> QED
    BY <1>2, <2>1, NextEffects DEF Effects, ChangesProcess
<1>4. ASSUME NEW w \in WsIds, Calling(w) PROVE call' \in [WsIds -> CallType]
  <2>1. CASE Request(w)
    <3>1. Emit("client", w, w, "request") /\ "client" \in Node
      BY <2>1 DEF Request, Node
    <3> QED
      BY <3>1, EmitTyped
  <2>2. CASE Respond(w)
    <3>1. Emit("server", w, call[w].to, "response") /\ "server" \in Node
      BY <2>2 DEF Respond, Node
    <3> QED
      BY <3>1, EmitTyped
  <2>3. ASSUME NEW here \in {"worker", "wire", "dispatcher", "handler", "answered", "lost"},
               call' = [call EXCEPT ![w].at = here]
        PROVE  call' \in [WsIds -> CallType]
    BY <1>2, <2>3 DEF CallType
  <2>4. ASSUME NEW here \in {"worker", "wire", "dispatcher", "handler", "answered", "lost"},
               NEW v \in WsIds, call' = [call EXCEPT ![w].at = here, ![w].to = v]
        PROVE  call' \in [WsIds -> CallType]
    BY <1>2, <2>4 DEF CallType
  <2>5. Receiver(w) \in Node
    BY DEF Receiver, Sender, Peer, Node
  <2>6. CASE Deliver(w)
    <3> DEFINE d == CHOOSE d \in Destination(w) : TRUE
    <3>1. CASE Destination(w) = {}
      <4>1. call' = [call EXCEPT ![w].at = "lost"]
        BY <2>6, <3>1 DEF Deliver
      <4> QED
        BY <2>3, <4>1
    <3>2. CASE Destination(w) # {}
      <4>1. call' = [call EXCEPT ![w].at = "dispatcher", ![w].to = d]
        BY <2>6, <3>2 DEF Deliver
      <4>2. Destination(w) \subseteq WsIds
        BY <1>1, <2>5, Ids DEF Destination, PlanOK
      <4>3. d \in WsIds
        BY <3>2, <4>2
      <4> HIDE DEF d
      <4> QED
        BY <2>4, <4>1, <4>3
    <3> QED
      BY <3>1, <3>2
  <2>7. CASE Dispatch(w)
    <3> DEFINE n == Receiver(w)
               d == call[w].to
    <3>1. PICK v \in Routes(n, d, plan["client"].workload[w]) :
            call' = [call EXCEPT ![w].at = "handler", ![w].to = v]
      BY <2>7 DEF Dispatch
    <3>2. d \in WsIds
      BY <1>1, <2>5, <2>7, Ids DEF Dispatch, Runs, At
    <3>3. v \in WsIds
      BY <1>1, <2>5, <3>1, <3>2, Ids DEF Routes, Places
    <3> HIDE DEF n, d
    <3> QED
      BY <2>4, <3>1, <3>3
  <2>8. CASE NoRoute(w) \/ TakeResponse(w)
    <3>1. call' = [call EXCEPT ![w].at = "lost"] \/ call' = [call EXCEPT ![w].at = "answered"]
      BY <2>8 DEF NoRoute, TakeResponse
    <3> QED
      BY <2>3, <3>1
  <2> QED
    BY <1>4, <2>1, <2>2, <2>6, <2>7, <2>8 DEF Calling
<1>5. call' \in [WsIds -> CallType]
  BY <1>2, <1>4, NextEffects DEF Effects
<1> QED
  BY <1>3, <1>5 DEF CallsOK

\* Types follow from the invariants.
LEMMA TypesFollow == BInv /\ DpdkOK /\ ConnectedOK /\ CallsOK => TypeOK
<1> SUFFICES ASSUME BInv, DpdkOK, ConnectedOK, CallsOK PROVE TypeOK
  OBVIOUS
<1>1. Places /\ Fixed /\ \A n \in Node : PlanOK(plan[n]) /\ BarrierOf(n)
  BY FixedPlans DEF BInv
<1>2. pc \in [Node -> [WsIds -> {"construct", "listening", "accepted", "socket", "connected",
                                 "sent", "reading", "disconnected", "flow", "built",
                                 "registered", "configure", "ready", "init", "start",
                                 "running"}]]
  <2>1. Stages = {"construct", "listening", "accepted", "socket", "connected",
                  "sent", "reading", "disconnected", "flow", "built",
                  "registered", "configure", "ready", "init", "start", "running"}
    BY DEF Stages, Early, Late
  <2> QED
    BY <1>1, <2>1 DEF Places
<1>3. ASSUME NEW n \in Node
      PROVE  arrived[n] \in 0..(3 * totalThreads(n))
  <2>1. /\ First(n) \in SUBSET plan[n].threads /\ Second(n) \in SUBSET plan[n].threads
        /\ Third(n) \in SUBSET plan[n].threads
    BY DEF First, Second, Third
  <2>2. /\ Cardinality(First(n)) \in Nat /\ Cardinality(First(n)) <= totalThreads(n)
        /\ Cardinality(Second(n)) \in Nat /\ Cardinality(Second(n)) <= totalThreads(n)
        /\ Cardinality(Third(n)) \in Nat /\ Cardinality(Third(n)) <= totalThreads(n)
        /\ totalThreads(n) \in Nat
    BY <1>1, <2>1, Counts
  <2>3. arrived[n] = Cardinality(First(n)) + Cardinality(Second(n)) + Cardinality(Third(n))
    BY <1>1 DEF BarrierOf
  <2> QED
    BY <2>2, <2>3
<1>4. conn \in [WsIds -> [toServer : WsIds \union {None}, toClient : WsIds \union {None}]]
  BY Ids DEF ConnectedOK, ExchangeTypes, Messages
<1> QED
  BY <1>1, <1>2, <1>3, <1>4
  DEF TypeOK, Places, DpdkOK, ConnectedOK, ExchangeTypes, SocketsOK, CallsOK, CallType

\* The types of the states: in particular nobody waits at the barrier more than
\* three times, and socket() finds a descriptor.
THEOREM TypeCorrect == Spec => []TypeOK
<1>1. Init => CallsOK
  BY DEF Init, CallsOK, CallType, Unsent
<1>2. BInv => Fixed
  BY DEF BInv
<1> QED
  BY <1>1, <1>2, ConnectedOKInit, BarrierInvariant, DpdkOKInductive, ConnectedOKInductive,
     CallsOKInductive, TypesFollow, PTL DEF Spec

================================================================================
