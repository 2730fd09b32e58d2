----------------------- MODULE ResultsCaches_proofs -----------------------
(***************************************************************************)
(* What is proved of ResultsCaches for any number of greenlets, races,     *)
(* heats and requests: types, that a flag others wait for has one holder,  *)
(* and that results stored as valid, and a valid page, are current as long *)
(* as laps are only written while no other greenlet is reading.            *)
(*                                                                         *)
(* The invariant follows each request through its program: how many steps  *)
(* are left says what the greenlet has fetched and what it may add to.     *)
(***************************************************************************)
EXTENDS ResultsCaches, SequenceFacts, SequenceTheorems, FiniteSetTheorems, TLAPS

Instr == [do : Instructions, on : Nodes]
Progs == Seq(Instr)

-----------------------------------------------------------------------------
(* Programs.                                                               *)

Has(p, i, n) == Do(i, n) \in Range(p)

\* What is left of ReadResults, of Save and of Resave, and the build of a page.
Reads(p) == \E n \in Heats \cup {Event} :
              p = <<Do("get", n), Do("drop", Event)>> \/ p = <<Do("drop", Event)>>

Saves(r, p) ==
  /\ Len(p) \in 1..12
  /\ \A i \in 1..Len(p) :
       \/ p[i] = SaveSteps(r)[12 - Len(p) + i]
       \/ i = 1 /\ Len(p) = 7 /\ p[1] \in {Do("get", HeatOf[r]), Do("store", HeatOf[r])}
       \/ i = 1 /\ Len(p) = 6 /\ p[1] \in {Do("get", Event), Do("store", Event)}

Resaves(r, p) ==
  /\ Len(p) \in 1..17
  /\ \A i \in 1..Len(p) :
       IF Len(p) - i < 15 THEN p[i] = RebuildSteps(r)[15 - Len(p) + i]
       ELSE p[i] = Do("get", r) \/ (i = 1 /\ p[i] = Do("rewrite", r))

PageStep(d) ==
  \/ d.do \in {"sleep", "get"}
  \/ d.do = "pageHeat" /\ d.on \in Heats
  \/ d.do = "keep" /\ d.on \in Races

Pages(p) ==
  /\ Len(p) >= 1 /\ p[Len(p)] = Do("show", Event)
  /\ \A i \in 1..(Len(p) - 1) : PageStep(p[i])

Form(p) ==
  \/ p = <<>> \/ p = <<Do("page", Event)>> \/ Reads(p) \/ Pages(p)
  \/ \E r \in Races : Saves(r, p) \/ Resaves(r, p)

FormsHold == \A w \in Workers : Form(prog[w])

LEMMA ModelTypes ==
  /\ Event \in Nodes /\ Event \notin Rows /\ Races \subseteq Rows /\ Heats \subseteq Rows
  /\ Rows \subseteq Nodes /\ \A r \in Races : HeatOf[r] \in Heats
  /\ \A n \in Nodes : n \in Races \/ n \in Heats \/ n = Event
  /\ \A n \in Races : n \notin Heats
  /\ Workers \cap {Free} = {}
BY CachesAssumption DEF Nodes, Rows

LEMMA DoTypes ==
  /\ \A i \in Instructions, n \in Nodes : Do(i, n) \in Instr
  /\ \A i, n : Do(i, n).do = i /\ Do(i, n).on = n
BY DEF Do, Instr

LEMMA FirstIn == \A l \in 1..17 : 1 \in 1..l
OBVIOUS

LEMMA InRange ==
  ASSUME NEW p \in Progs, NEW d
  PROVE  d \in Range(p) <=> \E i \in 1..Len(p) : p[i] = d
BY DEF Range, Progs

LEMMA Cut ==
  ASSUME NEW p \in Progs, p # <<>>
  PROVE  /\ Head(p) = p[1] /\ Head(p) \in Instr /\ Tail(p) \in Progs
         /\ Len(p) \in Nat \ {0} /\ Len(Tail(p)) = Len(p) - 1
         /\ \A i \in 1..(Len(p) - 1) : Tail(p)[i] = p[i + 1]
         /\ Range(Tail(p)) \subseteq Range(p)
<1>1. /\ Head(p) = p[1] /\ Head(p) \in Instr /\ Tail(p) \in Progs
      /\ Len(p) \in Nat \ {0} /\ Len(Tail(p)) = Len(p) - 1
      /\ \A i \in 1..(Len(p) - 1) : Tail(p)[i] = p[i + 1]
  BY HeadTailProperties DEF Progs
<1>2. ASSUME NEW d \in Range(Tail(p)) PROVE d \in Range(p)
  <2>1. PICK i \in 1..Len(Tail(p)) : Tail(p)[i] = d
    BY <1>1, InRange
  <2>2. i + 1 \in 1..Len(p) /\ p[i + 1] = d
    BY <1>1, <2>1
  <2> QED
    BY <2>2, InRange
<1> QED
  BY <1>1, <1>2

LEMMA SaveStepsAre ==
  ASSUME NEW r \in Races
  PROVE  LET s == SaveSteps(r) IN
         /\ s \in Progs /\ Len(s) = 12
         /\ s[1] = Do("hold", HeatOf[r]) /\ s[2] = Do("get", HeatOf[r])
         /\ s[3] = Do("get", Event) /\ s[4] = Do("write", r) /\ s[5] = Do("recent", r)
         /\ s[6] = Do("put", HeatOf[r]) /\ s[7] = Do("put", Event) /\ s[8] = Do("drop", Event)
         /\ s[9] = Do("sleep", Event) /\ s[10] = Do("invalidate", Event)
         /\ s[11] = Do("sleep", Event) /\ s[12] = Do("page", Event)
<1>1. HeatOf[r] \in Nodes /\ r \in Nodes /\ Event \in Nodes
  BY ModelTypes
<1>2. /\ Do("hold", HeatOf[r]) \in Instr /\ Do("get", HeatOf[r]) \in Instr
      /\ Do("get", Event) \in Instr /\ Do("write", r) \in Instr /\ Do("recent", r) \in Instr
      /\ Do("put", HeatOf[r]) \in Instr /\ Do("put", Event) \in Instr
      /\ Do("drop", Event) \in Instr /\ Do("sleep", Event) \in Instr
      /\ Do("invalidate", Event) \in Instr /\ Do("page", Event) \in Instr
  BY <1>1, DoTypes DEF Instructions
<1> QED
  BY <1>2 DEF SaveSteps, Progs

LEMMA RebuildStepsAre ==
  ASSUME NEW r \in Races
  PROVE  LET s == RebuildSteps(r) IN
         /\ s \in Progs /\ Len(s) = 15
         /\ s[1] = Do("drop", Event) /\ s[2] = Do("sleep", Event)
         /\ s[3] = Do("invalidate", Event) /\ s[4] = Do("hold", r)
         /\ s[5] = Do("sleep", Event) /\ s[6] = Do("clearEvent", Event) /\ s[7] = Do("get", r)
         /\ s[8] = Do("sleep", Event) /\ s[9] = Do("clearEvent", Event)
         /\ s[10] = Do("get", HeatOf[r]) /\ s[11] = Do("sleep", Event)
         /\ s[12] = Do("get", Event) /\ s[13] = Do("drop", Event)
         /\ s[14] = Do("sleep", Event) /\ s[15] = Do("page", Event)
<1>1. HeatOf[r] \in Nodes /\ r \in Nodes /\ Event \in Nodes
  BY ModelTypes
<1>2. /\ Do("drop", Event) \in Instr /\ Do("sleep", Event) \in Instr
      /\ Do("invalidate", Event) \in Instr /\ Do("hold", r) \in Instr
      /\ Do("clearEvent", Event) \in Instr /\ Do("get", r) \in Instr
      /\ Do("get", HeatOf[r]) \in Instr /\ Do("get", Event) \in Instr
      /\ Do("page", Event) \in Instr
  BY <1>1, DoTypes DEF Instructions
<1> QED
  BY <1>2 DEF RebuildSteps, Progs

\* The forms, in terms of the number of steps that are left.
LEMMA SavesAt ==
  ASSUME NEW r \in Races, NEW p \in Progs, NEW l \in Nat, Len(p) = l
  PROVE  Saves(r, p) <=>
           /\ l \in 1..12
           /\ \A i \in 1..l :
                \/ p[i] = SaveSteps(r)[(12 - l) + i]
                \/ i = 1 /\ l = 7 /\ p[1] \in {Do("get", HeatOf[r]), Do("store", HeatOf[r])}
                \/ i = 1 /\ l = 6 /\ p[1] \in {Do("get", Event), Do("store", Event)}
BY Zenon DEF Saves

LEMMA ResavesAt ==
  ASSUME NEW r \in Races, NEW p \in Progs, NEW l \in Nat, Len(p) = l
  PROVE  Resaves(r, p) <=>
           /\ l \in 1..17
           /\ \A i \in 1..l :
                IF l - i < 15 THEN p[i] = RebuildSteps(r)[(15 - l) + i]
                ELSE p[i] = Do("get", r) \/ (i = 1 /\ p[i] = Do("rewrite", r))
BY Zenon DEF Resaves

\* What a save does next, by the number of steps that are left.
LEMMA SavesHead ==
  ASSUME NEW r \in Races, NEW p \in Progs, Saves(r, p),
         NEW l \in Nat, Len(p) = l
  PROVE  /\ l \in 1..12
         /\ l = 12 => p[1] = Do("hold", HeatOf[r])
         /\ l = 11 => p[1] = Do("get", HeatOf[r])
         /\ l = 10 => p[1] = Do("get", Event)
         /\ l = 9 => p[1] = Do("write", r)
         /\ l = 8 => p[1] = Do("recent", r)
         /\ l = 7 => p[1].do \in {"put", "get", "store"} /\ p[1].on = HeatOf[r]
         /\ l = 6 => p[1].do \in {"put", "get", "store"} /\ p[1].on = Event
         /\ l = 5 => p[1] = Do("drop", Event)
         /\ l = 4 => p[1] = Do("sleep", Event)
         /\ l = 3 => p[1] = Do("invalidate", Event)
         /\ l = 2 => p[1] = Do("sleep", Event)
         /\ l = 1 => p[1] = Do("page", Event)
<1> DEFINE s == SaveSteps(r)
           q == p[1]
<1>1. l \in 1..12 /\ 1 \in 1..l
  BY SavesAt
<1>2. \/ q = s[(12 - l) + 1]
      \/ l = 7 /\ q \in {Do("get", HeatOf[r]), Do("store", HeatOf[r])}
      \/ l = 6 /\ q \in {Do("get", Event), Do("store", Event)}
  BY Zenon, <1>1, SavesAt
<1>3. /\ s[1] = Do("hold", HeatOf[r]) /\ s[2] = Do("get", HeatOf[r])
      /\ s[3] = Do("get", Event) /\ s[4] = Do("write", r) /\ s[5] = Do("recent", r)
      /\ s[6] = Do("put", HeatOf[r]) /\ s[7] = Do("put", Event) /\ s[8] = Do("drop", Event)
      /\ s[9] = Do("sleep", Event) /\ s[10] = Do("invalidate", Event)
      /\ s[11] = Do("sleep", Event) /\ s[12] = Do("page", Event)
  BY SaveStepsAre
<1>4. (12 - l) + 1 = 13 - l
  BY <1>1
<1> HIDE DEF s, q
<1>5. /\ l = 12 => q = Do("hold", HeatOf[r])
      /\ l = 11 => q = Do("get", HeatOf[r])
      /\ l = 10 => q = Do("get", Event)
      /\ l = 9 => q = Do("write", r)
      /\ l = 8 => q = Do("recent", r)
      /\ l = 7 => q.do \in {"put", "get", "store"} /\ q.on = HeatOf[r]
      /\ l = 6 => q.do \in {"put", "get", "store"} /\ q.on = Event
      /\ l = 5 => q = Do("drop", Event)
      /\ l = 4 => q = Do("sleep", Event)
      /\ l = 3 => q = Do("invalidate", Event)
      /\ l = 2 => q = Do("sleep", Event)
      /\ l = 1 => q = Do("page", Event)
  BY <1>1, <1>2, <1>3, <1>4, DoTypes
<1> QED
  BY Zenon, <1>1, <1>5 DEF q

\* Only the first step may be a result to be fetched or stored in place of a put.
LEMMA SavesElements ==
  ASSUME NEW r \in Races, NEW p \in Progs, Saves(r, p), NEW l \in Nat, Len(p) = l,
         NEW i \in 1..l
  PROVE  /\ p[i].do \notin {"rewrite", "show", "pageHeat", "clearEvent", "keep"}
         /\ p[i].do = "write" => p[i] = Do("write", r) /\ l = 8 + i
         /\ p[i].do \in {"store", "get"} /\ l <= 9 => i = 1
<1> DEFINE s == SaveSteps(r)
           k == (12 - l) + i
           q == p[i]
<1>8. l \in 1..12
  BY SavesAt
<1>0. \A j \in 1..l :
        \/ p[j] = SaveSteps(r)[(12 - l) + j]
        \/ j = 1 /\ l = 7 /\ p[1] \in {Do("get", HeatOf[r]), Do("store", HeatOf[r])}
        \/ j = 1 /\ l = 6 /\ p[1] \in {Do("get", Event), Do("store", Event)}
  BY ZenonT(30), SavesAt
<1>1. \/ q = s[k]
      \/ i = 1 /\ q \in {Do("get", HeatOf[r]), Do("store", HeatOf[r]),
                          Do("get", Event), Do("store", Event)}
  <2>1. CASE i = 1
    BY <1>0, <2>1
  <2>2. CASE i # 1
    BY Zenon, <1>0, <2>2
  <2> QED
    BY <2>1, <2>2
<1>2. /\ s[1] = Do("hold", HeatOf[r]) /\ s[2] = Do("get", HeatOf[r])
      /\ s[3] = Do("get", Event) /\ s[4] = Do("write", r) /\ s[5] = Do("recent", r)
      /\ s[6] = Do("put", HeatOf[r]) /\ s[7] = Do("put", Event) /\ s[8] = Do("drop", Event)
      /\ s[9] = Do("sleep", Event) /\ s[10] = Do("invalidate", Event)
      /\ s[11] = Do("sleep", Event) /\ s[12] = Do("page", Event)
  BY SaveStepsAre
<1>3. k \in 1..12 /\ l + k = 12 + i
  BY <1>8
<1> HIDE DEF s, k, q
<1>9. /\ s[1].do = "hold" /\ s[2].do = "get" /\ s[3].do = "get" /\ s[4].do = "write"
      /\ s[5].do = "recent" /\ s[6].do = "put" /\ s[7].do = "put" /\ s[8].do = "drop"
      /\ s[9].do = "sleep" /\ s[10].do = "invalidate" /\ s[11].do = "sleep" /\ s[12].do = "page"
  BY <1>2, DoTypes
<1>4. \A j \in 1..12 : s[j].do \notin {"rewrite", "show", "pageHeat", "clearEvent", "store", "keep"}
  BY <1>9
<1>5. \A j \in 1..12 : s[j].do = "write" => j = 4
  BY <1>9
<1>10. \A j \in 1..12 : s[j].do = "get" => j \in {2, 3}
  BY <1>9
<1>11. /\ q.do \notin {"rewrite", "show", "pageHeat", "clearEvent", "keep"}
       /\ q.do = "write" => q = Do("write", r) /\ l = 8 + i
       /\ q.do \in {"store", "get"} /\ l <= 9 => i = 1
  <2>1. CASE q = s[k]
    <3>1. q.do \notin {"rewrite", "show", "pageHeat", "clearEvent", "store", "keep"}
      BY <1>3, <1>4, <2>1
    <3>2. q.do = "write" => q = Do("write", r) /\ l = 8 + i
      BY <1>8, <1>2, <1>3, <1>5, <2>1
    <3>3. q.do = "get" => l > 9 \/ i = 1
      BY <1>8, <1>3, <1>10, <2>1
    <3> QED
      BY <1>8, <3>1, <3>2, <3>3
  <2>2. CASE q # s[k]
    <3>1. i = 1 /\ q.do \in {"get", "store"}
      BY <1>1, <2>2, DoTypes
    <3> QED
      BY <3>1
  <2> QED
    BY <2>1, <2>2
<1> QED
  BY Zenon, <1>11 DEF q

LEMMA SavesTail ==
  ASSUME NEW r \in Races, NEW p \in Progs, Saves(r, p), NEW l \in Nat, Len(p) = l
  PROVE  /\ l > 1 => Saves(r, Tail(p)) /\ Len(Tail(p)) = l - 1
         /\ l = 1 => p = <<Do("page", Event)>> /\ Tail(p) = <<>>
<1>1. l \in 1..12 /\ p # <<>>
  BY SavesAt
<1>2. /\ Tail(p) \in Progs /\ Len(Tail(p)) = l - 1
      /\ \A i \in 1..(l - 1) : Tail(p)[i] = p[i + 1]
  BY <1>1, Cut
<1>3. ASSUME l > 1 PROVE Saves(r, Tail(p))
  <2>1. ASSUME NEW i \in 1..(l - 1)
        PROVE  Tail(p)[i] = SaveSteps(r)[(12 - (l - 1)) + i]
    <3> DEFINE j == i + 1
    <3>1. j \in 1..l /\ j # 1 /\ (12 - l) + j = (12 - (l - 1)) + i
      BY <1>1
    <3> HIDE DEF j
    <3>2. p[j] = SaveSteps(r)[(12 - l) + j]
      BY ZenonT(30), <3>1, SavesAt
    <3>3. Tail(p)[i] = p[j]
      BY <1>2 DEF j
    <3> QED
      BY Zenon, <3>1, <3>2, <3>3
  <2>2. l - 1 \in 1..12 /\ l - 1 \in Nat
    BY <1>1, <1>3
  <2> QED
    BY Zenon, <1>2, <2>1, <2>2, SavesAt
<1>4. ASSUME l = 1 PROVE p = <<Do("page", Event)>> /\ Tail(p) = <<>>
  <2>1. p[1] = Do("page", Event)
    BY <1>4, SavesHead
  <2>2. p = <<p[1]>>
    BY <1>4 DEF Progs
  <2>3. Len(Tail(p)) = 0
    BY <1>2, <1>4
  <2>4. Tail(p) = <<>>
    BY <1>2, <2>3, EmptySeq DEF Progs
  <2> QED
    BY <2>1, <2>2, <2>4
<1> QED
  BY <1>2, <1>3, <1>4

\* A save whose next step is put in its place is still one.
LEMMA SavesPut ==
  ASSUME NEW r \in Races, NEW p \in Progs, Saves(r, p), NEW l \in Nat, Len(p) = l,
         l \in {6, 7}, NEW i \in {"get", "store"}
  PROVE  LET q == <<Do(i, p[1].on)>> \o Tail(p)
         IN  Saves(r, q) /\ Len(q) = l /\ q[1] = Do(i, p[1].on) /\ q \in Progs
<1> DEFINE n == p[1].on
           q == <<Do(i, n)>> \o Tail(p)
<1>1. n = IF l = 7 THEN HeatOf[r] ELSE Event
  BY SavesHead
<1>2. Do(i, n) \in Instr
  BY <1>1, ModelTypes, DoTypes DEF Instructions
<1>3. p # <<>> /\ Tail(p) \in Progs /\ Len(Tail(p)) = l - 1 /\ \A j \in 1..(l - 1) : Tail(p)[j] = p[j + 1]
  BY Cut
<1> DEFINE t == Tail(p)
<1> HIDE DEF t, n
<1>4. q \in Progs /\ Len(q) = l /\ q[1] = Do(i, n) /\ \A j \in 2..l : q[j] = t[j - 1]
  BY <1>2, <1>3 DEF t, Progs
<1>5. \A j \in 2..l : q[j] = p[j]
  BY <1>3, <1>4 DEF t
<1> HIDE DEF q
<1>6. ASSUME NEW j \in 1..l
      PROVE  \/ q[j] = SaveSteps(r)[(12 - l) + j]
             \/ j = 1 /\ l = 7 /\ q[1] \in {Do("get", HeatOf[r]), Do("store", HeatOf[r])}
             \/ j = 1 /\ l = 6 /\ q[1] \in {Do("get", Event), Do("store", Event)}
  <2>1. CASE j = 1
    BY <1>1, <1>4, <2>1
  <2>2. CASE j # 1
    <3>1. j \in 2..l
      BY <2>2
    <3>2. p[j] = SaveSteps(r)[(12 - l) + j]
      BY Zenon, <2>2, SavesAt
    <3> QED
      BY Zenon, <1>5, <3>1, <3>2
  <2> QED
    BY <2>1, <2>2
<1>7. l \in 1..12
  OBVIOUS
<1>8. Saves(r, q)
  BY Zenon, <1>4, <1>6, <1>7, SavesAt
<1> QED
  BY Zenon, <1>4, <1>8 DEF q, n, t

\* The same for a race that is marshaled.
LEMMA ResavesHead ==
  ASSUME NEW r \in Races, NEW p \in Progs, Resaves(r, p), NEW l \in Nat, Len(p) = l
  PROVE  /\ l \in 1..17
         /\ l \in {16, 17} => p[1] \in {Do("rewrite", r), Do("get", r)}
         /\ l = 15 => p[1] = Do("drop", Event)
         /\ l = 14 => p[1] = Do("sleep", Event)
         /\ l = 13 => p[1] = Do("invalidate", Event)
         /\ l = 12 => p[1] = Do("hold", r)
         /\ l = 11 => p[1] = Do("sleep", Event)
         /\ l = 10 => p[1] = Do("clearEvent", Event)
         /\ l = 9 => p[1] = Do("get", r)
         /\ l = 8 => p[1] = Do("sleep", Event)
         /\ l = 7 => p[1] = Do("clearEvent", Event)
         /\ l = 6 => p[1] = Do("get", HeatOf[r])
         /\ l = 5 => p[1] = Do("sleep", Event)
         /\ l = 4 => p[1] = Do("get", Event)
         /\ l = 3 => p[1] = Do("drop", Event)
         /\ l = 2 => p[1] = Do("sleep", Event)
         /\ l = 1 => p[1] = Do("page", Event)
<1> DEFINE s == RebuildSteps(r)
           q == p[1]
<1>1. l \in 1..17 /\ 1 \in 1..l
  <2>1. l \in 1..17
    BY ResavesAt
  <2> QED
    BY <2>1
<1>0. \A i \in 1..l :
        IF l - i < 15 THEN p[i] = RebuildSteps(r)[(15 - l) + i]
        ELSE p[i] = Do("get", r) \/ (i = 1 /\ p[i] = Do("rewrite", r))
  BY Zenon, ResavesAt
<1>2. IF l - 1 < 15 THEN q = s[(15 - l) + 1]
      ELSE q = Do("get", r) \/ q = Do("rewrite", r)
  BY <1>1, <1>0
<1>3. /\ s[1] = Do("drop", Event) /\ s[2] = Do("sleep", Event)
      /\ s[3] = Do("invalidate", Event) /\ s[4] = Do("hold", r)
      /\ s[5] = Do("sleep", Event) /\ s[6] = Do("clearEvent", Event) /\ s[7] = Do("get", r)
      /\ s[8] = Do("sleep", Event) /\ s[9] = Do("clearEvent", Event)
      /\ s[10] = Do("get", HeatOf[r]) /\ s[11] = Do("sleep", Event)
      /\ s[12] = Do("get", Event) /\ s[13] = Do("drop", Event)
      /\ s[14] = Do("sleep", Event) /\ s[15] = Do("page", Event)
  BY RebuildStepsAre
<1> HIDE DEF s, q
<1>4. /\ l \in {16, 17} => q \in {Do("rewrite", r), Do("get", r)}
      /\ l < 16 => q = s[16 - l]
  BY <1>1, <1>2
<1>5. /\ l = 15 => q = Do("drop", Event)
      /\ l = 14 => q = Do("sleep", Event)
      /\ l = 13 => q = Do("invalidate", Event)
      /\ l = 12 => q = Do("hold", r)
      /\ l = 11 => q = Do("sleep", Event)
      /\ l = 10 => q = Do("clearEvent", Event)
      /\ l = 9 => q = Do("get", r)
      /\ l = 8 => q = Do("sleep", Event)
      /\ l = 7 => q = Do("clearEvent", Event)
      /\ l = 6 => q = Do("get", HeatOf[r])
      /\ l = 5 => q = Do("sleep", Event)
      /\ l = 4 => q = Do("get", Event)
      /\ l = 3 => q = Do("drop", Event)
      /\ l = 2 => q = Do("sleep", Event)
      /\ l = 1 => q = Do("page", Event)
  BY <1>3, <1>4
<1> QED
  BY Zenon, <1>1, <1>4, <1>5 DEF q

LEMMA ResavesElements ==
  ASSUME NEW r \in Races, NEW p \in Progs, Resaves(r, p), NEW l \in Nat, Len(p) = l,
         NEW i \in 1..l
  PROVE  /\ p[i].do \notin {"write", "show", "recent", "put", "store", "pageHeat", "keep"}
         /\ p[i].do = "rewrite" => i = 1 /\ p[i] = Do("rewrite", r) /\ l \in {16, 17}
<1> DEFINE s == RebuildSteps(r)
           q == p[i]
           k == (15 - l) + i
<1>1. l \in 1..17
  BY ResavesAt
<1>0. \A j \in 1..l :
        IF l - j < 15 THEN p[j] = RebuildSteps(r)[(15 - l) + j]
        ELSE p[j] = Do("get", r) \/ (j = 1 /\ p[j] = Do("rewrite", r))
  BY Zenon, ResavesAt
<1>2. IF l - i < 15 THEN q = s[k]
      ELSE q = Do("get", r) \/ (i = 1 /\ q = Do("rewrite", r))
  BY Zenon, <1>0
<1>3. l - i < 15 => k \in 1..15
  BY <1>1
<1>4. /\ s[1] = Do("drop", Event) /\ s[2] = Do("sleep", Event)
      /\ s[3] = Do("invalidate", Event) /\ s[4] = Do("hold", r)
      /\ s[5] = Do("sleep", Event) /\ s[6] = Do("clearEvent", Event) /\ s[7] = Do("get", r)
      /\ s[8] = Do("sleep", Event) /\ s[9] = Do("clearEvent", Event)
      /\ s[10] = Do("get", HeatOf[r]) /\ s[11] = Do("sleep", Event)
      /\ s[12] = Do("get", Event) /\ s[13] = Do("drop", Event)
      /\ s[14] = Do("sleep", Event) /\ s[15] = Do("page", Event)
  BY RebuildStepsAre
<1> HIDE DEF s, k, q
<1>5. /\ s[1].do = "drop" /\ s[2].do = "sleep" /\ s[3].do = "invalidate" /\ s[4].do = "hold"
      /\ s[5].do = "sleep" /\ s[6].do = "clearEvent" /\ s[7].do = "get" /\ s[8].do = "sleep"
      /\ s[9].do = "clearEvent" /\ s[10].do = "get" /\ s[11].do = "sleep" /\ s[12].do = "get"
      /\ s[13].do = "drop" /\ s[14].do = "sleep" /\ s[15].do = "page"
  BY <1>4, DoTypes
<1>6. \A j \in 1..15 : s[j].do \in {"drop", "sleep", "invalidate", "hold", "clearEvent", "get", "page"}
  <2> TAKE j \in 1..15
  <2>1. j = 1 \/ j = 2 \/ j = 3 \/ j = 4 \/ j = 5 \/ j = 6 \/ j = 7 \/ j = 8 \/ j = 9
        \/ j = 10 \/ j = 11 \/ j = 12 \/ j = 13 \/ j = 14 \/ j = 15
    OBVIOUS
  <2> QED
    BY Zenon, <1>5, <2>1
<1>7. /\ q.do \notin {"write", "show", "recent", "put", "store", "pageHeat", "keep"}
      /\ q.do = "rewrite" => i = 1 /\ q = Do("rewrite", r) /\ l \in {16, 17}
  <2>1. CASE l - i < 15
    <3>1. q.do \in {"drop", "sleep", "invalidate", "hold", "clearEvent", "get", "page"}
      BY <1>2, <1>3, <1>6, <2>1
    <3> QED
      BY <3>1
  <2>2. CASE ~(l - i < 15)
    <3>1. q = Do("get", r) \/ (i = 1 /\ q = Do("rewrite", r))
      BY <1>2, <2>2
    <3>2. q.do = "get" \/ (q.do = "rewrite" /\ i = 1 /\ q = Do("rewrite", r))
      BY <3>1, DoTypes
    <3>3. i = 1 => l \in {16, 17}
      BY <1>1, <2>2
    <3> QED
      BY <3>2, <3>3
  <2> QED
    BY <2>1, <2>2
<1> QED
  BY Zenon, <1>7 DEF q

LEMMA ResavesTail ==
  ASSUME NEW r \in Races, NEW p \in Progs, Resaves(r, p), NEW l \in Nat, Len(p) = l
  PROVE  /\ l > 1 => Resaves(r, Tail(p)) /\ Len(Tail(p)) = l - 1
         /\ l = 1 => p = <<Do("page", Event)>> /\ Tail(p) = <<>>
<1>1. l \in 1..17 /\ p # <<>>
  BY ResavesAt
<1>2. /\ Tail(p) \in Progs /\ Len(Tail(p)) = l - 1
      /\ \A i \in 1..(l - 1) : Tail(p)[i] = p[i + 1]
  BY <1>1, Cut
<1>0. \A j \in 1..l :
        IF l - j < 15 THEN p[j] = RebuildSteps(r)[(15 - l) + j]
        ELSE p[j] = Do("get", r) \/ (j = 1 /\ p[j] = Do("rewrite", r))
  BY Zenon, ResavesAt
<1>3. ASSUME l > 1 PROVE Resaves(r, Tail(p))
  <2> DEFINE m == l - 1
             t == Tail(p)
  <2>0. m \in 1..17 /\ m \in Nat /\ t \in Progs /\ Len(t) = m
    BY <1>1, <1>2, <1>3
  <2>1. ASSUME NEW i \in 1..m
        PROVE  IF m - i < 15 THEN t[i] = RebuildSteps(r)[(15 - m) + i]
               ELSE t[i] = Do("get", r) \/ (i = 1 /\ t[i] = Do("rewrite", r))
    <3> DEFINE j == i + 1
    <3>1. j \in 1..l /\ j # 1 /\ (15 - l) + j = (15 - m) + i /\ l - j = m - i
      BY <1>1
    <3>2. t[i] = p[j]
      BY <1>2
    <3> HIDE DEF j, m, t
    <3>3. IF l - j < 15 THEN p[j] = RebuildSteps(r)[(15 - l) + j] ELSE p[j] = Do("get", r)
      BY Zenon, <1>0, <3>1
    <3> QED
      BY Zenon, <3>1, <3>2, <3>3
  <2> HIDE DEF m, t
  <2>2. Resaves(r, t)
    BY Zenon, <2>0, <2>1, ResavesAt
  <2> QED
    BY Zenon, <2>2 DEF t
<1>4. ASSUME l = 1 PROVE p = <<Do("page", Event)>> /\ Tail(p) = <<>>
  <2>1. p[1] = Do("page", Event)
    BY <1>4, ResavesHead
  <2>2. p = <<p[1]>>
    BY <1>4 DEF Progs
  <2>3. Len(Tail(p)) = 0
    BY <1>2, <1>4
  <2>4. Tail(p) = <<>>
    BY <1>2, <2>3, EmptySeq DEF Progs
  <2> QED
    BY <2>1, <2>2, <2>4
<1> QED
  BY <1>2, <1>3, <1>4

-----------------------------------------------------------------------------
(* The build of a page.                                                    *)

LEMMA SetSequence ==
  ASSUME NEW S, IsFiniteSet(S)
  PROVE  /\ SetToSeq(S) \in Seq(S)
         /\ \A x \in S : \E i \in 1..Len(SetToSeq(S)) : SetToSeq(S)[i] = x
         /\ SetToSeq(S) = <<>> <=> S = {}
<1> DEFINE n == Cardinality(S)
           f == SetToSeq(S)
<1>1. n \in Nat /\ \E g \in [1..n -> S] : IsInjective(g)
  BY FS_CardinalityType DEF ExistsBijection, Bijection, Injection
<1>2. f \in [1..n -> S] /\ IsInjective(f)
  BY <1>1 DEF SetToSeq
<1>3. f \in Seq(S) /\ Len(f) = n
  BY <1>1, <1>2
<1> HIDE DEF f
<1>4. ASSUME NEW x \in S, \A i \in 1..n : f[i] # x PROVE FALSE
  <2> DEFINE T == S \ {x}
  <2>1. IsFiniteSet(T) /\ Cardinality(T) = n - 1
    BY FS_RemoveElement
  <2>2. f \in [1..n -> T]
    BY <1>2, <1>4
  <2>3. IsFiniteSet(1..n) /\ Cardinality(1..n) = n
    BY <1>1, FS_Interval
  <2> HIDE DEF T, n
  <2>4. \E i, j \in 1..n : i # j /\ f[i] = f[j]
    BY <1>1, <2>1, <2>2, <2>3, FS_PigeonHole
  <2> QED
    BY <1>2, <2>4 DEF IsInjective
<1>5. f = <<>> <=> n = 0
  BY <1>1, <1>3, EmptySeq
<1>6. n = 0 <=> S = {}
  BY FS_EmptySet
<1> QED
  BY <1>3, <1>4, <1>5, <1>6 DEF f

LEMMA RacesFinite ==
  ASSUME NEW h
  PROVE  IsFiniteSet(RacesOf(h)) /\ RacesOf(h) \subseteq Races
BY CachesAssumption, FS_Subset DEF RacesOf, Saved

LEMMA HeatStepsAre ==
  /\ HeatSteps \in Progs
  /\ \A i \in 1..Len(HeatSteps) : PageStep(HeatSteps[i])
  /\ \A h \in Heats : Has(HeatSteps, "pageHeat", h)
<1> DEFINE hs == SetToSeq(Heats)
           q == HeatSteps
<1>1. /\ hs \in Seq(Heats) /\ Len(hs) \in Nat
      /\ \A h \in Heats : \E i \in 1..Len(hs) : hs[i] = h
  BY CachesAssumption, SetSequence
<1>2. q = [i \in 1..Len(hs) |-> Do("pageHeat", hs[i])]
  BY DEF HeatSteps
<1> HIDE DEF hs, q
<1>3. \A i \in 1..Len(hs) : hs[i] \in Heats /\ Do("pageHeat", hs[i]) \in Instr
  BY <1>1, DoTypes, ModelTypes DEF Instructions
<1>4. q \in Progs /\ Len(q) = Len(hs) /\ \A i \in 1..Len(q) : q[i] = Do("pageHeat", hs[i])
  BY <1>1, <1>2, <1>3 DEF Progs
<1>5. \A i \in 1..Len(q) : PageStep(q[i])
  BY <1>3, <1>4, DoTypes DEF PageStep
<1>6. ASSUME NEW h \in Heats PROVE Has(q, "pageHeat", h)
  <2>1. PICK i \in 1..Len(hs) : hs[i] = h
    BY <1>1
  <2>2. i \in 1..Len(q) /\ q[i] = Do("pageHeat", h)
    BY <1>4, <2>1
  <2> QED
    BY <1>4, <2>2, InRange DEF Has
<1> QED
  BY <1>4, <1>5, <1>6 DEF q

LEMMA RaceStepsAre ==
  ASSUME NEW h \in Heats, NEW S \in SUBSET Races, IsFiniteSet(S)
  PROVE  LET q == RaceSteps(h, SetToSeq(S))
         IN  /\ q \in Progs
             /\ \A i \in 1..Len(q) : PageStep(q[i])
             /\ \A r \in S : Has(q, "get", r)
<1> DEFINE rs == SetToSeq(S)
           n == Len(rs)
           q == RaceSteps(h, rs)
<1>1. rs \in Seq(S) /\ n \in Nat /\ \A r \in S : \E i \in 1..n : rs[i] = r
  BY SetSequence
<1>2. q = [i \in 1..(2 * n) |-> IF i % 2 = 1 THEN Do("sleep", h) ELSE Do("get", rs[i \div 2])]
  BY DEF RaceSteps
<1> HIDE DEF rs, n, q
<1>3. ASSUME NEW i \in 1..(2 * n), i % 2 # 1 PROVE i \div 2 \in 1..n
  BY <1>1, <1>3
<1>4. \A i \in 1..n : rs[i] \in S /\ rs[i] \in Races
  BY <1>1, ElementOfSeq DEF n
<1>5. ASSUME NEW i \in 1..(2 * n)
      PROVE  q[i] \in Instr /\ PageStep(q[i])
  <2>1. CASE i % 2 = 1
    <3>1. q[i] = Do("sleep", h)
      BY <1>2, <2>1
    <3> QED
      BY <3>1, DoTypes, ModelTypes DEF PageStep, Instructions
  <2>2. CASE i % 2 # 1
    <3>1. q[i] = Do("get", rs[i \div 2]) /\ rs[i \div 2] \in Nodes
      BY <1>2, <1>3, <1>4, <2>2, ModelTypes
    <3> QED
      BY <3>1, DoTypes DEF PageStep, Instructions
  <2> QED
    BY <2>1, <2>2
<1>6. 2 * n \in Nat
  BY <1>1
<1>7. q \in Progs /\ Len(q) = 2 * n
  <2>1. q \in [1..(2 * n) -> Instr]
    BY <1>2, <1>5
  <2> QED
    BY <1>6, <2>1 DEF Progs
<1>8. ASSUME NEW r \in S PROVE Has(q, "get", r)
  <2>1. PICK i \in 1..n : rs[i] = r
    BY <1>1
  <2> DEFINE j == 2 * i
  <2>2. j \in 1..(2 * n) /\ j % 2 # 1 /\ j \div 2 = i
    BY <1>1
  <2> HIDE DEF j
  <2>3. q[j] = Do("get", r)
    BY <1>2, <2>1, <2>2
  <2>4. j \in 1..Len(q)
    BY <1>7, <2>2
  <2> QED
    BY Zenon, <1>7, <2>3, <2>4, InRange DEF Has
<1>9. \A i \in 1..Len(q) : PageStep(q[i])
  BY <1>5, <1>7
<1> QED
  BY Zenon, <1>7, <1>8, <1>9 DEF q, rs

LEMMA Joined ==
  ASSUME NEW p \in Progs, NEW q \in Progs
  PROVE  /\ p \o q \in Progs /\ Len(p \o q) = Len(p) + Len(q)
         /\ Len(p) \in Nat /\ Len(q) \in Nat
         /\ \A i \in 1..Len(p) : (p \o q)[i] = p[i]
         /\ \A i \in 1..Len(q) : (p \o q)[Len(p) + i] = q[i]
         /\ \A i \in 1..Len(p \o q) : i \in 1..Len(p) \/ (i - Len(p) \in 1..Len(q)
                                                       /\ (p \o q)[i] = q[i - Len(p)])
         /\ Range(p \o q) = Range(p) \cup Range(q)
<1>1. p \o q \in Progs /\ Range(p \o q) = Range(p) \cup Range(q)
  <2>1. p \o q \in Progs /\ ToSet(p \o q) = ToSet(p) \cup ToSet(q)
    BY ToSetConcat DEF Progs
  <2>2. ToSet(p \o q) = Range(p \o q) /\ ToSet(p) = Range(p) /\ ToSet(q) = Range(q)
    BY Zenon DEF ToSet, Range
  <2> QED
    BY Zenon, <2>1, <2>2
<1>2. /\ Len(p \o q) = Len(p) + Len(q) /\ Len(p) \in Nat /\ Len(q) \in Nat
      /\ \A i \in 1..Len(p) : (p \o q)[i] = p[i]
      /\ \A i \in 1..Len(q) : (p \o q)[Len(p) + i] = q[i]
      /\ \A i \in 1..Len(p \o q) : i \in 1..Len(p) \/ (i - Len(p) \in 1..Len(q)
                                                       /\ (p \o q)[i] = q[i - Len(p)])
  BY DEF Progs
<1> QED
  BY <1>1, <1>2

\* Building steps before the rest of a build are the rest of a build.
LEMMA PagesJoined ==
  ASSUME NEW q \in Progs, NEW p \in Progs, \A i \in 1..Len(q) : PageStep(q[i]), Pages(p)
  PROVE  Pages(q \o p)
<1> DEFINE s == q \o p
           m == Len(q)
           n == Len(p)
<1>1. /\ Len(s) = m + n /\ m \in Nat /\ n \in Nat
      /\ \A i \in 1..m : s[i] = q[i]
      /\ \A i \in 1..n : s[m + i] = p[i]
      /\ \A i \in 1..Len(s) : i \in 1..m \/ (i - m \in 1..n /\ s[i] = p[i - m])
  BY Joined
<1>2. n >= 1 /\ p[n] = Do("show", Event) /\ \A i \in 1..(n - 1) : PageStep(p[i])
  BY DEF Pages
<1>4. \A i \in 1..m : PageStep(q[i])
  OBVIOUS
<1> HIDE DEF s, m, n
<1>3. n \in 1..n /\ Len(s) >= 1
  BY <1>1, <1>2
<1>5. s[Len(s)] = Do("show", Event)
  BY <1>1, <1>2, <1>3
<1>6. ASSUME NEW i \in 1..(Len(s) - 1) PROVE PageStep(s[i])
  <2>1. CASE i \in 1..m
    BY <1>1, <1>4, <2>1
  <2>2. CASE i \notin 1..m
    <3>1. i - m \in 1..(n - 1) /\ s[i] = p[i - m]
      BY <1>1, <2>2
    <3> QED
      BY <1>2, <3>1
  <2> QED
    BY <2>1, <2>2
<1> QED
  BY <1>3, <1>5, <1>6 DEF Pages, s

LEMMA PagesTail ==
  ASSUME NEW p \in Progs, Pages(p), NEW l \in Nat, Len(p) = l
  PROVE  /\ p # <<>> /\ Tail(p) \in Progs /\ Len(Tail(p)) = l - 1
         /\ l > 1 => PageStep(p[1]) /\ Pages(Tail(p))
         /\ l = 1 => p[1] = Do("show", Event) /\ Tail(p) = <<>>
<1>1. l >= 1 /\ p[l] = Do("show", Event) /\ \A i \in 1..(l - 1) : PageStep(p[i])
  BY Zenon DEF Pages
<1>2. p # <<>>
  BY <1>1
<1>3. /\ Tail(p) \in Progs /\ Len(Tail(p)) = l - 1
      /\ \A i \in 1..(l - 1) : Tail(p)[i] = p[i + 1]
  BY <1>2, Cut
<1>4. ASSUME l > 1 PROVE PageStep(p[1]) /\ Pages(Tail(p))
  <2> DEFINE m == l - 1
             t == Tail(p)
  <2>1. m >= 1 /\ m \in 1..m /\ 1 \in 1..m /\ m + 1 = l
    BY <1>4
  <2>2. t[m] = Do("show", Event)
    BY <1>1, <1>3, <2>1
  <2>3. ASSUME NEW i \in 1..(m - 1) PROVE PageStep(t[i])
    <3>1. i + 1 \in 1..(l - 1) /\ i \in 1..(l - 1)
      OBVIOUS
    <3> QED
      BY <1>1, <1>3, <3>1
  <2>4. Len(t) = m /\ PageStep(p[1])
    BY <1>1, <1>3, <2>1
  <2> HIDE DEF m, t
  <2>5. Pages(t)
    BY Zenon, <2>1, <2>2, <2>3, <2>4 DEF Pages
  <2> QED
    BY <2>4, <2>5 DEF t
<1>5. ASSUME l = 1 PROVE p[1] = Do("show", Event) /\ Tail(p) = <<>>
  <2>1. Len(Tail(p)) = 0
    BY <1>3, <1>5
  <2> QED
    BY <1>1, <1>3, <1>5, <2>1, EmptySeq DEF Progs
<1> QED
  BY <1>2, <1>3, <1>4, <1>5

-----------------------------------------------------------------------------
(* Which step a program is at.                                             *)

LEMMA ReadsFacts ==
  ASSUME NEW p \in Progs, Reads(p)
  PROVE  /\ p # <<>> /\ p[1].do \in {"get", "drop"}
         /\ p[1].do = "get" => Reads(Tail(p))
         /\ p[1].do = "drop" => Tail(p) = <<>>
         /\ \A i \in 1..Len(p) : p[i].do \in {"get", "drop"}
<1>1. PICK n \in Heats \cup {Event} :
        p = <<Do("get", n), Do("drop", Event)>> \/ p = <<Do("drop", Event)>>
  BY DEF Reads
<1>2. CASE p = <<Do("drop", Event)>>
  <2>1. p # <<>> /\ p[1] = Do("drop", Event) /\ Tail(p) = <<>> /\ \A i \in 1..Len(p) : p[i] = Do("drop", Event)
    BY <1>2
  <2>2. Do("drop", Event).do = "drop" /\ "drop" # "get"
    BY DoTypes
  <2> QED
    BY <2>1, <2>2
<1>3. CASE p = <<Do("get", n), Do("drop", Event)>>
  <2>1. /\ p # <<>> /\ p[1] = Do("get", n) /\ Tail(p) = <<Do("drop", Event)>>
        /\ \A i \in 1..Len(p) : p[i] = Do("drop", Event) \/ p[i] = Do("get", n)
    BY <1>3
  <2>2. Do("drop", Event).do = "drop" /\ Do("get", n).do = "get" /\ "drop" # "get"
    BY DoTypes
  <2>3. Reads(Tail(p))
    BY <2>1 DEF Reads
  <2> QED
    BY <2>1, <2>2, <2>3
<1> QED
  BY <1>1, <1>2, <1>3

LEMMA PageFacts ==
  LET p == <<Do("page", Event)>>
  IN  /\ p \in Progs /\ p # <<>> /\ Len(p) = 1 /\ p[1] = Do("page", Event) /\ Tail(p) = <<>>
      /\ \A i \in 1..Len(p) : p[i] = Do("page", Event)
<1>1. Do("page", Event) \in Instr
  BY DoTypes, ModelTypes DEF Instructions
<1> QED
  BY <1>1 DEF Progs

\* What is left of a program is one.
LEMMA FormTail ==
  ASSUME NEW p \in Progs, Form(p), p # <<>>
  PROVE  Form(Tail(p))
<1>1. Len(p) \in Nat
  BY DEF Progs
<1>2. CASE p = <<Do("page", Event)>>
  BY <1>2, PageFacts DEF Form
<1>3. CASE Reads(p)
  <2>1. Reads(Tail(p)) \/ Tail(p) = <<>>
    BY <1>3, ReadsFacts
  <2> QED
    BY Zenon, <2>1 DEF Form
<1>4. CASE Pages(p)
  <2>1. Pages(Tail(p)) \/ Tail(p) = <<>>
    <3> DEFINE l == Len(p)
    <3>1. l \in Nat /\ l >= 1
      BY <1>1, <1>4 DEF Pages
    <3>2. l > 1 \/ l = 1
      BY <3>1
    <3> QED
      BY <1>4, <3>1, <3>2, PagesTail
  <2> QED
    BY Zenon, <2>1 DEF Form
<1>5. ASSUME NEW r \in Races, Saves(r, p) \/ Resaves(r, p) PROVE Form(Tail(p))
  <2> DEFINE l == Len(p)
  <2>0. l \in Nat /\ Len(p) = l
    BY <1>1
  <2> HIDE DEF l
  <2>1. l \in Nat /\ l >= 1
    BY <1>5, <2>0, SavesAt, ResavesAt
  <2>2. l > 1 \/ l = 1
    BY <2>1
  <2>3. Saves(r, Tail(p)) \/ Resaves(r, Tail(p)) \/ Tail(p) = <<>>
    <3>1. CASE Saves(r, p)
      BY <3>1, <2>0, <2>1, <2>2, SavesTail
    <3>2. CASE Resaves(r, p)
      BY <3>2, <2>0, <2>1, <2>2, ResavesTail
    <3> QED
      BY <1>5, <3>1, <3>2
  <2> QED
    BY Zenon, <2>3 DEF Form
<1> QED
  BY Zenon, <1>2, <1>3, <1>4, <1>5 DEF Form

LEMMA SavesDo ==
  ASSUME NEW r \in Races, NEW p \in Progs, Saves(r, p), NEW l \in Nat, Len(p) = l
  PROVE  /\ p # <<>> /\ l \in 1..12
         /\ p[1].do = "hold" <=> l = 12
         /\ p[1].do = "write" <=> l = 9
         /\ p[1].do = "recent" <=> l = 8
         /\ p[1].do \in {"put", "store"} => l \in {6, 7}
         /\ p[1].do = "drop" <=> l = 5
         /\ p[1].do = "sleep" <=> l \in {2, 4}
         /\ p[1].do = "invalidate" <=> l = 3
         /\ p[1].do = "page" <=> l = 1
         /\ p[1].do = "get" => l \in {6, 7, 10, 11}
         /\ p[1].do \notin {"rewrite", "clearEvent", "pageHeat", "keep", "show", "pageHeats"}
         /\ l \in {6, 7} => p[1].do \in {"put", "store", "get"}
         /\ l \in {10, 11} => p[1].do = "get"
         /\ l = 12 => p[1].on = HeatOf[r]
         /\ l \in {8, 9} => p[1].on = r
         /\ l \in {7, 11} => p[1].on = HeatOf[r]
         /\ l \in {6, 10} => p[1].on = Event
<1> DEFINE d == p[1]
<1>1. p # <<>> /\ l \in 1..12
  BY SavesHead, EmptySeq
<1>2. /\ l = 12 => d.do = "hold" /\ d.on = HeatOf[r]
      /\ l = 11 => d.do = "get" /\ d.on = HeatOf[r]
      /\ l = 10 => d.do = "get" /\ d.on = Event
      /\ l = 9 => d.do = "write" /\ d.on = r
      /\ l = 8 => d.do = "recent" /\ d.on = r
      /\ l = 7 => d.do \in {"put", "get", "store"} /\ d.on = HeatOf[r]
      /\ l = 6 => d.do \in {"put", "get", "store"} /\ d.on = Event
      /\ l = 5 => d.do = "drop"
      /\ l = 4 => d.do = "sleep"
      /\ l = 3 => d.do = "invalidate"
      /\ l = 2 => d.do = "sleep"
      /\ l = 1 => d.do = "page"
  BY SavesHead, DoTypes
<1> HIDE DEF d
<1>3. \/ l = 1 \/ l = 2 \/ l = 3 \/ l = 4 \/ l = 5 \/ l = 6 \/ l = 7 \/ l = 8 \/ l = 9
      \/ l = 10 \/ l = 11 \/ l = 12
  BY <1>1
<1>4. /\ d.do = "hold" <=> l = 12
      /\ d.do = "write" <=> l = 9
      /\ d.do = "recent" <=> l = 8
      /\ d.do \in {"put", "store"} => l \in {6, 7}
      /\ d.do = "drop" <=> l = 5
      /\ d.do = "sleep" <=> l \in {2, 4}
      /\ d.do = "invalidate" <=> l = 3
      /\ d.do = "page" <=> l = 1
      /\ d.do = "get" => l \in {6, 7, 10, 11}
      /\ d.do \notin {"rewrite", "clearEvent", "pageHeat", "keep", "show", "pageHeats"}
      /\ l \in {6, 7} => d.do \in {"put", "store", "get"}
      /\ l \in {10, 11} => d.do = "get"
      /\ l = 12 => d.on = HeatOf[r]
      /\ l \in {8, 9} => d.on = r
      /\ l \in {7, 11} => d.on = HeatOf[r]
      /\ l \in {6, 10} => d.on = Event
  BY <1>2, <1>3
<1> QED
  BY Zenon, <1>1, <1>4 DEF d

LEMMA ResavesDo ==
  ASSUME NEW r \in Races, NEW p \in Progs, Resaves(r, p), NEW l \in Nat, Len(p) = l
  PROVE  /\ p # <<>> /\ l \in 1..17
         /\ p[1].do = "rewrite" => l \in {16, 17} /\ p[1].on = r
         /\ p[1].do = "drop" <=> l \in {15, 3}
         /\ p[1].do = "sleep" <=> l \in {14, 11, 8, 5, 2}
         /\ p[1].do = "invalidate" <=> l = 13
         /\ p[1].do = "hold" <=> l = 12
         /\ p[1].do = "clearEvent" <=> l \in {10, 7}
         /\ p[1].do = "page" <=> l = 1
         /\ p[1].do = "get" => l \in {17, 16, 9, 6, 4}
         /\ p[1].do \notin {"write", "recent", "put", "store", "pageHeat", "keep", "show", "pageHeats"}
         /\ l \in {12, 16, 17} => p[1].on = r
<1> DEFINE d == p[1]
<1>0. l \in 1..17
  BY ResavesAt
<1>1. p # <<>> /\ l \in 1..17
  BY <1>0
<1>2. /\ l \in {16, 17} => d.do \in {"rewrite", "get"} /\ d.on = r
      /\ l = 15 => d.do = "drop"
      /\ l = 14 => d.do = "sleep"
      /\ l = 13 => d.do = "invalidate"
      /\ l = 12 => d.do = "hold" /\ d.on = r
      /\ l = 11 => d.do = "sleep"
      /\ l = 10 => d.do = "clearEvent"
      /\ l = 9 => d.do = "get"
      /\ l = 8 => d.do = "sleep"
      /\ l = 7 => d.do = "clearEvent"
      /\ l = 6 => d.do = "get"
      /\ l = 5 => d.do = "sleep"
      /\ l = 4 => d.do = "get"
      /\ l = 3 => d.do = "drop"
      /\ l = 2 => d.do = "sleep"
      /\ l = 1 => d.do = "page"
  <2>1. /\ l \in {16, 17} => d \in {Do("rewrite", r), Do("get", r)}
        /\ l = 15 => d = Do("drop", Event)
        /\ l = 14 => d = Do("sleep", Event)
        /\ l = 13 => d = Do("invalidate", Event)
        /\ l = 12 => d = Do("hold", r)
        /\ l = 11 => d = Do("sleep", Event)
        /\ l = 10 => d = Do("clearEvent", Event)
        /\ l = 9 => d = Do("get", r)
        /\ l = 8 => d = Do("sleep", Event)
        /\ l = 7 => d = Do("clearEvent", Event)
        /\ l = 6 => d = Do("get", HeatOf[r])
        /\ l = 5 => d = Do("sleep", Event)
        /\ l = 4 => d = Do("get", Event)
        /\ l = 3 => d = Do("drop", Event)
        /\ l = 2 => d = Do("sleep", Event)
        /\ l = 1 => d = Do("page", Event)
    BY ZenonT(40), ResavesHead
  <2> HIDE DEF d
  <2> QED
    BY <2>1, DoTypes
<1> HIDE DEF d
<1>3. \/ l = 1 \/ l = 2 \/ l = 3 \/ l = 4 \/ l = 5 \/ l = 6 \/ l = 7 \/ l = 8 \/ l = 9
      \/ l = 10 \/ l = 11 \/ l = 12 \/ l = 13 \/ l = 14 \/ l = 15 \/ l = 16 \/ l = 17
  BY <1>1
<1>4. /\ d.do = "rewrite" => l \in {16, 17} /\ d.on = r
      /\ d.do = "drop" <=> l \in {15, 3}
      /\ d.do = "sleep" <=> l \in {14, 11, 8, 5, 2}
      /\ d.do = "invalidate" <=> l = 13
      /\ d.do = "hold" <=> l = 12
      /\ d.do = "clearEvent" <=> l \in {10, 7}
      /\ d.do = "page" <=> l = 1
      /\ d.do = "get" => l \in {17, 16, 9, 6, 4}
      /\ d.do \notin {"write", "recent", "put", "store", "pageHeat", "keep", "show", "pageHeats"}
      /\ l \in {12, 16, 17} => d.on = r
  BY <1>2, <1>3
<1> QED
  BY Zenon, <1>1, <1>4 DEF d

LEMMA PagesDo ==
  ASSUME NEW p \in Progs, Pages(p), NEW l \in Nat, Len(p) = l
  PROVE  /\ p # <<>> /\ l >= 1
         /\ p[1].do = "show" <=> l = 1
         /\ p[1].do \in {"show", "sleep", "get", "pageHeat", "keep"}
         /\ p[1].do = "pageHeat" => p[1].on \in Heats
         /\ p[1].do = "keep" => p[1].on \in Races
<1>1. p # <<>> /\ l >= 1 /\ (l > 1 \/ l = 1)
  BY PagesTail DEF Pages
<1>2. /\ l > 1 => PageStep(p[1])
      /\ l = 1 => p[1] = Do("show", Event)
  BY PagesTail
<1> QED
  BY <1>1, <1>2, DoTypes DEF PageStep

LEMMA HeadTypes ==
  ASSUME NEW p \in Progs, Form(p), p # <<>>
  PROVE  LET d == p[1] IN
         /\ d.do \in {"write", "rewrite", "recent", "keep"} => d.on \in Races
         /\ d.do = "pageHeat" => d.on \in Heats
         /\ d.do \in {"put", "store"} => d.on \in Heats \cup {Event}
         /\ d.do = "hold" => d.on \in Rows
         /\ d.do \in {"page", "show"} => Tail(p) = <<>>
         /\ d.do \in {"pageHeat", "keep"} => Pages(Tail(p))
         /\ d.do = "put" => \E r \in Races : Saves(r, p) /\ Len(p) \in {6, 7}
         /\ d.do = "write" => \E r \in Races : Saves(r, p) /\ Len(p) = 9 /\ d.on = r
         /\ d.do = "rewrite" => \E r \in Races : Resaves(r, p) /\ d.on = r
<1> DEFINE l == Len(p)
           d == p[1]
           Goal == /\ d.do \in {"write", "rewrite", "recent", "keep"} => d.on \in Races
                   /\ d.do = "pageHeat" => d.on \in Heats
                   /\ d.do \in {"put", "store"} => d.on \in Heats \cup {Event}
                   /\ d.do = "hold" => d.on \in Rows
                   /\ d.do \in {"page", "show"} => Tail(p) = <<>>
                   /\ d.do \in {"pageHeat", "keep"} => Pages(Tail(p))
                   /\ d.do = "put" => \E r \in Races : Saves(r, p) /\ l \in {6, 7}
                   /\ d.do = "write" => \E r \in Races : Saves(r, p) /\ l = 9 /\ d.on = r
                   /\ d.do = "rewrite" => \E r \in Races : Resaves(r, p) /\ d.on = r
<1>0. l \in Nat /\ Len(p) = l /\ p[1] = d
  BY DEF Progs
<1> HIDE DEF l, d
<1>1. CASE p = <<Do("page", Event)>>
  <2>1. d.do = "page" /\ Tail(p) = <<>>
    BY <1>0, <1>1, PageFacts, DoTypes
  <2>2. Goal
    BY <2>1
  <2> QED
    BY <1>0, <2>2 DEF l, d
<1>2. CASE Reads(p)
  <2>1. d.do \in {"get", "drop"}
    BY <1>0, <1>2, ReadsFacts
  <2>2. Goal
    BY <2>1
  <2> QED
    BY <1>0, <2>2 DEF l, d
<1>3. CASE Pages(p)
  <2>1. /\ d.do = "show" <=> l = 1
        /\ d.do \in {"show", "sleep", "get", "pageHeat", "keep"} /\ l >= 1
        /\ d.do = "pageHeat" => d.on \in Heats
        /\ d.do = "keep" => d.on \in Races
    BY Zenon, <1>0, <1>3, PagesDo
  <2>2. /\ l > 1 => Pages(Tail(p))
        /\ l = 1 => Tail(p) = <<>>
    BY <1>0, <1>3, PagesTail
  <2>3. Goal
    BY <1>0, <2>1, <2>2
  <2> QED
    BY <1>0, <2>3 DEF l, d
<1>4. ASSUME NEW r \in Races, Saves(r, p) PROVE Goal
  <2>1. /\ l \in 1..12
        /\ d.do = "hold" <=> l = 12
        /\ d.do = "write" <=> l = 9
        /\ d.do = "recent" <=> l = 8
        /\ d.do \in {"put", "store"} => l \in {6, 7}
        /\ d.do = "page" <=> l = 1
        /\ d.do \notin {"rewrite", "clearEvent", "pageHeat", "keep", "show", "pageHeats"}
        /\ l = 12 => d.on = HeatOf[r]
        /\ l \in {8, 9} => d.on = r
        /\ l \in {7, 11} => d.on = HeatOf[r]
        /\ l \in {6, 10} => d.on = Event
    BY <1>0, <1>4, SavesDo
  <2>2. l = 1 => Tail(p) = <<>>
    BY <1>0, <1>4, SavesTail
  <2>3. HeatOf[r] \in Heats /\ HeatOf[r] \in Rows
    BY ModelTypes
  <2> QED
    BY <1>4, <2>1, <2>2, <2>3
<1>5. ASSUME NEW r \in Races, Resaves(r, p) PROVE Goal
  <2>1. /\ d.do = "rewrite" => d.on = r
        /\ d.do = "page" <=> l = 1
        /\ d.do = "hold" <=> l = 12
        /\ d.do \notin {"write", "recent", "put", "store", "pageHeat", "keep", "show", "pageHeats"}
        /\ l \in {12, 16, 17} => d.on = r
    BY <1>0, <1>5, ResavesDo
  <2>2. l = 1 => Tail(p) = <<>>
    BY <1>0, <1>5, ResavesTail
  <2>3. r \in Rows
    BY ModelTypes
  <2> QED
    BY <1>5, <2>1, <2>2, <2>3
<1>6. Goal
  BY <1>1, <1>2, <1>3, <1>4, <1>5 DEF Form, l, d
<1> QED
  BY Zenon, <1>6 DEF l, d

-----------------------------------------------------------------------------
(* Types.                                                                  *)

StoredOK == laps \in [Races -> 0..MaxVersion] /\ db \in [Nodes -> Status] /\ now \in Nat
FlagsOK ==
  /\ page \in [valid : BOOLEAN, shown : [Nodes -> Contents]]
  /\ updating \in BOOLEAN /\ calc \in BOOLEAN
ProgsOK == prog \in [Workers -> Progs]
CallsOK == calls \in [Workers -> Seq(Builds)]
GotOK == got \in [Workers -> [Nodes -> Contents]]
CopiesOK == copies \in [Workers -> [Rows -> Status]]
RestOK ==
  /\ token \in [Workers -> Nat] /\ asked \in 0..MaxRequests
  /\ clean \in BOOLEAN /\ cpu \in Workers \cup {Free}

LEMMA TypeParts ==
  /\ TypeOK <=> StoredOK /\ FlagsOK /\ ProgsOK /\ CallsOK /\ GotOK /\ CopiesOK /\ RestOK
  /\ TypeOK' <=> StoredOK' /\ FlagsOK' /\ ProgsOK' /\ CallsOK' /\ GotOK' /\ CopiesOK' /\ RestOK'
BY Zenon DEF TypeOK, StoredOK, FlagsOK, ProgsOK, CallsOK, GotOK, CopiesOK, RestOK, Progs, Instr

LEMMA ContentsTypes ==
  /\ {} \in Contents
  /\ \A a, b \in Contents : a \cup b \in Contents
  /\ \A r \in Races : {<<r, 1>>} \in Contents
<1>1. 1 \in 1..MaxVersion
  BY CachesAssumption
<1> QED
  BY <1>1 DEF Contents

LEMMA CurrentType ==
  ASSUME StoredOK, NEW n
  PROVE  Current(n) \in Contents
<1> DEFINE S == IF n = Event THEN Saved ELSE IF n \in Heats THEN RacesOf(n) ELSE {n} \cap Saved
<1>1. \A r \in S : r \in Races /\ laps[r] > 0 /\ laps[r] \in 0..MaxVersion
  BY DEF Saved, RacesOf, StoredOK
<1>2. \A r \in S : r \in Races /\ laps[r] \in 1..MaxVersion
  BY <1>1, CachesAssumption
<1>3. Current(n) = {<<r, laps[r]>> : r \in S}
  BY Zenon DEF Current
<1> HIDE DEF S
<1> QED
  BY <1>2, <1>3 DEF Contents

LEMMA StatusTypes ==
  /\ NoRow \in Status /\ NoRow.ver = 0 /\ NoRow.built = 0 /\ NoRow.res = {}
  /\ \A t \in Nat : Cleared(t) \in Status
  /\ \A t \in Nat, c \in Contents : [ver |-> t, built |-> t, res |-> c] \in Status
BY ContentsTypes DEF NoRow, Status, Cleared

LEMMA ViewType ==
  ASSUME StoredOK, CopiesOK, NEW w \in Workers, NEW n \in Nodes
  PROVE  View(w, n) \in Status
BY DEF StoredOK, CopiesOK, View, Holds

LEMMA LoadedType ==
  ASSUME StoredOK, CopiesOK, NEW w \in Workers, NEW S
  PROVE  Loaded(w, S) \in [Workers -> [Rows -> Status]]
<1> DEFINE f == [n \in Rows |-> IF n \in S THEN View(w, n) ELSE copies[w][n]]
<1>1. \A n \in Rows : View(w, n) \in Status
  BY ViewType, ModelTypes
<1>2. f \in [Rows -> Status]
  BY <1>1 DEF CopiesOK
<1>3. Loaded(w, S) = [copies EXCEPT ![w] = f]
  BY DEF Loaded
<1> HIDE DEF f
<1> QED
  BY <1>2, <1>3 DEF CopiesOK

LEMMA DroppedType ==
  ASSUME CopiesOK, NEW w \in Workers, NEW S
  PROVE  Dropped(w, S) \in [Workers -> [Rows -> Status]]
<1> DEFINE f == [n \in Rows |-> IF n \in S THEN NoRow ELSE copies[w][n]]
<1>1. f \in [Rows -> Status]
  BY StatusTypes DEF CopiesOK
<1>2. Dropped(w, S) = [copies EXCEPT ![w] = f]
  BY DEF Dropped
<1> HIDE DEF f
<1> QED
  BY <1>1, <1>2 DEF CopiesOK

LEMMA WriteType ==
  ASSUME StoredOK, CopiesOK, NEW w \in Workers, NEW S, NEW s \in Status, Write(w, S, s)
  PROVE  db' \in [Nodes -> Status] /\ CopiesOK'
<1> DEFINE f == [n \in Rows |-> IF n \in S /\ n \in Holds(w) THEN s ELSE copies[w][n]]
<1>1. f \in [Rows -> Status]
  BY DEF CopiesOK
<1>2. /\ copies' = [copies EXCEPT ![w] = f]
      /\ db' = [n \in Nodes |-> IF n \in S THEN s ELSE db[n]]
  BY DEF Write
<1> HIDE DEF f
<1> QED
  BY <1>1, <1>2 DEF StoredOK, CopiesOK

LEMMA SetResultsType ==
  ASSUME StoredOK, CopiesOK, NEW w \in Workers, NEW n \in Nodes, NEW t \in Nat,
         NEW c \in Contents, NEW S, SetResults(w, n, t, c, S)
  PROVE  db' \in [Nodes -> Status] /\ CopiesOK'
<1> DEFINE s == [ver |-> t, built |-> t, res |-> c]
           ok == View(w, n).ver = t
           f == [m \in Rows |-> IF m \in S THEN NoRow
                                ELSE IF ok /\ m = n /\ m \in Holds(w) THEN s ELSE copies[w][m]]
<1>1. s \in Status
  BY StatusTypes
<1>2. /\ db' = IF ok THEN [db EXCEPT ![n] = s] ELSE db
      /\ copies' = [copies EXCEPT ![w] = f]
  BY DEF SetResults
<1> HIDE DEF s, ok
<1>3. f \in [Rows -> Status]
  BY <1>1, StatusTypes DEF CopiesOK
<1> HIDE DEF f
<1> QED
  BY <1>1, <1>2, <1>3 DEF StoredOK, CopiesOK

LEMMA RangeCut ==
  ASSUME NEW p \in Progs, p # <<>>
  PROVE  Range(p) = Range(Tail(p)) \cup {p[1]}
<1>1. ToSet(p) = ToSet(Tail(p)) \cup {Head(p)} /\ Head(p) = p[1]
  BY ToSetTail DEF Progs
<1> QED
  BY Zenon, <1>1 DEF ToSet, Range

LEMMA HasCut ==
  ASSUME NEW p \in Progs, p # <<>>, NEW i, NEW n
  PROVE  /\ Has(Tail(p), i, n) => Has(p, i, n)
         /\ p[1].do # i => (Has(Tail(p), i, n) <=> Has(p, i, n))
<1>1. Do(i, n).do = i
  BY DoTypes
<1> QED
  BY <1>1, RangeCut DEF Has

LEMMA HasPut ==
  ASSUME NEW p \in Progs, p # <<>>, NEW d \in Instr, NEW i, NEW n, p[1].do # i, d.do # i
  PROVE  Has(<<d>> \o Tail(p), i, n) <=> Has(p, i, n)
<1>1. Do(i, n).do = i
  BY DoTypes
<1>2. Tail(p) \in Progs
  BY Cut
<1>3. ToSet(<<d>> \o Tail(p)) = ToSet(Tail(p)) \cup {d}
  <2> DEFINE t == Tail(p)
  <2>1. t \in Seq(Instr)
    BY <1>2 DEF Progs
  <2> HIDE DEF t
  <2>2. ToSet(<<d>> \o t) = ToSet(t) \cup {d}
    BY <2>1, ToSetPut
  <2> QED
    BY <2>2 DEF t
<1>4. Range(<<d>> \o Tail(p)) = Range(Tail(p)) \cup {d}
  BY Zenon, <1>3 DEF ToSet, Range
<1> QED
  BY <1>1, <1>4, RangeCut DEF Has

LEMMA PagesHas ==
  ASSUME NEW p \in Progs, Pages(p), NEW r
  PROVE  Has(p, "show", Event) /\ ~Has(p, "write", r) /\ ~Has(p, "rewrite", r)
<1> DEFINE l == Len(p)
<1>0. l \in Nat /\ Len(p) = l
  BY DEF Progs
<1>1. l >= 1 /\ p[l] = Do("show", Event) /\ \A i \in 1..(l - 1) : PageStep(p[i])
  BY Zenon DEF Pages
<1> HIDE DEF l
<1>2. Has(p, "show", Event)
  <2>1. l \in 1..l
    BY <1>0, <1>1
  <2> QED
    BY Zenon, <1>0, <1>1, <2>1, InRange DEF Has
<1>3. \A i \in 1..l : p[i].do \in {"show", "sleep", "get", "pageHeat", "keep"}
  <2> TAKE i \in 1..l
  <2>1. i = l \/ i \in 1..(l - 1)
    BY <1>0
  <2>2. PageStep(p[i]) => p[i].do \in {"show", "sleep", "get", "pageHeat", "keep"}
    BY DEF PageStep
  <2>3. Do("show", Event).do = "show"
    BY DoTypes
  <2> QED
    BY <1>1, <2>1, <2>2, <2>3
<1>4. ASSUME NEW i \in {"write", "rewrite"} PROVE ~Has(p, i, r)
  <2>1. Do(i, r).do = i
    BY DoTypes
  <2>2. \A j \in 1..l : p[j] # Do(i, r)
    BY <1>3, <2>1
  <2> QED
    BY Zenon, <1>0, <2>2, InRange DEF Has
<1> QED
  BY <1>2, <1>4

\* The heats of a page, with what follows them, and the races of one heat.
LEMMA PageBuilt ==
  ASSUME NEW t, t = <<Do("sleep", Event), Do("get", Event), Do("show", Event)>>
  PROVE  /\ t \in Progs /\ HeatSteps \o t \in Progs /\ Pages(HeatSteps \o t)
         /\ \A h \in Heats : Has(HeatSteps \o t, "pageHeat", h)
<1>1. /\ Do("sleep", Event) \in Instr /\ Do("get", Event) \in Instr /\ Do("show", Event) \in Instr
      /\ Do("sleep", Event).do = "sleep" /\ Do("get", Event).do = "get"
  BY DoTypes, ModelTypes DEF Instructions
<1>2. /\ t \in Progs /\ Len(t) = 3 /\ t[1] = Do("sleep", Event) /\ t[2] = Do("get", Event)
      /\ t[3] = Do("show", Event)
  BY <1>1 DEF Progs
<1>3. Pages(t)
  <2>1. PageStep(t[1]) /\ PageStep(t[2])
    BY <1>1, <1>2 DEF PageStep
  <2>2. \A i \in 1..(Len(t) - 1) : i = 1 \/ i = 2
    BY <1>2
  <2> QED
    BY <1>2, <2>1, <2>2 DEF Pages
<1>4. /\ HeatSteps \in Progs /\ \A i \in 1..Len(HeatSteps) : PageStep(HeatSteps[i])
      /\ \A h \in Heats : Has(HeatSteps, "pageHeat", h)
  BY HeatStepsAre
<1>5. HeatSteps \o t \in Progs /\ Range(HeatSteps \o t) = Range(HeatSteps) \cup Range(t)
  BY <1>2, <1>4, Joined
<1>6. Pages(HeatSteps \o t)
  BY <1>2, <1>3, <1>4, PagesJoined
<1> QED
  BY <1>2, <1>4, <1>5, <1>6 DEF Has

LEMMA HeatBuilt ==
  ASSUME NEW h \in Heats, NEW S \in SUBSET Races, IsFiniteSet(S), S # {},
         NEW p \in Progs, Pages(p), NEW k, k = <<Do("keep", Last(SetToSeq(S))), Do("get", h)>>
  PROVE  /\ Last(SetToSeq(S)) \in S
         /\ RaceSteps(h, SetToSeq(S)) \o k \o p \in Progs
         /\ Pages(RaceSteps(h, SetToSeq(S)) \o k \o p)
         /\ \A r \in S : Has(RaceSteps(h, SetToSeq(S)) \o k \o p, "get", r)
         /\ Has(RaceSteps(h, SetToSeq(S)) \o k \o p, "get", h)
         /\ \A i, n : Has(p, i, n) => Has(RaceSteps(h, SetToSeq(S)) \o k \o p, i, n)
<1> DEFINE rs == SetToSeq(S)
           x == Last(rs)
           q == RaceSteps(h, rs)
<1>1. x \in S /\ x \in Races
  <2>1. rs \in Seq(S) /\ rs # <<>>
    BY SetSequence
  <2> HIDE DEF rs
  <2>2. Len(rs) \in 1..Len(rs)
    BY <2>1
  <2>3. rs[Len(rs)] \in S
    BY <2>1, <2>2, ElementOfSeq
  <2> QED
    BY <2>3 DEF Last
<1>2. q \in Progs /\ (\A i \in 1..Len(q) : PageStep(q[i])) /\ \A r \in S : Has(q, "get", r)
  BY RaceStepsAre
<1>3. k = <<Do("keep", x), Do("get", h)>>
  OBVIOUS
<1> HIDE DEF x, q, rs
<1>4. /\ Do("keep", x) \in Instr /\ Do("get", h) \in Instr /\ Do("get", h).do = "get"
      /\ Do("keep", x).do = "keep" /\ Do("keep", x).on = x
  BY <1>1, DoTypes, ModelTypes DEF Instructions
<1>5. k \in Progs /\ Len(k) = 2 /\ k[1] = Do("keep", x) /\ k[2] = Do("get", h)
  BY <1>3, <1>4 DEF Progs
<1>6. \A i \in 1..Len(k) : PageStep(k[i])
  <2>1. PageStep(k[1]) /\ PageStep(k[2])
    BY <1>1, <1>4, <1>5 DEF PageStep
  <2>2. \A i \in 1..Len(k) : i = 1 \/ i = 2
    BY <1>5
  <2> QED
    BY <2>1, <2>2
<1>7. Has(k, "get", h)
  <2>1. 2 \in 1..Len(k)
    BY <1>5
  <2> QED
    BY Zenon, <1>5, <2>1, InRange DEF Has
<1>8. k \o p \in Progs /\ Pages(k \o p) /\ Range(k \o p) = Range(k) \cup Range(p)
  BY <1>5, <1>6, PagesJoined, Joined
<1> DEFINE u == k \o p
<1> HIDE DEF u
<1>9. q \o u \in Progs /\ Pages(q \o u) /\ Range(q \o u) = Range(q) \cup Range(u)
  BY <1>2, <1>8, PagesJoined, Joined DEF u
<1>10. q \o k \o p = q \o u
  BY <1>2, <1>5 DEF u, Progs
<1>11. Range(q \o k \o p) = Range(q) \cup Range(k) \cup Range(p)
  BY Zenon, <1>8, <1>9, <1>10 DEF u
<1>12. /\ \A r \in S : Has(q \o k \o p, "get", r)
       /\ Has(q \o k \o p, "get", h)
       /\ \A i, n : Has(p, i, n) => Has(q \o k \o p, i, n)
  BY <1>2, <1>7, <1>11 DEF Has
<1> QED
  BY <1>1, <1>9, <1>10, <1>12 DEF q, x, rs

-----------------------------------------------------------------------------
(* What a step does to the program of its greenlet.                        *)

CallHolds(b) ==
  /\ b.node \in Races <=> b.at \in {"wait", "calc", "read"}
  /\ b.at # "parts" => b.todo = {}
  /\ b.todo \subseteq (IF b.node = Event THEN Heats ELSE Races)

\* Only the innermost build is further than its parts; it is one of the parts of
\* the next.
Stacked(c) ==
  /\ \A k \in 1..Len(c) : CallHolds(c[k])
  /\ \A k \in 1..(Len(c) - 1) : c[k + 1].at = "parts" /\ c[k].node \in c[k + 1].todo

StackHolds(w) ==
  /\ calls[w] # <<>> => prog[w] # <<>> /\ prog[w][1].do = "get"
  /\ Stacked(calls[w])

CallsHold == \A w \in Workers : StackHolds(w)

Follows(w, q) ==
  /\ q \in Progs /\ Form(q)
  /\ \A i \in {"write", "rewrite"}, r \in Races : Has(q, i, r) => Has(prog[w], i, r)
  /\ ~BuildPage(w) /\ ~ShowPage(w) => (Has(q, "show", Event) <=> Has(prog[w], "show", Event))

LEMMA OnFacts ==
  ASSUME ProgsOK, NEW w \in Workers, NEW i, On(w, i)
  PROVE  /\ prog[w] \in Progs /\ prog[w] # <<>> /\ prog[w][1].do = i
         /\ Arg(w) = prog[w][1].on /\ calls[w] = <<>> /\ cpu \in {w, Free}
<1>1. prog[w] \in Progs /\ prog[w] # <<>> /\ Head(prog[w]).do = i /\ calls[w] = <<>> /\ cpu \in {w, Free}
  BY DEF ProgsOK, On, Busy
<1>2. Head(prog[w]) = prog[w][1]
  BY <1>1, Cut
<1> QED
  BY <1>1, <1>2 DEF Arg

LEMMA FollowsSame ==
  ASSUME ProgsOK, FormsHold, NEW w \in Workers, prog' = prog
  PROVE  Follows(w, prog[w]) /\ prog' = [prog EXCEPT ![w] = prog[w]]
BY DEF ProgsOK, FormsHold, Follows

LEMMA FollowsTail ==
  ASSUME ProgsOK, FormsHold, NEW w \in Workers, prog[w] # <<>>,
         prog[w][1].do # "show" \/ ShowPage(w)
  PROVE  Follows(w, Tail(prog[w]))
<1>1. prog[w] \in Progs /\ Form(prog[w])
  BY DEF ProgsOK, FormsHold
<1>2. Tail(prog[w]) \in Progs /\ Form(Tail(prog[w]))
  BY <1>1, Cut, FormTail
<1>3. \A i \in {"write", "rewrite"}, r \in Races : Has(Tail(prog[w]), i, r) => Has(prog[w], i, r)
  BY <1>1, HasCut
<1>4. prog[w][1].do # "show" => (Has(Tail(prog[w]), "show", Event) <=> Has(prog[w], "show", Event))
  BY <1>1, HasCut
<1> QED
  BY Zenon, <1>2, <1>3, <1>4 DEF Follows

LEMMA ReturnProg ==
  ASSUME ProgsOK, FormsHold, NEW w \in Workers, NEW stack, NEW n, NEW v,
         Return(w, stack, n, v), stack = <<>> => prog[w] # <<>> /\ prog[w][1].do = "get"
  PROVE  \E q : Follows(w, q) /\ prog' = [prog EXCEPT ![w] = q]
<1>1. CASE stack = <<>>
  <2>1. prog' = [prog EXCEPT ![w] = Tail(prog[w])]
    BY <1>1 DEF Return, Continue, Proceed
  <2>2. Follows(w, Tail(prog[w]))
    BY <1>1, FollowsTail
  <2> QED
    BY <2>1, <2>2
<1>2. CASE stack # <<>>
  <2>1. prog' = prog
    BY <1>2 DEF Return
  <2> QED
    BY <2>1, FollowsSame
<1> QED
  BY <1>1, <1>2

\* A step that only takes the instruction off the program.
LEMMA ContinueProg ==
  ASSUME ProgsOK, FormsHold, NEW w \in Workers, NEW i, On(w, i), i # "show" \/ ShowPage(w),
         NEW y, Proceed(w, Tail(prog[w]), y)
  PROVE  \E q : Follows(w, q) /\ prog' = [prog EXCEPT ![w] = q]
<1>1. prog[w] # <<>> /\ prog[w][1].do = i
  BY OnFacts
<1>2. prog' = [prog EXCEPT ![w] = Tail(prog[w])]
  BY DEF Proceed
<1>3. Follows(w, Tail(prog[w]))
  BY <1>1, FollowsTail
<1> QED
  BY <1>2, <1>3

LEMMA PutProg ==
  ASSUME ProgsOK, FormsHold, NEW w \in Workers, PutResult(w)
  PROVE  \E q : Follows(w, q) /\ prog' = [prog EXCEPT ![w] = q]
<1> DEFINE p == prog[w]
           i == IF got[w][Arg(w)] = {} THEN "get" ELSE "store"
           q == <<Do(i, p[1].on)>> \o Tail(p)
<1>1. p \in Progs /\ p # <<>> /\ p[1].do = "put" /\ Arg(w) = p[1].on /\ Form(p)
  BY OnFacts DEF PutResult, FormsHold
<1>2. prog' = [prog EXCEPT ![w] = q]
  BY <1>1 DEF PutResult, Proceed
<1>3. i \in {"get", "store"}
  OBVIOUS
<1> HIDE DEF i
<1>4. PICK r \in Races : Saves(r, p) /\ Len(p) \in {6, 7}
  BY <1>1, HeadTypes
<1> HIDE DEF p
<1>5. Saves(r, q) /\ q \in Progs
  <2>1. Len(p) \in Nat
    BY <1>4
  <2> QED
    BY <1>1, <1>3, <1>4, <2>1, SavesPut
<1>6. p[1].on \in Nodes /\ Do(i, p[1].on) \in Instr /\ Do(i, p[1].on).do = i
  BY <1>1, <1>3, HeadTypes, ModelTypes, DoTypes DEF Instructions
<1>7. \A n : /\ Has(q, "write", n) <=> Has(p, "write", n)
             /\ Has(q, "rewrite", n) <=> Has(p, "rewrite", n)
             /\ Has(q, "show", n) <=> Has(p, "show", n)
  BY <1>1, <1>3, <1>6, HasPut
<1>8. Form(q)
  BY Zenon, <1>5 DEF Form
<1> HIDE DEF q
<1>9. Follows(w, q)
  BY <1>5, <1>7, <1>8 DEF Follows, p
<1> QED
  BY <1>2, <1>9 DEF p

LEMMA BuildPageProg ==
  ASSUME ProgsOK, FormsHold, NEW w \in Workers, BuildPage(w)
  PROVE  \E q : /\ Follows(w, q) /\ prog' = [prog EXCEPT ![w] = q]
                /\ Pages(q) /\ \A h \in Heats : Has(q, "pageHeat", h)
<1> DEFINE t == <<Do("sleep", Event), Do("get", Event), Do("show", Event)>>
           q == HeatSteps \o t
<1>1. prog[w] \in Progs /\ prog[w] # <<>> /\ prog[w][1].do = "page" /\ Form(prog[w])
  BY OnFacts DEF BuildPage, FormsHold
<1>2. Tail(prog[w]) = <<>>
  BY <1>1, HeadTypes
<1>3. t \in Progs /\ HeatSteps \in Progs /\ q \in Progs /\ Pages(q) /\ \A h \in Heats : Has(q, "pageHeat", h)
  BY PageBuilt, HeatStepsAre
<1> HIDE DEF t
<1>4. HeatSteps \o t \o <<>> = q
  BY <1>3 DEF Progs
<1>5. prog' = [prog EXCEPT ![w] = HeatSteps \o t \o Tail(prog[w])]
  BY Zenon DEF BuildPage, Proceed, t
<1>6. prog' = [prog EXCEPT ![w] = q]
  BY <1>2, <1>4, <1>5
<1> HIDE DEF q
<1>7. \A r : ~Has(q, "write", r) /\ ~Has(q, "rewrite", r)
  BY <1>3, PagesHas
<1>8. Form(q)
  BY Zenon, <1>3 DEF Form
<1>9. Follows(w, q)
  BY <1>3, <1>7, <1>8 DEF Follows
<1> QED
  BY <1>3, <1>6, <1>9

LEMMA PageHeatProg ==
  ASSUME ProgsOK, FormsHold, NEW w \in Workers, PageHeat(w)
  PROVE  LET h == Arg(w)
             p == prog[w]
         IN  /\ p \in Progs /\ p # <<>> /\ Pages(Tail(p)) /\ h \in Heats /\ p[1].do = "pageHeat"
             /\ \E q : /\ Follows(w, q) /\ prog' = [prog EXCEPT ![w] = q] /\ Pages(q)
                       /\ copies' = copies \/ copies' = Loaded(w, RacesOf(h))
                       /\ \A i, n : Has(Tail(p), i, n) => Has(q, i, n)
                       /\ \A r \in RacesOf(h) : Has(q, "get", r)
                       /\ RacesOf(h) # {} => Has(q, "get", h)
<1> DEFINE h == Arg(w)
           p == prog[w]
           S == RacesOf(h)
           rs == SetToSeq(S)
           k == <<Do("keep", Last(rs)), Do("get", h)>>
           q == RaceSteps(h, rs) \o k \o Tail(p)
<1>1. p \in Progs /\ p # <<>> /\ p[1].do = "pageHeat" /\ h = p[1].on /\ Form(p)
  BY OnFacts DEF PageHeat, FormsHold
<1>2. h \in Heats /\ Pages(Tail(p)) /\ Tail(p) \in Progs
  BY <1>1, HeadTypes, Cut
<1>3. IsFiniteSet(S) /\ S \subseteq Races /\ (rs = <<>> <=> S = {})
  BY RacesFinite, SetSequence
<1>4. CASE S = {}
  <2>1. Follows(w, Tail(p))
    BY <1>1, FollowsTail
  <2>2. prog' = [prog EXCEPT ![w] = Tail(p)] /\ copies' = copies
    BY <1>3, <1>4 DEF PageHeat, Continue, Proceed
  <2> QED
    BY <1>1, <1>2, <1>4, <2>1, <2>2
<1>5. CASE S # {}
  <2>1. prog' = [prog EXCEPT ![w] = q] /\ copies' = Loaded(w, S)
    BY <1>3, <1>5 DEF PageHeat, Proceed
  <2>2. /\ q \in Progs /\ Pages(q) /\ \A r \in S : Has(q, "get", r)
        /\ Has(q, "get", h) /\ \A i, n : Has(Tail(p), i, n) => Has(q, i, n)
    BY <1>2, <1>3, <1>5, HeatBuilt
  <2> HIDE DEF q
  <2>3. Form(q)
    BY Zenon, <2>2 DEF Form
  <2>4. Has(q, "show", Event) /\ \A r : ~Has(q, "write", r) /\ ~Has(q, "rewrite", r)
    BY <2>2, PagesHas
  <2>5. Has(Tail(p), "show", Event) /\ Has(p, "show", Event)
    BY <1>1, <1>2, PagesHas, HasCut
  <2>6. Follows(w, q)
    BY <2>2, <2>3, <2>4, <2>5 DEF Follows
  <2> QED
    BY <1>1, <1>2, <2>1, <2>2, <2>6
<1> QED
  BY <1>4, <1>5

LEMMA ProgStep ==
  ASSUME ProgsOK, CallsOK, FormsHold, CallsHold, NEW w \in Workers, Step(w)
  PROVE  \E q : Follows(w, q) /\ prog' = [prog EXCEPT ![w] = q]
<1>1. CASE \/ Miss(w) \/ StartCalc(w) \/ WaitForCalc(w) \/ ReadLaps(w) \/ Rank(w) \/ WaitForPage(w)
  <2>1. prog' = prog
    BY <1>1 DEF Miss, StartCalc, WaitForCalc, ReadLaps, Rank, WaitForPage, BuildOn, local
  <2> QED
    BY <2>1, FollowsSame
<1>2. CASE Hit(w)
  <2>1. PICK n, v : Return(w, calls[w], n, v)
    BY Zenon, <1>2 DEF Hit
  <2>2. calls[w] = <<>> => On(w, "get")
    BY <1>2 DEF Hit, Asks, Building
  <2>3. calls[w] = <<>> => prog[w] # <<>> /\ prog[w][1].do = "get"
    BY <2>2, OnFacts
  <2> QED
    BY <2>1, <2>3, ReturnProg
<1>3. CASE Finish(w)
  <2>1. PICK n, v : Return(w, Tail(calls[w]), n, v)
    BY Zenon, <1>3 DEF Finish
  <2>2. calls[w] # <<>>
    BY <1>3 DEF Finish, Building
  <2>3. prog[w] # <<>> /\ prog[w][1].do = "get"
    BY <2>2 DEF CallsHold, StackHolds
  <2> QED
    BY <2>1, <2>3, ReturnProg
<1>4. CASE PutResult(w)
  BY <1>4, PutProg
<1>5. CASE BuildPage(w)
  BY <1>5, BuildPageProg
<1>6. CASE PageHeat(w)
  BY <1>6, PageHeatProg
<1>7. CASE Sleep(w) \/ TakeResult(w)
  <2>1. (On(w, "sleep") \/ On(w, "recent")) /\ Proceed(w, Tail(prog[w]), TRUE)
    BY <1>7 DEF Sleep, TakeResult
  <2> QED
    BY <2>1, ContinueProg
<1>8. CASE \/ Hold(w) \/ Drop(w) \/ WriteRace(w) \/ StoreResult(w) \/ RewriteLaps(w)
           \/ ClearEvent(w) \/ Invalidate(w) \/ GetPage(w) \/ Keep(w)
  <2>1. \E i : On(w, i) /\ i # "show" /\ Proceed(w, Tail(prog[w]), FALSE)
    BY <1>8 DEF Hold, Drop, WriteRace, StoreResult, RewriteLaps, ClearEvent, Invalidate,
                GetPage, Keep, Continue
  <2> QED
    BY <2>1, ContinueProg
<1>9. CASE ShowPage(w)
  <2>1. On(w, "show") /\ Proceed(w, Tail(prog[w]), FALSE)
    BY <1>9 DEF ShowPage, Continue
  <2> QED
    BY <1>9, <2>1, ContinueProg
<1> QED
  BY <1>1, <1>2, <1>3, <1>4, <1>5, <1>6, <1>7, <1>8, <1>9 DEF Step

-----------------------------------------------------------------------------
(* What a step does to the builds of its greenlet.                         *)

LEMMA CallsCut ==
  ASSUME NEW c \in Seq(Builds), c # <<>>
  PROVE  /\ Head(c) = c[1] /\ c[1] \in Builds /\ Tail(c) \in Seq(Builds)
         /\ Len(c) \in Nat \ {0} /\ Len(Tail(c)) = Len(c) - 1
         /\ \A k \in 1..(Len(c) - 1) : Tail(c)[k] = c[k + 1]
<1>1. Len(c) \in Nat \ {0}
  BY EmptySeq
<1> QED
  BY <1>1, HeadTailProperties

LEMMA StackedTail ==
  ASSUME NEW c \in Seq(Builds), c # <<>>, Stacked(c)
  PROVE  /\ CallHolds(c[1]) /\ Stacked(Tail(c))
         /\ Tail(c) # <<>> => /\ Tail(c)[1] \in Builds /\ CallHolds(Tail(c)[1])
                             /\ Tail(c)[1].at = "parts" /\ c[1].node \in Tail(c)[1].todo
<1> DEFINE t == Tail(c)
           n == Len(c)
<1>1. /\ t \in Seq(Builds) /\ Len(t) = n - 1 /\ \A k \in 1..(n - 1) : t[k] = c[k + 1]
      /\ n \in Nat \ {0}
  BY CallsCut
<1>2. /\ \A k \in 1..n : CallHolds(c[k])
      /\ \A k \in 1..(n - 1) : c[k + 1].at = "parts" /\ c[k].node \in c[k + 1].todo
  BY DEF Stacked
<1>3. t # <<>> => n > 1
  BY <1>1
<1> HIDE DEF t, n
<1>4. ASSUME NEW k \in 1..(n - 1) PROVE CallHolds(t[k])
  <2>1. k + 1 \in 1..n
    BY <1>1
  <2> QED
    BY <1>1, <1>2, <2>1
<1>5. ASSUME NEW k \in 1..((n - 1) - 1) PROVE t[k + 1].at = "parts" /\ t[k].node \in t[k + 1].todo
  <2>1. k + 1 \in 1..(n - 1) /\ k \in 1..(n - 1)
    BY <1>1
  <2> QED
    BY <1>1, <1>2, <2>1
<1>6. Stacked(t)
  BY <1>1, <1>4, <1>5 DEF Stacked
<1>7. CallHolds(c[1])
  <2>1. 1 \in 1..n
    BY <1>1
  <2> QED
    BY <1>2, <2>1
<1>8. ASSUME t # <<>>
      PROVE  t[1] \in Builds /\ CallHolds(t[1]) /\ t[1].at = "parts" /\ c[1].node \in t[1].todo
  <2>1. 1 \in 1..(n - 1) /\ 1 + 1 \in 1..n
    BY <1>1, <1>3, <1>8
  <2>2. t[1] = c[1 + 1] /\ CallHolds(t[1]) /\ c[1 + 1].at = "parts" /\ c[1].node \in c[1 + 1].todo
    BY <1>1, <1>2, <1>4, <2>1
  <2>3. t[1] \in Builds
    BY <1>1, <2>1, ElementOfSeq
  <2> QED
    BY <2>2, <2>3
<1> QED
  BY Zenon, <1>6, <1>7, <1>8 DEF t

LEMMA StackedPush ==
  ASSUME NEW c \in Seq(Builds), Stacked(c), NEW b \in Builds, CallHolds(b),
         c # <<>> => c[1].at = "parts" /\ b.node \in c[1].todo
  PROVE  /\ <<b>> \o c \in Seq(Builds) /\ Stacked(<<b>> \o c)
         /\ Len(<<b>> \o c) = Len(c) + 1 /\ (<<b>> \o c)[1] = b /\ <<b>> \o c # <<>>
         /\ \A k \in 2..(Len(c) + 1) : (<<b>> \o c)[k] = c[k - 1]
<1> DEFINE s == <<b>> \o c
           n == Len(c)
<1>1. /\ s \in Seq(Builds) /\ Len(s) = n + 1 /\ n \in Nat /\ s[1] = b /\ s # <<>>
      /\ \A k \in 2..(n + 1) : s[k] = c[k - 1]
  OBVIOUS
<1>2. /\ \A k \in 1..n : CallHolds(c[k])
      /\ \A k \in 1..(n - 1) : c[k + 1].at = "parts" /\ c[k].node \in c[k + 1].todo
  BY DEF Stacked
<1>3. n > 0 => c # <<>>
  OBVIOUS
<1> HIDE DEF s, n
<1>4. ASSUME NEW k \in 1..(n + 1) PROVE CallHolds(s[k])
  <2>1. CASE k = 1
    BY <1>1, <2>1
  <2>2. CASE k # 1
    <3>1. k \in 2..(n + 1) /\ k - 1 \in 1..n
      BY <1>1, <2>2
    <3> QED
      BY <1>1, <1>2, <3>1
  <2> QED
    BY <2>1, <2>2
<1>5. ASSUME NEW k \in 1..((n + 1) - 1) PROVE s[k + 1].at = "parts" /\ s[k].node \in s[k + 1].todo
  <2>0. k + 1 \in 2..(n + 1) /\ (k + 1) - 1 = k /\ n > 0
    BY <1>1
  <2>1. s[k + 1] = c[k]
    BY <1>1, <2>0
  <2>2. CASE k = 1
    BY <1>1, <1>3, <2>0, <2>1, <2>2
  <2>3. CASE k # 1
    <3> DEFINE j == k - 1
    <3>1. k \in 2..(n + 1) /\ j \in 1..(n - 1) /\ j + 1 = k
      BY <1>1, <2>3
    <3>2. s[k] = c[j]
      BY <1>1, <3>1
    <3> HIDE DEF j
    <3>3. c[j + 1].at = "parts" /\ c[j].node \in c[j + 1].todo
      BY <1>2, <3>1
    <3> QED
      BY <2>1, <3>1, <3>2, <3>3
  <2> QED
    BY <2>2, <2>3
<1>6. Stacked(s)
  BY <1>1, <1>4, <1>5 DEF Stacked
<1> QED
  BY Zenon, <1>1, <1>6 DEF s, n

\* The innermost build goes on.
LEMMA StackedPut ==
  ASSUME NEW c \in Seq(Builds), c # <<>>, Stacked(c), NEW b \in Builds, CallHolds(b), b.node = c[1].node
  PROVE  /\ <<b>> \o Tail(c) \in Seq(Builds) /\ Stacked(<<b>> \o Tail(c))
         /\ Len(<<b>> \o Tail(c)) = Len(c) /\ (<<b>> \o Tail(c))[1] = b /\ <<b>> \o Tail(c) # <<>>
         /\ \A k \in 2..Len(c) : (<<b>> \o Tail(c))[k] = c[k]
<1> DEFINE t == Tail(c)
<1>1. /\ t \in Seq(Builds) /\ Stacked(t) /\ Len(t) = Len(c) - 1 /\ Len(c) \in Nat \ {0}
      /\ \A k \in 1..(Len(c) - 1) : t[k] = c[k + 1]
      /\ t # <<>> => t[1].at = "parts" /\ b.node \in t[1].todo
  BY StackedTail, CallsCut
<1> HIDE DEF t
<1>2. /\ <<b>> \o t \in Seq(Builds) /\ Stacked(<<b>> \o t)
      /\ Len(<<b>> \o t) = Len(t) + 1 /\ (<<b>> \o t)[1] = b /\ <<b>> \o t # <<>>
      /\ \A k \in 2..(Len(t) + 1) : (<<b>> \o t)[k] = t[k - 1]
  BY <1>1, StackedPush
<1> DEFINE s == <<b>> \o t
           n == Len(c)
<1>3. n \in Nat \ {0} /\ Len(t) + 1 = n
  BY <1>1
<1> HIDE DEF s, n
<1>4. ASSUME NEW k \in 2..n PROVE s[k] = c[k]
  <2>1. k - 1 \in 1..(n - 1) /\ (k - 1) + 1 = k
    BY <1>3
  <2> QED
    BY <1>1, <1>2, <1>3, <2>1 DEF s, n
<1> QED
  BY <1>2, <1>3, <1>4 DEF s, n, t

LEMMA NoStack ==
  Stacked(<<>>) /\ <<>> \in Seq(Builds)
BY DEF Stacked

\* Who calls for a result, and for which.
LEMMA AskedFacts ==
  ASSUME ProgsOK, CallsOK, NEW w \in Workers, StackHolds(w), Asks(w)
  PROVE  /\ Asked(w) \in Nodes /\ cpu \in {w, Free} /\ prog[w] # <<>> /\ prog[w][1].do = "get"
         /\ calls[w] = <<>> => prog[w][1].on = Asked(w)
         /\ calls[w] # <<>> => calls[w][1].at = "parts" /\ Asked(w) \in calls[w][1].todo
<1>1. CASE calls[w] = <<>>
  <2>1. On(w, "get") /\ Asked(w) = Arg(w)
    BY <1>1 DEF Asks, Building, Asked
  <2>2. prog[w] \in Progs /\ prog[w] # <<>> /\ prog[w][1].do = "get" /\ Arg(w) = prog[w][1].on /\ cpu \in {w, Free}
    BY <2>1, OnFacts
  <2>3. prog[w][1] \in Instr
    BY <2>2, Cut
  <2> QED
    BY <1>1, <2>1, <2>2, <2>3 DEF Instr
<1>2. CASE calls[w] # <<>>
  <2>1. Building(w, "parts") /\ Head(calls[w]).todo # {}
    BY <1>2 DEF Asks, On
  <2>2. calls[w] \in Seq(Builds)
    BY DEF CallsOK
  <2>3. Head(calls[w]) = calls[w][1] /\ calls[w][1] \in Builds
    BY <1>2, <2>2, CallsCut
  <2>4. Asked(w) \in calls[w][1].todo
    BY <1>2, <2>1, <2>3 DEF Asked
  <2>5. calls[w][1].todo \subseteq Rows
    BY <2>3 DEF Builds
  <2> QED
    BY <1>2, <2>1, <2>3, <2>4, <2>5, ModelTypes DEF Building, StackHolds
<1> QED
  BY <1>1, <1>2

LEMMA BuildingFacts ==
  ASSUME CallsOK, NEW w \in Workers, StackHolds(w), NEW x, Building(w, x)
  PROVE  /\ calls[w] \in Seq(Builds) /\ calls[w] # <<>> /\ Head(calls[w]) = calls[w][1]
         /\ calls[w][1] \in Builds /\ CallHolds(calls[w][1]) /\ calls[w][1].at = x
         /\ prog[w] # <<>> /\ prog[w][1].do = "get" /\ cpu \in {w, Free}
<1>1. calls[w] \in Seq(Builds) /\ calls[w] # <<>> /\ Head(calls[w]).at = x
  BY DEF CallsOK, Building
<1>2. Head(calls[w]) = calls[w][1] /\ calls[w][1] \in Builds
  BY <1>1, CallsCut
<1>3. CallHolds(calls[w][1])
  BY <1>1, StackedTail DEF StackHolds
<1> QED
  BY <1>1, <1>2, <1>3 DEF StackHolds, Building

\* A result is merged into a build, and a build goes on.
MergedInto(b, n, v) == [b EXCEPT !.todo = @ \ {n}, !.acc = @ \cup v]
Onward(b, x, acc) == [b EXCEPT !.at = x, !.acc = acc]

LEMMA MergeFacts ==
  ASSUME NEW b \in Builds, CallHolds(b), b.at = "parts", NEW n, NEW v \in Contents
  PROVE  LET c == MergedInto(b, n, v)
         IN  /\ c \in Builds /\ CallHolds(c) /\ c.node = b.node /\ c.at = "parts" /\ c.token = b.token
             /\ c.todo = b.todo \ {n} /\ c.acc = b.acc \cup v /\ c.held = b.held
<1> DEFINE c == MergedInto(b, n, v)
<1>1. /\ b.node \in Nodes /\ b.token \in Nat /\ b.todo \in SUBSET Rows /\ b.acc \in Contents
      /\ b.held \in SUBSET Rows
  BY DEF Builds
<1>2. /\ c.node = b.node /\ c.at = b.at /\ c.token = b.token
      /\ c.todo = b.todo \ {n} /\ c.acc = b.acc \cup v /\ c.held = b.held
  BY DEF Builds, MergedInto
<1>3. b.todo \ {n} \in SUBSET Rows /\ b.acc \cup v \in Contents
  BY <1>1, ContentsTypes
<1>4. c \in Builds
  BY <1>3 DEF Builds, MergedInto
<1> HIDE DEF c
<1>5. CallHolds(c)
  BY <1>2 DEF CallHolds
<1> QED
  BY <1>2, <1>4, <1>5 DEF c

\* How far a build is once its parts are merged.
Later == {"wait", "calc", "read", "rank"}

LEMMA OnwardFacts ==
  ASSUME NEW b \in Builds, CallHolds(b), b.todo = {}, NEW acc \in Contents,
         NEW x \in Later, b.node \in Races <=> x # "rank"
  PROVE  LET c == Onward(b, x, acc)
         IN  /\ c \in Builds /\ CallHolds(c) /\ c.node = b.node /\ c.at = x /\ c.token = b.token
             /\ c.todo = {} /\ c.acc = acc /\ c.held = b.held
<1> DEFINE c == Onward(b, x, acc)
<1>1. x \in {"parts", "wait", "calc", "read", "rank"}
  BY DEF Later
<1>2. /\ c.node = b.node /\ c.at = x /\ c.token = b.token
      /\ c.todo = b.todo /\ c.acc = acc /\ c.held = b.held
  BY DEF Builds, Onward
<1>4. c \in Builds
  BY <1>1 DEF Builds, Onward
<1> HIDE DEF c
<1>5. CallHolds(c)
  BY <1>2 DEF CallHolds, Later
<1> QED
  BY <1>2, <1>4, <1>5 DEF c

LEMMA ReturnFacts ==
  ASSUME ProgsOK, CallsOK, GotOK, NEW w \in Workers, NEW stack \in Seq(Builds), Stacked(stack),
         stack # <<>> => stack[1].at = "parts", prog[w] # <<>>, prog[w][1].do = "get",
         NEW n \in Nodes, NEW v \in Contents, Return(w, stack, n, v)
  PROVE  /\ CallsOK' /\ GotOK' /\ StackHolds(w)' /\ cpu' \in {w, Free}
         /\ \E c : calls' = [calls EXCEPT ![w] = c]
         /\ calls'[w] # <<>> => calls'[w][1].at = "parts"
<1>1. CASE stack = <<>>
  <2>1. /\ calls' = [calls EXCEPT ![w] = <<>>] /\ got' = [got EXCEPT ![w][n] = v]
        /\ cpu' \in {w, Free}
    BY <1>1 DEF Return, Continue, Proceed
  <2>2. CallsOK' /\ calls'[w] = <<>>
    BY <2>1, NoStack DEF CallsOK
  <2>3. GotOK'
    BY <2>1 DEF GotOK
  <2>4. StackHolds(w)'
    BY <2>2, NoStack DEF StackHolds
  <2> QED
    BY <2>1, <2>2, <2>3, <2>4
<1>2. CASE stack # <<>>
  <2> DEFINE b == MergedInto(stack[1], n, v)
  <2>1. Head(stack) = stack[1] /\ stack[1] \in Builds /\ CallHolds(stack[1])
    BY <1>2, CallsCut, StackedTail
  <2>2. b \in Builds /\ CallHolds(b) /\ b.node = stack[1].node /\ b.at = "parts"
    BY <1>2, <2>1, MergeFacts
  <2>3. calls' = [calls EXCEPT ![w] = <<b>> \o Tail(stack)] /\ got' = got /\ prog' = prog /\ cpu' = w
    BY Zenon, <1>2, <2>1 DEF Return, MergedInto
  <2> HIDE DEF b
  <2>4. /\ <<b>> \o Tail(stack) \in Seq(Builds) /\ Stacked(<<b>> \o Tail(stack))
        /\ (<<b>> \o Tail(stack))[1] = b
    BY <1>2, <2>1, <2>2, StackedPut
  <2>5. CallsOK' /\ GotOK' /\ calls'[w] = <<b>> \o Tail(stack)
    BY <2>3, <2>4 DEF CallsOK, GotOK
  <2>6. StackHolds(w)'
    BY <2>3, <2>4, <2>5 DEF StackHolds
  <2>7. calls'[w][1].at = "parts"
    BY Zenon, <2>2, <2>4, <2>5
  <2> QED
    BY <2>3, <2>5, <2>6, <2>7
<1> QED
  BY <1>1, <1>2

LEMMA BuildOnFacts ==
  ASSUME CallsOK, NEW w \in Workers, StackHolds(w), calls[w] # <<>>, calls[w][1].todo = {},
         NEW acc \in Contents, NEW x \in Later,
         calls[w][1].node \in Races <=> x # "rank", BuildOn(w, x, acc)
  PROVE  LET b == Onward(calls[w][1], x, acc)
         IN  /\ CallsOK' /\ StackHolds(w)' /\ cpu' = Free
             /\ calls' = [calls EXCEPT ![w] = <<b>> \o Tail(calls[w])] /\ b.at = x
             /\ calls'[w] # <<>> /\ calls'[w][1] = b
<1> DEFINE c == calls[w]
           b == Onward(c[1], x, acc)
<1>1. c \in Seq(Builds) /\ Stacked(c) /\ c # <<>>
  BY DEF CallsOK, StackHolds
<1>2. Head(c) = c[1] /\ c[1] \in Builds /\ CallHolds(c[1])
  BY <1>1, CallsCut, StackedTail
<1>3. b \in Builds /\ CallHolds(b) /\ b.node = c[1].node /\ b.at = x
  BY <1>2, OnwardFacts
<1>4. calls' = [calls EXCEPT ![w] = <<b>> \o Tail(c)] /\ prog' = prog /\ cpu' = Free
  BY Zenon, <1>2 DEF BuildOn, Onward
<1> HIDE DEF b
<1>5. /\ <<b>> \o Tail(c) \in Seq(Builds) /\ Stacked(<<b>> \o Tail(c))
      /\ (<<b>> \o Tail(c))[1] = b /\ <<b>> \o Tail(c) # <<>>
  BY <1>1, <1>3, StackedPut
<1>6. CallsOK' /\ calls'[w] = <<b>> \o Tail(c)
  BY <1>4, <1>5 DEF CallsOK
<1>7. StackHolds(w)'
  BY <1>4, <1>5, <1>6 DEF StackHolds
<1> QED
  BY <1>3, <1>4, <1>5, <1>6, <1>7 DEF b

\* The result that a call finds stored, and the one a build ends with.
LEMMA HitFacts ==
  ASSUME TypeOK, NEW w \in Workers, StackHolds(w), Hit(w)
  PROVE  LET n == Asked(w)
             v == IF NoRaces(n) THEN {} ELSE View(w, n).res
         IN  /\ n \in Nodes /\ v \in Contents /\ Return(w, calls[w], n, v) /\ calls[w] \in Seq(Builds)
             /\ Stacked(calls[w]) /\ prog[w] # <<>> /\ prog[w][1].do = "get" /\ cpu \in {w, Free}
             /\ calls[w] # <<>> => calls[w][1].at = "parts" /\ n \in calls[w][1].todo
             /\ calls[w] = <<>> => prog[w][1].on = n
<1>1. StoredOK /\ ProgsOK /\ CallsOK /\ CopiesOK
  BY TypeParts
<1>2. Asks(w)
  BY DEF Hit
<1> DEFINE n == Asked(w)
<1>3. /\ n \in Nodes /\ prog[w] # <<>> /\ prog[w][1].do = "get" /\ cpu \in {w, Free}
      /\ calls[w] # <<>> => calls[w][1].at = "parts" /\ n \in calls[w][1].todo
      /\ calls[w] = <<>> => prog[w][1].on = n
  BY <1>1, <1>2, AskedFacts
<1>4. Return(w, calls[w], n, IF NoRaces(n) THEN {} ELSE View(w, n).res)
  BY Zenon DEF Hit
<1> HIDE DEF n
<1>5. View(w, n) \in Status
  BY <1>1, <1>3, ViewType
<1>6. (IF NoRaces(n) THEN {} ELSE View(w, n).res) \in Contents
  BY <1>5, ContentsTypes DEF Status
<1> QED
  BY <1>1, <1>3, <1>4, <1>6 DEF n, CallsOK, StackHolds

LEMMA FinishFacts ==
  ASSUME TypeOK, NEW w \in Workers, StackHolds(w), Finish(w)
  PROVE  LET b == calls[w][1]
         IN  /\ b \in Builds /\ CallHolds(b) /\ b.at \in {"read", "rank"} /\ calls[w] # <<>>
             /\ calc' = (calc /\ b.at = "rank") /\ SetResults(w, b.node, b.token, b.acc, b.held)
             /\ Return(w, Tail(calls[w]), b.node, b.acc) /\ Tail(calls[w]) \in Seq(Builds)
             /\ Stacked(Tail(calls[w])) /\ prog[w] # <<>> /\ prog[w][1].do = "get" /\ cpu \in {w, Free}
             /\ Tail(calls[w]) # <<>> => /\ Tail(calls[w])[1].at = "parts"
                                        /\ b.node \in Tail(calls[w])[1].todo
             /\ b.node \in Nodes /\ b.token \in Nat /\ b.acc \in Contents
<1>1. CallsOK
  BY TypeParts
<1>2. /\ calls[w] \in Seq(Builds) /\ calls[w] # <<>> /\ Head(calls[w]) = calls[w][1]
      /\ calls[w][1] \in Builds /\ CallHolds(calls[w][1]) /\ calls[w][1].at \in {"read", "rank"}
      /\ prog[w] # <<>> /\ prog[w][1].do = "get" /\ cpu \in {w, Free}
  BY <1>1, BuildingFacts DEF Finish
<1>3. /\ Tail(calls[w]) \in Seq(Builds) /\ Stacked(Tail(calls[w]))
      /\ Tail(calls[w]) # <<>> => /\ Tail(calls[w])[1].at = "parts"
                                 /\ calls[w][1].node \in Tail(calls[w])[1].todo
  BY <1>2, CallsCut, StackedTail DEF StackHolds
<1>4. LET b == Head(calls[w]) IN
        /\ calc' = (calc /\ b.at = "rank") /\ SetResults(w, b.node, b.token, b.acc, b.held)
        /\ Return(w, Tail(calls[w]), b.node, b.acc)
  BY Zenon DEF Finish
<1>5. calls[w][1].node \in Nodes /\ calls[w][1].token \in Nat /\ calls[w][1].acc \in Contents
  BY <1>2 DEF Builds
<1> QED
  BY Zenon, <1>2, <1>3, <1>4, <1>5

\* The rows that a new build needs.
Needed(n) == ({n} \cap Rows) \cup Parts(n)
NewBuild(w, n) ==
  [node |-> n, token |-> View(w, n).ver, todo |-> Parts(n), acc |-> {},
   held |-> Needed(n) \ Holds(w), at |-> IF n \in Races THEN "wait" ELSE "parts"]

LEMMA MissFacts ==
  ASSUME TypeOK, NEW w \in Workers, StackHolds(w), Miss(w)
  PROVE  LET n == Asked(w)
             b == NewBuild(w, n)
         IN  /\ n \in Nodes /\ ~IsHit(w, n) /\ calls' = [calls EXCEPT ![w] = <<b>> \o calls[w]]
             /\ copies' = Loaded(w, Needed(n)) /\ cpu' = w
             /\ b \in Builds /\ CallHolds(b) /\ CallsOK' /\ StackHolds(w)'
             /\ calls'[w] = <<b>> \o calls[w] /\ Len(calls'[w]) = Len(calls[w]) + 1
             /\ calls'[w][1] = b /\ calls'[w] # <<>>
             /\ \A k \in 2..(Len(calls[w]) + 1) : calls'[w][k] = calls[w][k - 1]
             /\ calls[w] # <<>> => calls[w][1].at = "parts"
<1>1. StoredOK /\ ProgsOK /\ CallsOK /\ CopiesOK
  BY TypeParts
<1>2. Asks(w)
  BY DEF Miss
<1> DEFINE n == Asked(w)
           b == NewBuild(w, n)
<1>3. /\ n \in Nodes /\ prog[w] # <<>> /\ prog[w][1].do = "get"
      /\ calls[w] # <<>> => calls[w][1].at = "parts" /\ n \in calls[w][1].todo
  BY <1>1, <1>2, AskedFacts
<1>4. /\ ~IsHit(w, n) /\ calls' = [calls EXCEPT ![w] = <<b>> \o calls[w]]
      /\ copies' = Loaded(w, Needed(n)) /\ cpu' = w /\ prog' = prog
  BY DEF Miss, NewBuild, Needed
<1> HIDE DEF n
<1>5. View(w, n).ver \in Nat
  BY <1>1, <1>3, ViewType DEF Status
<1>6. Parts(n) \subseteq Rows /\ Parts(n) \subseteq (IF n = Event THEN Heats ELSE Races)
      /\ (n \in Races => Parts(n) = {})
  BY ModelTypes DEF Parts, RacesOf, Saved
<1>7. b \in Builds
  BY <1>3, <1>5, <1>6, ContentsTypes DEF Builds, NewBuild, Needed
<1>8. CallHolds(b) /\ b.node = n
  BY <1>6 DEF CallHolds, NewBuild
<1> HIDE DEF b
<1>9. calls[w] \in Seq(Builds) /\ Stacked(calls[w])
  BY <1>1 DEF CallsOK, StackHolds
<1>10. /\ <<b>> \o calls[w] \in Seq(Builds) /\ Stacked(<<b>> \o calls[w])
       /\ Len(<<b>> \o calls[w]) = Len(calls[w]) + 1 /\ (<<b>> \o calls[w])[1] = b
       /\ <<b>> \o calls[w] # <<>>
       /\ \A k \in 2..(Len(calls[w]) + 1) : (<<b>> \o calls[w])[k] = calls[w][k - 1]
  BY <1>3, <1>7, <1>8, <1>9, StackedPush
<1>11. CallsOK' /\ calls'[w] = <<b>> \o calls[w]
  BY <1>1, <1>4, <1>10 DEF CallsOK
<1>12. StackHolds(w)'
  BY <1>3, <1>4, <1>10, <1>11 DEF StackHolds
<1> QED
  BY <1>3, <1>4, <1>7, <1>8, <1>10, <1>11, <1>12 DEF b, n


\* A step that takes an instruction of the greenlet's program.
OnStep(w) ==
  \/ Sleep(w) \/ Hold(w) \/ Drop(w) \/ WriteRace(w) \/ TakeResult(w) \/ PutResult(w)
  \/ StoreResult(w) \/ RewriteLaps(w) \/ ClearEvent(w)
  \/ Invalidate(w) \/ GetPage(w) \/ WaitForPage(w) \/ BuildPage(w) \/ PageHeat(w)
  \/ Keep(w) \/ ShowPage(w)

LEMMA OnStepFacts ==
  ASSUME NEW w \in Workers, OnStep(w)
  PROVE  calls[w] = <<>> /\ calls' = calls /\ cpu \in {w, Free}
BY DEF OnStep, On, Sleep, Hold, Drop, WriteRace, TakeResult, PutResult, StoreResult, RewriteLaps,
       ClearEvent, Invalidate, GetPage, WaitForPage, BuildPage, PageHeat, Keep, ShowPage, local

LEMMA BuildStepFacts ==
  ASSUME CallsOK, StoredOK, NEW w \in Workers, StackHolds(w),
         StartCalc(w) \/ WaitForCalc(w) \/ ReadLaps(w) \/ Rank(w)
  PROVE  \E x \in Later, acc \in Contents :
           /\ BuildOn(w, x, acc) /\ calls[w] # <<>> /\ calls[w][1].todo = {}
           /\ calls[w][1].node \in Races <=> x # "rank"
           /\ x = "rank" <=> calls[w][1].at = "parts"
           /\ x = "rank" => acc = calls[w][1].acc
           /\ x = "read" => acc = Current(calls[w][1].node)
           /\ StartCalc(w) => x = "calc" /\ calls[w][1].at = "wait"
           /\ WaitForCalc(w) => x = "wait" /\ calls[w][1].at = "wait"
           /\ ReadLaps(w) => x = "read" /\ calls[w][1].at = "calc"
           /\ Rank(w) => x = "rank"
<1>1. CASE StartCalc(w)
  <2>1. Building(w, "wait") /\ BuildOn(w, "calc", {})
    BY <1>1 DEF StartCalc
  <2>2. calls[w] # <<>> /\ CallHolds(calls[w][1]) /\ calls[w][1].at = "wait" /\ Head(calls[w]) = calls[w][1]
    BY <2>1, BuildingFacts
  <2>3. calls[w][1].todo = {} /\ calls[w][1].node \in Races
    BY <2>2 DEF CallHolds
  <2>4. ~WaitForCalc(w) /\ ~ReadLaps(w) /\ ~Rank(w)
    BY <2>2, <1>1 DEF WaitForCalc, ReadLaps, Rank, Building, StartCalc
  <2> QED
    BY <2>1, <2>2, <2>3, <2>4, ContentsTypes DEF Later
<1>2. CASE WaitForCalc(w)
  <2>1. Building(w, "wait") /\ BuildOn(w, "wait", {})
    BY <1>2 DEF WaitForCalc
  <2>2. calls[w] # <<>> /\ CallHolds(calls[w][1]) /\ calls[w][1].at = "wait" /\ Head(calls[w]) = calls[w][1]
    BY <2>1, BuildingFacts
  <2>3. calls[w][1].todo = {} /\ calls[w][1].node \in Races
    BY <2>2 DEF CallHolds
  <2>4. ~StartCalc(w) /\ ~ReadLaps(w) /\ ~Rank(w)
    BY <2>2, <1>2 DEF WaitForCalc, ReadLaps, Rank, Building, StartCalc
  <2> QED
    BY <2>1, <2>2, <2>3, <2>4, ContentsTypes DEF Later
<1>3. CASE ReadLaps(w)
  <2>1. Building(w, "calc") /\ BuildOn(w, "read", Current(Head(calls[w]).node))
    BY <1>3 DEF ReadLaps
  <2>2. calls[w] # <<>> /\ CallHolds(calls[w][1]) /\ calls[w][1].at = "calc" /\ Head(calls[w]) = calls[w][1]
    BY <2>1, BuildingFacts
  <2>3. calls[w][1].todo = {} /\ calls[w][1].node \in Races
    BY <2>2 DEF CallHolds
  <2>4. ~StartCalc(w) /\ ~WaitForCalc(w) /\ ~Rank(w)
    BY <2>2 DEF WaitForCalc, Rank, Building, StartCalc
  <2>5. Current(calls[w][1].node) \in Contents
    BY CurrentType
  <2> QED
    BY <2>1, <2>2, <2>3, <2>4, <2>5 DEF Later
<1>4. CASE Rank(w)
  <2>1. Building(w, "parts") /\ Head(calls[w]).todo = {} /\ BuildOn(w, "rank", Head(calls[w]).acc)
    BY <1>4 DEF Rank
  <2>2. /\ calls[w] # <<>> /\ CallHolds(calls[w][1]) /\ calls[w][1].at = "parts"
        /\ Head(calls[w]) = calls[w][1] /\ calls[w][1] \in Builds
    BY <2>1, BuildingFacts
  <2>3. calls[w][1].todo = {} /\ calls[w][1].node \notin Races /\ calls[w][1].acc \in Contents
    BY <2>1, <2>2 DEF CallHolds, Builds
  <2>4. ~StartCalc(w) /\ ~WaitForCalc(w) /\ ~ReadLaps(w)
    BY <2>2 DEF WaitForCalc, Building, StartCalc, ReadLaps
  <2> QED
    BY <2>1, <2>2, <2>3, <2>4 DEF Later
<1> QED
  BY <1>1, <1>2, <1>3, <1>4

LEMMA CallStep ==
  ASSUME TypeOK, CallsHold, NEW w \in Workers, Step(w)
  PROVE  /\ CallsOK' /\ StackHolds(w)' /\ cpu' \in {w, cpu, Free} /\ cpu \in {w, Free}
         /\ \E c : calls' = [calls EXCEPT ![w] = c]
<1>1. StoredOK /\ ProgsOK /\ CallsOK /\ GotOK /\ StackHolds(w)
  BY TypeParts DEF CallsHold
<1>2. CASE Hit(w)
  <2>1. /\ calls[w] \in Seq(Builds) /\ Stacked(calls[w]) /\ prog[w] # <<>> /\ prog[w][1].do = "get"
        /\ calls[w] # <<>> => calls[w][1].at = "parts"
        /\ cpu \in {w, Free}
        /\ \E n \in Nodes, v \in Contents : Return(w, calls[w], n, v)
    BY <1>1, <1>2, HitFacts
  <2>2. PICK n \in Nodes, v \in Contents : Return(w, calls[w], n, v)
    BY <2>1
  <2> QED
    BY <1>1, <2>1, <2>2, ReturnFacts
<1>3. CASE Finish(w)
  <2> DEFINE stack == Tail(calls[w])
  <2>1. /\ stack \in Seq(Builds) /\ Stacked(stack) /\ prog[w] # <<>> /\ prog[w][1].do = "get"
        /\ stack # <<>> => stack[1].at = "parts"
        /\ cpu \in {w, Free}
        /\ \E n \in Nodes, v \in Contents : Return(w, stack, n, v)
    BY <1>1, <1>3, FinishFacts
  <2> HIDE DEF stack
  <2>2. PICK n \in Nodes, v \in Contents : Return(w, stack, n, v)
    BY <2>1
  <2> QED
    BY <1>1, <2>1, <2>2, ReturnFacts
<1>4. CASE Miss(w)
  <2>1. CallsOK' /\ StackHolds(w)' /\ cpu' = w /\ \E c : calls' = [calls EXCEPT ![w] = c]
    BY <1>1, <1>4, MissFacts
  <2>2. cpu \in {w, Free}
    BY <1>4 DEF Miss, Asks, On, Building
  <2> QED
    BY <2>1, <2>2
<1>5. CASE StartCalc(w) \/ WaitForCalc(w) \/ ReadLaps(w) \/ Rank(w)
  <2>1. PICK x \in Later, acc \in Contents :
           /\ BuildOn(w, x, acc) /\ calls[w] # <<>> /\ calls[w][1].todo = {}
           /\ calls[w][1].node \in Races <=> x # "rank"
    BY <1>1, <1>5, BuildStepFacts
  <2>2. /\ CallsOK' /\ StackHolds(w)' /\ cpu' = Free
        /\ calls' = [calls EXCEPT ![w] = <<Onward(calls[w][1], x, acc)>> \o Tail(calls[w])]
    BY Zenon, <1>1, <2>1, BuildOnFacts
  <2>3. cpu \in {w, Free}
    BY <1>5 DEF StartCalc, WaitForCalc, ReadLaps, Rank, Building
  <2> QED
    BY <2>2, <2>3
<1>6. CASE OnStep(w)
  <2>1. calls[w] = <<>> /\ calls' = calls /\ cpu \in {w, Free}
    BY <1>6, OnStepFacts
  <2>2. CallsOK' /\ StackHolds(w)' /\ calls' = [calls EXCEPT ![w] = <<>>]
    BY <1>1, <2>1, NoStack DEF CallsOK, StackHolds
  <2>3. cpu' \in {w, cpu, Free}
    BY <1>6 DEF OnStep, Sleep, Hold, Drop, WriteRace, TakeResult, PutResult, StoreResult, RewriteLaps,
       ClearEvent, Invalidate, GetPage, WaitForPage, BuildPage, PageHeat, Keep, ShowPage,
       Continue, Proceed
  <2> QED
    BY <2>1, <2>2, <2>3
<1> QED
  BY Zenon, <1>2, <1>3, <1>4, <1>5, <1>6 DEF Step, OnStep

DueHolds ==
  /\ \A w \in Workers, r \in Races :
       /\ Has(prog[w], "write", r) => laps[r] = 0
       /\ Has(prog[w], "rewrite", r) => laps[r] \in 1..(MaxVersion - 1)
  /\ \A v, w \in Workers, r \in Races, i \in {"write", "rewrite"} :
       Has(prog[v], i, r) /\ Has(prog[w], i, r) => v = w

LEMMA HeadHas ==
  ASSUME ProgsOK, NEW w \in Workers, NEW i, On(w, i)
  PROVE  Has(prog[w], i, Arg(w))
<1>1. prog[w] \in Progs /\ prog[w] # <<>> /\ prog[w][1].do = i /\ Arg(w) = prog[w][1].on
  BY OnFacts
<1>2. prog[w][1] \in Range(prog[w]) /\ prog[w][1] \in Instr
  BY <1>1, RangeCut, Cut
<1>3. prog[w][1] = Do(i, Arg(w))
  BY <1>1, <1>2 DEF Do, Instr
<1> QED
  BY <1>2, <1>3 DEF Has

\* The one who writes laps, and which.
LEMMA WriteRaceFacts ==
  ASSUME ProgsOK, FormsHold, NEW w \in Workers, WriteRace(w)
  PROVE  /\ Arg(w) \in Races /\ HeatOf[Arg(w)] \in Heats /\ Has(prog[w], "write", Arg(w))
         /\ Saves(Arg(w), prog[w]) /\ Len(prog[w]) = 9
         /\ laps' = [laps EXCEPT ![Arg(w)] = 1] /\ now' = now + 1
         /\ token' = [token EXCEPT ![w] = now + 1]
         /\ Write(w, {HeatOf[Arg(w)], Event, Arg(w)}, Cleared(now + 1))
         /\ clean' = (clean /\ Alone(w)) /\ calls' = calls /\ got' = got /\ calls[w] = <<>>
         /\ prog' = [prog EXCEPT ![w] = Tail(prog[w])] /\ prog[w] \in Progs
         /\ page' = page /\ updating' = updating /\ calc' = calc /\ asked' = asked
         /\ cpu' \in {w, Free}
<1>1. On(w, "write")
  BY DEF WriteRace
<1>2. prog[w] \in Progs /\ prog[w] # <<>> /\ prog[w][1].do = "write" /\ Arg(w) = prog[w][1].on /\ calls[w] = <<>>
  BY <1>1, OnFacts
<1>3. Form(prog[w])
  BY DEF FormsHold
<1> DEFINE p == prog[w]
           d == p[1]
<1>4. /\ d.do \in {"write", "rewrite", "recent", "keep"} => d.on \in Races
      /\ d.do = "write" => \E r \in Races : Saves(r, p) /\ Len(p) = 9 /\ d.on = r
  BY <1>2, <1>3, HeadTypes
<1>5. Arg(w) \in Races /\ Saves(Arg(w), p) /\ Len(p) = 9
  BY <1>2, <1>4
<1>6. Has(p, "write", Arg(w))
  BY <1>1, HeadHas
<1>7. HeatOf[Arg(w)] \in Heats
  BY <1>5, ModelTypes
<1> QED
  BY <1>2, <1>5, <1>6, <1>7 DEF WriteRace, Continue, Proceed, flags

LEMMA RewriteFacts ==
  ASSUME ProgsOK, FormsHold, NEW w \in Workers, RewriteLaps(w)
  PROVE  /\ Arg(w) \in Races /\ HeatOf[Arg(w)] \in Heats /\ Has(prog[w], "rewrite", Arg(w))
         /\ Resaves(Arg(w), prog[w])
         /\ laps' = [laps EXCEPT ![Arg(w)] = @ + 1] /\ now' = now + 1
         /\ Write(w, {HeatOf[Arg(w)], Arg(w)}, Cleared(now + 1))
         /\ clean' = (clean /\ Alone(w)) /\ calls' = calls /\ got' = got /\ calls[w] = <<>>
         /\ prog' = [prog EXCEPT ![w] = Tail(prog[w])] /\ prog[w] \in Progs
         /\ page' = page /\ updating' = updating /\ calc' = calc /\ asked' = asked
         /\ token' = token /\ cpu' \in {w, Free}
<1>1. On(w, "rewrite")
  BY DEF RewriteLaps
<1>2. prog[w] \in Progs /\ prog[w] # <<>> /\ prog[w][1].do = "rewrite" /\ Arg(w) = prog[w][1].on /\ calls[w] = <<>>
  BY <1>1, OnFacts
<1>3. Form(prog[w])
  BY DEF FormsHold
<1> DEFINE p == prog[w]
           d == p[1]
<1>4. /\ d.do \in {"write", "rewrite", "recent", "keep"} => d.on \in Races
      /\ d.do = "rewrite" => \E r \in Races : Resaves(r, p) /\ d.on = r
  BY <1>2, <1>3, HeadTypes
<1>5. Arg(w) \in Races /\ Resaves(Arg(w), p)
  BY <1>2, <1>4
<1>6. Has(p, "rewrite", Arg(w))
  BY <1>1, HeadHas
<1>7. HeatOf[Arg(w)] \in Heats
  BY <1>5, ModelTypes
<1> QED
  BY <1>2, <1>5, <1>6, <1>7 DEF RewriteLaps, Continue, Proceed, flags

LEMMA StoredStep ==
  ASSUME TypeOK, FormsHold, CallsHold, DueHolds, NEW w \in Workers, Step(w)
  PROVE  StoredOK' /\ CopiesOK'
<1>1. StoredOK /\ ProgsOK /\ CallsOK /\ GotOK /\ CopiesOK /\ RestOK /\ StackHolds(w)
  BY TypeParts DEF CallsHold
<1>2. CASE WriteRace(w)
  <2>1. /\ Arg(w) \in Races /\ laps' = [laps EXCEPT ![Arg(w)] = 1] /\ now' = now + 1
        /\ Write(w, {HeatOf[Arg(w)], Event, Arg(w)}, Cleared(now + 1))
    BY <1>1, <1>2, WriteRaceFacts
  <2>2. Cleared(now + 1) \in Status /\ now' \in Nat
    BY <1>1, <2>1, StatusTypes DEF StoredOK
  <2>3. db' \in [Nodes -> Status] /\ CopiesOK'
    BY <1>1, <2>1, <2>2, WriteType
  <2>4. laps' \in [Races -> 0..MaxVersion]
    BY <1>1, <2>1, CachesAssumption DEF StoredOK
  <2> QED
    BY <2>2, <2>3, <2>4 DEF StoredOK
<1>3. CASE RewriteLaps(w)
  <2>1. /\ Arg(w) \in Races /\ laps' = [laps EXCEPT ![Arg(w)] = @ + 1] /\ now' = now + 1
        /\ Write(w, {HeatOf[Arg(w)], Arg(w)}, Cleared(now + 1))
        /\ Has(prog[w], "rewrite", Arg(w))
    BY <1>1, <1>3, RewriteFacts
  <2>2. Cleared(now + 1) \in Status /\ now' \in Nat
    BY <1>1, <2>1, StatusTypes DEF StoredOK
  <2>3. db' \in [Nodes -> Status] /\ CopiesOK'
    BY <1>1, <2>1, <2>2, WriteType
  <2>4. laps[Arg(w)] \in 1..(MaxVersion - 1)
    BY <2>1 DEF DueHolds
  <2>5. laps' \in [Races -> 0..MaxVersion]
    BY <1>1, <2>1, <2>4, CachesAssumption DEF StoredOK
  <2> QED
    BY <2>2, <2>3, <2>5 DEF StoredOK
<1>4. CASE ClearEvent(w)
  <2>1. Cleared(now + 1) \in Status /\ now' \in Nat /\ laps' = laps /\ Write(w, {Event}, Cleared(now + 1))
    BY <1>1, <1>4, StatusTypes DEF StoredOK, ClearEvent
  <2>2. db' \in [Nodes -> Status] /\ CopiesOK'
    BY <1>1, <2>1, WriteType
  <2> QED
    BY <1>1, <2>1, <2>2 DEF StoredOK
<1>5. CASE StoreResult(w)
  <2> DEFINE n == Arg(w)
             new == UNION {got[w][r] : r \in Races}
  <2>1. On(w, "store") /\ SetResults(w, n, token[w], got[w][n] \cup new, {}) /\ laps' = laps /\ now' = now
    BY <1>5 DEF StoreResult
  <2>2. prog[w] \in Progs /\ prog[w] # <<>> /\ n = prog[w][1].on
    BY <1>1, <2>1, OnFacts
  <2>3. n \in Nodes
    BY <2>2, Cut DEF Instr
  <2>4. \A r \in Races : got[w][r] \in Contents
    BY <1>1, ModelTypes DEF GotOK
  <2>5. got[w][n] \cup new \in Contents
    BY <1>1, <2>3, <2>4 DEF GotOK, Contents
  <2>6. token[w] \in Nat
    BY <1>1 DEF RestOK
  <2>7. db' \in [Nodes -> Status] /\ CopiesOK'
    BY <1>1, <2>1, <2>3, <2>5, <2>6, SetResultsType
  <2> QED
    BY <1>1, <2>1, <2>7 DEF StoredOK
<1>6. CASE Finish(w)
  <2> DEFINE b == calls[w][1]
  <2>1. /\ SetResults(w, b.node, b.token, b.acc, b.held)
        /\ b.node \in Nodes /\ b.token \in Nat /\ b.acc \in Contents
    BY <1>1, <1>6, FinishFacts
  <2>2. db' \in [Nodes -> Status] /\ CopiesOK'
    BY <1>1, <2>1, SetResultsType
  <2>3. laps' = laps /\ now' = now
    BY <1>6 DEF Finish
  <2> QED
    BY <1>1, <2>2, <2>3 DEF StoredOK
<1>7. CASE Miss(w) \/ Hold(w) \/ BuildPage(w) \/ PageHeat(w)
  <2>1. \E S : copies' = Loaded(w, S) \/ copies' = copies
    BY <1>7 DEF Miss, Hold, BuildPage, PageHeat
  <2>2. CopiesOK'
    BY <1>1, <2>1, LoadedType DEF CopiesOK
  <2>3. UNCHANGED stored
    BY <1>7 DEF Miss, Hold, BuildPage, PageHeat
  <2> QED
    BY <1>1, <2>2, <2>3 DEF StoredOK, stored
<1>8. CASE Drop(w) \/ Keep(w) \/ ShowPage(w)
  <2>1. \E S : copies' = Dropped(w, S)
    BY <1>8 DEF Drop, Keep, ShowPage
  <2>2. CopiesOK'
    BY <1>1, <2>1, DroppedType DEF CopiesOK
  <2>3. UNCHANGED stored
    BY <1>8 DEF Drop, Keep, ShowPage
  <2> QED
    BY <1>1, <2>2, <2>3 DEF StoredOK, stored
<1>9. CASE \/ Hit(w) \/ StartCalc(w) \/ WaitForCalc(w) \/ ReadLaps(w) \/ Rank(w) \/ Sleep(w)
           \/ TakeResult(w) \/ PutResult(w) \/ Invalidate(w) \/ GetPage(w) \/ WaitForPage(w)
  <2>1. UNCHANGED <<stored, copies>>
    BY <1>9 DEF Hit, StartCalc, WaitForCalc, ReadLaps, Rank, BuildOn, Sleep, TakeResult, PutResult,
                Invalidate, GetPage, WaitForPage, local
  <2> QED
    BY <1>1, <2>1 DEF StoredOK, CopiesOK, stored
<1> QED
  BY Zenon, <1>2, <1>3, <1>4, <1>5, <1>6, <1>7, <1>8, <1>9 DEF Step

LEMMA GotStep ==
  ASSUME TypeOK, FormsHold, CallsHold, NEW w \in Workers, Step(w)
  PROVE  GotOK' /\ FlagsOK' /\ RestOK'
<1>1. /\ StoredOK /\ FlagsOK /\ ProgsOK /\ CallsOK /\ GotOK /\ CopiesOK /\ RestOK /\ StackHolds(w)
      /\ Form(prog[w])
  BY TypeParts DEF CallsHold, FormsHold
<1>2. cpu' \in Workers \cup {Free}
  BY <1>1, CallStep DEF RestOK
<1>3. CASE Hit(w)
  <2>1. /\ calls[w] \in Seq(Builds) /\ Stacked(calls[w]) /\ prog[w] # <<>> /\ prog[w][1].do = "get"
        /\ calls[w] # <<>> => calls[w][1].at = "parts"
        /\ \E n \in Nodes, v \in Contents : Return(w, calls[w], n, v)
    BY <1>1, <1>3, HitFacts
  <2>2. PICK n \in Nodes, v \in Contents : Return(w, calls[w], n, v)
    BY <2>1
  <2>3. GotOK'
    BY <1>1, <2>1, <2>2, ReturnFacts
  <2> QED
    BY <1>1, <1>2, <1>3, <2>3 DEF Hit, FlagsOK, RestOK, flags
<1>4. CASE Finish(w)
  <2> DEFINE stack == Tail(calls[w])
  <2>1. /\ stack \in Seq(Builds) /\ Stacked(stack) /\ prog[w] # <<>> /\ prog[w][1].do = "get"
        /\ stack # <<>> => stack[1].at = "parts"
        /\ \E n \in Nodes, v \in Contents : Return(w, stack, n, v)
        /\ calc' \in BOOLEAN
    BY <1>1, <1>4, FinishFacts
  <2> HIDE DEF stack
  <2>2. PICK n \in Nodes, v \in Contents : Return(w, stack, n, v)
    BY <2>1
  <2>3. GotOK'
    BY <1>1, <2>1, <2>2, ReturnFacts
  <2> QED
    BY <1>1, <1>2, <1>4, <2>1, <2>3 DEF Finish, FlagsOK, RestOK
<1>5. CASE Miss(w) \/ StartCalc(w) \/ WaitForCalc(w) \/ ReadLaps(w) \/ Rank(w)
  <2>1. /\ calc' \in {TRUE, calc} /\ UNCHANGED <<page, updating, got, token, asked, clean>>
    BY <1>5 DEF Miss, StartCalc, WaitForCalc, ReadLaps, Rank, BuildOn, flags
  <2> QED
    BY <1>1, <1>2, <2>1 DEF FlagsOK, RestOK, GotOK
<1>6. CASE WriteRace(w)
  <2>1. /\ UNCHANGED <<page, updating, calc, got, asked>>
        /\ token' = [token EXCEPT ![w] = now + 1] /\ clean' = (clean /\ Alone(w))
    BY <1>1, <1>6, WriteRaceFacts
  <2>2. clean' \in BOOLEAN
    BY Zenon, <2>1
  <2>3. token' \in [Workers -> Nat]
    BY <1>1, <2>1 DEF RestOK, StoredOK
  <2> QED
    BY <1>1, <1>2, <2>1, <2>2, <2>3 DEF FlagsOK, RestOK, GotOK
<1>7. CASE RewriteLaps(w)
  <2>1. UNCHANGED <<page, updating, calc, got, asked, token>> /\ clean' = (clean /\ Alone(w))
    BY <1>1, <1>7, RewriteFacts
  <2>2. clean' \in BOOLEAN
    BY Zenon, <2>1
  <2> QED
    BY <1>1, <1>2, <2>1, <2>2 DEF FlagsOK, RestOK, GotOK
<1>8. CASE Drop(w)
  <2>1. /\ UNCHANGED <<page, updating, calc, asked, clean>>
        /\ got' = [got EXCEPT ![w] = [n \in Nodes |-> {}]] /\ token' = [token EXCEPT ![w] = 0]
    BY <1>8 DEF Drop, flags
  <2>2. [n \in Nodes |-> {}] \in [Nodes -> Contents]
    BY ContentsTypes
  <2>3. GotOK'
    BY <1>1, <2>1, <2>2 DEF GotOK
  <2> QED
    BY <1>1, <1>2, <2>1, <2>3 DEF FlagsOK, RestOK
<1>9. CASE ShowPage(w)
  <2>1. /\ UNCHANGED <<calc, asked, clean, token>> /\ updating' = FALSE
        /\ got' = [got EXCEPT ![w] = [n \in Nodes |-> {}]]
        /\ page' = [valid |-> TRUE, shown |-> got[w]]
    BY <1>9 DEF ShowPage
  <2>2. [n \in Nodes |-> {}] \in [Nodes -> Contents] /\ got[w] \in [Nodes -> Contents]
    BY <1>1, ContentsTypes DEF GotOK
  <2>3. GotOK'
    BY <1>1, <2>1, <2>2 DEF GotOK
  <2>4. FlagsOK'
    BY <1>1, <2>1, <2>2 DEF FlagsOK
  <2> QED
    BY <1>1, <1>2, <2>1, <2>3, <2>4 DEF RestOK
<1>10. CASE TakeResult(w)
  <2>1. /\ UNCHANGED <<flags, asked, clean, token>> /\ On(w, "recent")
        /\ got' = [got EXCEPT ![w][Arg(w)] = {<<Arg(w), 1>>}]
    BY <1>10 DEF TakeResult
  <2>2. Arg(w) \in Races
    BY <1>1, <2>1, OnFacts, HeadTypes
  <2>3. {<<Arg(w), 1>>} \in Contents /\ Arg(w) \in Nodes
    BY <2>2, ContentsTypes, ModelTypes
  <2>4. GotOK'
    BY <1>1, <2>1, <2>3 DEF GotOK
  <2> QED
    BY <1>1, <1>2, <2>1, <2>4 DEF RestOK, FlagsOK, flags
<1>11. CASE Invalidate(w) \/ BuildPage(w)
  <2>1. /\ UNCHANGED <<calc, asked, clean, token, got>>
        /\ page' = page \/ page' = [page EXCEPT !.valid = FALSE]
        /\ updating' \in {updating, TRUE}
    BY <1>11 DEF Invalidate, BuildPage
  <2> QED
    BY <1>1, <1>2, <2>1 DEF RestOK, FlagsOK, GotOK
<1>12. CASE \/ Sleep(w) \/ Hold(w) \/ PutResult(w) \/ StoreResult(w) \/ ClearEvent(w) \/ GetPage(w)
            \/ WaitForPage(w) \/ PageHeat(w) \/ Keep(w)
  <2>1. UNCHANGED <<flags, got, token, asked, clean>>
    BY <1>12 DEF Sleep, Hold, PutResult, StoreResult, ClearEvent, GetPage, WaitForPage, PageHeat,
                 Keep, local
  <2> QED
    BY <1>1, <1>2, <2>1 DEF RestOK, FlagsOK, GotOK, flags
<1> QED
  BY Zenon, <1>3, <1>4, <1>5, <1>6, <1>7, <1>8, <1>9, <1>10, <1>11, <1>12 DEF Step

\* Of the greenlets only w moves.
LEMMA FormsStep ==
  ASSUME TypeOK, FormsHold, CallsHold, NEW w \in Workers, Step(w)
  PROVE  ProgsOK' /\ FormsHold' /\ CallsHold'
<1>1. ProgsOK /\ CallsOK
  BY TypeParts
<1>2. PICK q : Follows(w, q) /\ prog' = [prog EXCEPT ![w] = q]
  BY <1>1, ProgStep
<1>3. ProgsOK' /\ FormsHold'
  BY <1>1, <1>2 DEF ProgsOK, FormsHold, Follows
<1>4. StackHolds(w)' /\ \E c : calls' = [calls EXCEPT ![w] = c]
  BY CallStep
<1>5. ASSUME NEW v \in Workers, v # w PROVE StackHolds(v)'
  <2>1. calls'[v] = calls[v] /\ prog'[v] = prog[v]
    BY <1>1, <1>2, <1>4, <1>5 DEF ProgsOK, CallsOK
  <2> QED
    BY <2>1 DEF CallsHold, StackHolds
<1> QED
  BY <1>3, <1>4, <1>5 DEF CallsHold

LEMMA WritesOnce ==
  ASSUME NEW r \in Races, NEW p \in Progs, p # <<>>
  PROVE  /\ Saves(r, p) /\ Len(p) = 9 => \A x : ~Has(Tail(p), "write", x)
         /\ Resaves(r, p) /\ p[1].do = "rewrite" => \A x : ~Has(Tail(p), "rewrite", x)
<1> DEFINE l == Len(p)
<1>1. /\ l \in Nat \ {0} /\ Tail(p) \in Progs /\ Len(Tail(p)) = l - 1
      /\ \A i \in 1..(l - 1) : Tail(p)[i] = p[i + 1]
      /\ Len(p) = l
  BY Cut
<1> HIDE DEF l
<1>2. ASSUME Saves(r, p), l = 9, NEW x, Has(Tail(p), "write", x) PROVE FALSE
  <2>1. PICK i \in 1..Len(Tail(p)) : Tail(p)[i] = Do("write", x)
    BY <1>1, <1>2, InRange DEF Has
  <2>2. i + 1 \in 1..l /\ p[i + 1].do = "write" /\ i + 1 > 1
    BY <1>1, <2>1, DoTypes
  <2> DEFINE j == i + 1
  <2> HIDE DEF j
  <2>3. j \in 1..l /\ p[j].do = "write" /\ j > 1
    BY <2>2 DEF j
  <2>4. l = 8 + j
    BY <1>1, <1>2, <2>3, SavesElements
  <2> QED
    BY <1>2, <2>3, <2>4
<1>3. ASSUME Resaves(r, p), NEW x, Has(Tail(p), "rewrite", x) PROVE FALSE
  <2>1. PICK i \in 1..Len(Tail(p)) : Tail(p)[i] = Do("rewrite", x)
    BY <1>1, <1>3, InRange DEF Has
  <2>2. i + 1 \in 1..l /\ p[i + 1].do = "rewrite" /\ i + 1 > 1
    BY <1>1, <2>1, DoTypes
  <2> DEFINE j == i + 1
  <2> HIDE DEF j
  <2>3. j \in 1..l /\ p[j].do = "rewrite" /\ j > 1
    BY <2>2 DEF j
  <2>4. j = 1
    BY <1>1, <1>3, <2>3, ResavesElements
  <2> QED
    BY <2>3, <2>4
<1> QED
  BY <1>1, <1>2, <1>3

LEMMA LapsKept ==
  ASSUME NEW w \in Workers, Step(w), ~WriteRace(w), ~RewriteLaps(w)
  PROVE  laps' = laps
BY DEF Step, Hit, Miss, StartCalc, WaitForCalc, ReadLaps, Rank, Finish, BuildOn,
  Sleep, Hold, Drop, TakeResult, PutResult, StoreResult,
  ClearEvent, Invalidate, GetPage, WaitForPage, BuildPage, PageHeat, Keep, ShowPage, stored

LEMMA DueStep ==
  ASSUME TypeOK, FormsHold, CallsHold, DueHolds, NEW w \in Workers, Step(w)
  PROVE  DueHolds'
<1>1. ProgsOK /\ CallsOK /\ StoredOK
  BY TypeParts
<1>2. PICK q : Follows(w, q) /\ prog' = [prog EXCEPT ![w] = q]
  BY <1>1, ProgStep
<1>3. \A v \in Workers, r \in Races, i \in {"write", "rewrite"} : Has(prog[v], i, r)' => Has(prog[v], i, r)
  BY <1>1, <1>2 DEF ProgsOK, Follows, Has
<1>4. \A v, u \in Workers, r \in Races, i \in {"write", "rewrite"} :
         Has(prog[v], i, r)' /\ Has(prog[u], i, r)' => v = u
  BY <1>3 DEF DueHolds
<1>5. ASSUME NEW v \in Workers, NEW r \in Races
      PROVE  /\ Has(prog[v], "write", r)' => laps'[r] = 0
             /\ Has(prog[v], "rewrite", r)' => laps'[r] \in 1..(MaxVersion - 1)
  <2>0. /\ Has(prog[v], "write", r) => laps[r] = 0
        /\ Has(prog[v], "rewrite", r) => laps[r] \in 1..(MaxVersion - 1)
    BY DEF DueHolds
  <2>1. CASE WriteRace(w)
    <3>1. /\ Arg(w) \in Races /\ Has(prog[w], "write", Arg(w)) /\ Saves(Arg(w), prog[w])
          /\ Len(prog[w]) = 9 /\ laps' = [laps EXCEPT ![Arg(w)] = 1]
          /\ prog' = [prog EXCEPT ![w] = Tail(prog[w])] /\ prog[w] \in Progs
      BY <1>1, <2>1, WriteRaceFacts
    <3>2. CASE r # Arg(w)
      BY <1>1, <1>3, <2>0, <3>1, <3>2 DEF StoredOK
    <3>3. CASE r = Arg(w)
      <4>1. laps[r] = 0 /\ ~Has(prog[v], "rewrite", r)
        BY <2>0, <3>1, <3>3 DEF DueHolds
      <4>2. Has(prog[v], "write", r)' => v = w
        BY <1>3, <3>1, <3>3 DEF DueHolds
      <4>3. prog[w] # <<>>
        BY <2>1 DEF WriteRace, On, Busy
      <4>4. ~Has(Tail(prog[w]), "write", r)
        BY <3>1, <4>3, WritesOnce
      <4>5. prog'[w] = Tail(prog[w])
        BY <1>1, <3>1 DEF ProgsOK
      <4> QED
        BY Zenon, <1>3, <4>1, <4>2, <4>4, <4>5 DEF Has
    <3> QED
      BY <3>2, <3>3
  <2>2. CASE RewriteLaps(w)
    <3>1. /\ Arg(w) \in Races /\ Has(prog[w], "rewrite", Arg(w)) /\ Resaves(Arg(w), prog[w])
          /\ laps' = [laps EXCEPT ![Arg(w)] = @ + 1]
          /\ prog' = [prog EXCEPT ![w] = Tail(prog[w])] /\ prog[w] \in Progs
      BY <1>1, <2>2, RewriteFacts
    <3>2. CASE r # Arg(w)
      BY <1>1, <1>3, <2>0, <3>1, <3>2 DEF StoredOK
    <3>3. CASE r = Arg(w)
      <4>1. laps[r] \in 1..(MaxVersion - 1)
        BY <3>1, <3>3 DEF DueHolds
      <4>2. ~Has(prog[v], "write", r)
        BY <2>0, <4>1
      <4>3. Has(prog[v], "rewrite", r)' => v = w
        BY <1>3, <3>1, <3>3 DEF DueHolds
      <4>4. prog[w] # <<>> /\ prog[w][1].do = "rewrite"
        BY <1>1, <2>2, OnFacts DEF RewriteLaps
      <4>5. ~Has(Tail(prog[w]), "rewrite", r)
        BY <3>1, <4>4, WritesOnce
      <4>6. prog'[w] = Tail(prog[w])
        BY <1>1, <3>1 DEF ProgsOK
      <4> QED
        BY Zenon, <1>3, <4>2, <4>3, <4>5, <4>6 DEF Has
    <3> QED
      BY <3>2, <3>3
  <2>3. CASE ~WriteRace(w) /\ ~RewriteLaps(w)
    <3>1. laps' = laps
      BY <2>3, LapsKept
    <3> QED
      BY <1>3, <2>0, <3>1
  <2> QED
    BY <2>1, <2>2, <2>3
<1> QED
  BY <1>4, <1>5 DEF DueHolds, Has

-----------------------------------------------------------------------------
(* Requests.                                                               *)

LEMMA ReadForms ==
  ASSUME NEW n \in Heats \cup {Event}
  PROVE  LET p == <<Do("get", n), Do("drop", Event)>>
         IN  p \in Progs /\ Reads(p) /\ p # <<>> /\ \A x : ~Has(p, "write", x) /\ ~Has(p, "rewrite", x)
                                                      /\ ~Has(p, "show", x)
<1> DEFINE p == <<Do("get", n), Do("drop", Event)>>
<1>1. Do("get", n) \in Instr /\ Do("drop", Event) \in Instr
  BY ModelTypes, DoTypes DEF Instructions
<1>2. p \in Progs /\ p # <<>> /\ Reads(p)
  BY <1>1 DEF Progs, Reads
<1> HIDE DEF p
<1>3. \A i \in 1..Len(p) : p[i].do \in {"get", "drop"}
  BY <1>2, ReadsFacts
<1>4. ASSUME NEW x, NEW i \in {"write", "rewrite", "show"} PROVE ~Has(p, i, x)
  <2>1. Do(i, x).do = i
    BY DoTypes
  <2>2. \A j \in 1..Len(p) : p[j] # Do(i, x)
    BY <1>3, <2>1
  <2> QED
    BY Zenon, <1>2, <2>2, InRange DEF Has
<1>5. \A x : ~Has(p, "write", x) /\ ~Has(p, "rewrite", x) /\ ~Has(p, "show", x)
  BY <1>4
<1> QED
  BY Zenon, <1>2, <1>5 DEF p

LEMMA PageForms ==
  LET p == <<Do("page", Event)>>
  IN  p \in Progs /\ p # <<>> /\ \A x : ~Has(p, "write", x) /\ ~Has(p, "rewrite", x) /\ ~Has(p, "show", x)
<1> DEFINE p == <<Do("page", Event)>>
<1>1. p \in Progs /\ p # <<>> /\ \A i \in 1..Len(p) : p[i] = Do("page", Event)
  BY PageFacts
<1> HIDE DEF p
<1>4. ASSUME NEW x, NEW i \in {"write", "rewrite", "show"} PROVE ~Has(p, i, x)
  <2>1. Do(i, x).do = i /\ Do("page", Event).do = "page"
    BY DoTypes
  <2>2. \A j \in 1..Len(p) : p[j] # Do(i, x)
    BY <1>1, <2>1
  <2> QED
    BY Zenon, <1>1, <2>2, InRange DEF Has
<1>5. \A x : ~Has(p, "write", x) /\ ~Has(p, "rewrite", x) /\ ~Has(p, "show", x)
  BY <1>4
<1> QED
  BY Zenon, <1>1, <1>5 DEF p

\* What a save or a resave can hold, and for which race.
LEMMA WritersHave ==
  ASSUME NEW r \in Races, NEW p \in Progs
  PROVE  /\ Saves(r, p) => /\ \A x : Has(p, "write", x) => x = r
                           /\ \A x : ~Has(p, "rewrite", x) /\ ~Has(p, "show", x)
         /\ Resaves(r, p) => /\ \A x : Has(p, "rewrite", x) => x = r
                             /\ \A x : ~Has(p, "write", x) /\ ~Has(p, "show", x)
<1> DEFINE l == Len(p)
<1>1. l \in Nat /\ Len(p) = l
  BY DEF Progs
<1> HIDE DEF l
<1>2. ASSUME NEW i, NEW x, Has(p, i, x)
      PROVE  \E j \in 1..l : p[j] = Do(i, x) /\ p[j].do = i /\ p[j].on = x
  BY <1>1, <1>2, InRange, DoTypes DEF Has
<1>3. ASSUME Saves(r, p)
      PROVE  /\ \A x : Has(p, "write", x) => x = r
             /\ \A x : ~Has(p, "rewrite", x) /\ ~Has(p, "show", x)
  <2>1. \A j \in 1..l : /\ p[j].do \notin {"rewrite", "show"}
                        /\ p[j].do = "write" => p[j] = Do("write", r)
    BY <1>1, <1>3, SavesElements
  <2>2. Do("write", r).on = r
    BY DoTypes
  <2> QED
    BY <1>2, <2>1, <2>2
<1>4. ASSUME Resaves(r, p)
      PROVE  /\ \A x : Has(p, "rewrite", x) => x = r
             /\ \A x : ~Has(p, "write", x) /\ ~Has(p, "show", x)
  <2>1. \A j \in 1..l : /\ p[j].do \notin {"write", "show"}
                        /\ p[j].do = "rewrite" => p[j] = Do("rewrite", r)
    BY <1>1, <1>4, ResavesElements
  <2>2. Do("rewrite", r).on = r
    BY DoTypes
  <2> QED
    BY <1>2, <2>1, <2>2
<1> QED
  BY <1>3, <1>4

LEMMA SaveForms ==
  ASSUME NEW r \in Races
  PROVE  /\ SaveSteps(r) \in Progs /\ SaveSteps(r) # <<>> /\ Saves(r, SaveSteps(r))
         /\ Len(SaveSteps(r)) = 12
<1> DEFINE p == SaveSteps(r)
<1>1. p \in Progs /\ Len(p) = 12
  BY SaveStepsAre
<1> HIDE DEF p
<1> DEFINE l == 12
<1>2. l \in Nat /\ l \in 1..12 /\ Len(p) = l /\ \A i \in 1..l : (12 - l) + i = i
  BY <1>1
<1> HIDE DEF l
<1>3. \A i \in 1..l : p[i] = SaveSteps(r)[(12 - l) + i]
  BY <1>2 DEF p
<1>4. Saves(r, p)
  BY Zenon, <1>1, <1>2, <1>3, SavesAt
<1> QED
  BY <1>1, <1>4 DEF p, Progs

ResaveSteps(r, racedLast) ==
  (IF racedLast THEN <<Do("rewrite", r), Do("get", r)>> ELSE <<Do("rewrite", r)>>) \o RebuildSteps(r)

LEMMA ResaveForms ==
  ASSUME NEW r \in Races, NEW racedLast \in BOOLEAN
  PROVE  LET p == ResaveSteps(r, racedLast)
         IN  /\ p \in Progs /\ p # <<>> /\ Resaves(r, p) /\ Len(p) \in {16, 17}
             /\ p[1] = Do("rewrite", r)
<1> DEFINE s == RebuildSteps(r)
           k == IF racedLast THEN <<Do("rewrite", r), Do("get", r)>> ELSE <<Do("rewrite", r)>>
           p == ResaveSteps(r, racedLast)
           m == IF racedLast THEN 2 ELSE 1
<1>1. s \in Progs /\ Len(s) = 15
  BY RebuildStepsAre
<1>2. Do("rewrite", r) \in Instr /\ Do("get", r) \in Instr
  BY ModelTypes, DoTypes DEF Instructions
<1>3. /\ k \in Progs /\ Len(k) = m /\ m \in {1, 2} /\ k[1] = Do("rewrite", r)
      /\ \A i \in 1..m : k[i] = Do("get", r) \/ (i = 1 /\ k[i] = Do("rewrite", r))
  BY <1>2 DEF Progs
<1>4. p = k \o s
  BY DEF ResaveSteps
<1> HIDE DEF s, k, p, m
<1>5. /\ p \in Progs /\ Len(p) = m + 15
      /\ \A i \in 1..m : p[i] = k[i]
      /\ \A i \in 1..15 : p[m + i] = s[i]
  <2>1. /\ p \in Progs /\ Len(p) = Len(k) + Len(s)
        /\ \A i \in 1..Len(k) : p[i] = k[i]
        /\ \A i \in 1..Len(s) : p[Len(k) + i] = s[i]
    BY Zenon, <1>1, <1>3, <1>4, Joined
  <2>2. Len(k) = m /\ Len(s) = 15
    BY <1>1, <1>3
  <2> QED
    BY Zenon, <2>1, <2>2
<1> DEFINE l == m + 15
<1>6. l \in {16, 17} /\ m = l - 15
  BY <1>3
<1> HIDE DEF l
<1>7. ASSUME NEW i \in 1..l
      PROVE  IF l - i < 15 THEN p[i] = RebuildSteps(r)[(15 - l) + i]
             ELSE p[i] = Do("get", r) \/ (i = 1 /\ p[i] = Do("rewrite", r))
  <2>1. CASE l - i < 15
    <3> DEFINE j == i - m
    <3>1. j \in 1..15 /\ i = m + j /\ (15 - l) + i = j
      BY <1>3, <1>6, <2>1
    <3> HIDE DEF j
    <3> QED
      BY <1>5, <2>1, <3>1 DEF s
  <2>2. CASE ~(l - i < 15)
    <3>1. i \in 1..m
      BY <1>6, <2>2
    <3> QED
      BY <1>3, <1>5, <2>2, <3>1
  <2> QED
    BY <2>1, <2>2
<1>8. Len(p) = l
  BY <1>5 DEF l
<1>9. Resaves(r, p)
  <2>1. l \in Nat /\ l \in 1..17
    BY <1>6
  <2> QED
    BY Zenon, <1>5, <1>7, <1>8, <2>1, ResavesAt
<1>10. p # <<>> /\ 1 \in 1..m
  BY <1>3, <1>5, <1>6, <1>8
<1> QED
  BY <1>3, <1>5, <1>6, <1>8, <1>9, <1>10 DEF p

\* What a request begins with.
Starts(w, p) ==
  \/ Reads(p)
  \/ p = <<Do("page", Event)>>
  \/ \E r \in Races : /\ Saves(r, p) /\ Len(p) = 12 /\ laps[r] = 0
                      /\ \A v \in Workers : ~Has(prog[v], "write", r)
  \/ \E r \in Races : /\ Resaves(r, p) /\ Len(p) \in {16, 17} /\ laps[r] \in 1..(MaxVersion - 1)
                      /\ \A v \in Workers : ~Has(prog[v], "rewrite", r)

LEMMA RequestFacts ==
  ASSUME NEW w \in Workers, Request(w)
  PROVE  \E p \in Progs :
           /\ prog' = [prog EXCEPT ![w] = p] /\ cpu' = w /\ cpu = Free /\ ~Busy(w)
           /\ UNCHANGED <<stored, flags, copies, calls, got, token, clean>>
           /\ asked < MaxRequests /\ asked' = asked + 1
           /\ p # <<>> /\ Form(p) /\ ~Has(p, "show", Event) /\ Starts(w, p)
           /\ \A r \in Races :
                /\ Has(p, "write", r) => laps[r] = 0 /\ \A v \in Workers : ~Has(prog[v], "write", r)
                /\ Has(p, "rewrite", r) => /\ laps[r] \in 1..(MaxVersion - 1)
                                           /\ \A v \in Workers : ~Has(prog[v], "rewrite", r)
<1>1. CASE \E n \in Heats \cup {Event} : ReadResults(w, n)
  <2>1. PICK n \in Heats \cup {Event} : ReadResults(w, n)
    BY <1>1
  <2> DEFINE p == <<Do("get", n), Do("drop", Event)>>
  <2>2. Begin(w, "read", p)
    BY <2>1 DEF ReadResults
  <2>3. /\ p \in Progs /\ Reads(p) /\ p # <<>>
        /\ \A x : ~Has(p, "write", x) /\ ~Has(p, "rewrite", x) /\ ~Has(p, "show", x)
    BY ReadForms
  <2> HIDE DEF p
  <2> QED
    BY <2>2, <2>3 DEF Form, Begin, Starts
<1>2. CASE ReadPage(w)
  <2> DEFINE p == <<Do("page", Event)>>
  <2>2. Begin(w, "page", p)
    BY <1>2 DEF ReadPage
  <2>3. /\ p \in Progs /\ p # <<>>
        /\ \A x : ~Has(p, "write", x) /\ ~Has(p, "rewrite", x) /\ ~Has(p, "show", x)
    BY PageForms
  <2>4. Form(p) /\ Starts(w, p)
    BY Zenon DEF Form, Starts
  <2> HIDE DEF p
  <2> QED
    BY <2>2, <2>3, <2>4 DEF Begin
<1>3. CASE \E r \in Races : Save(w, r)
  <2>1. PICK r \in Races : Save(w, r)
    BY <1>3
  <2> DEFINE p == SaveSteps(r)
  <2>2. Begin(w, "save", p) /\ laps[r] = 0 /\ \A v \in Workers : ~Has(prog[v], "write", r)
    BY <2>1 DEF Save, Has
  <2>3. p \in Progs /\ p # <<>> /\ Saves(r, p) /\ Len(p) = 12
    BY SaveForms
  <2> HIDE DEF p
  <2>4. /\ \A x : Has(p, "write", x) => x = r
        /\ \A x : ~Has(p, "rewrite", x) /\ ~Has(p, "show", x)
    BY <2>3, WritersHave
  <2>5. Form(p) /\ Starts(w, p)
    BY Zenon, <2>2, <2>3 DEF Form, Starts
  <2> QED
    BY <2>2, <2>3, <2>4, <2>5 DEF Begin
<1>4. CASE \E r \in Races : Resave(w, r)
  <2>1. PICK r \in Races, racedLast \in BOOLEAN :
           /\ laps[r] \in 1..(MaxVersion - 1)
           /\ \A v \in Workers : Do("rewrite", r) \notin Range(prog[v])
           /\ Begin(w, "resave", ResaveSteps(r, racedLast))
    BY Zenon, <1>4 DEF Resave, ResaveSteps
  <2> DEFINE p == ResaveSteps(r, racedLast)
  <2>2. Begin(w, "resave", p) /\ laps[r] \in 1..(MaxVersion - 1) /\ \A v \in Workers : ~Has(prog[v], "rewrite", r)
    BY Zenon, <2>1 DEF Has
  <2>3. p \in Progs /\ p # <<>> /\ Resaves(r, p) /\ Len(p) \in {16, 17}
    BY ResaveForms
  <2> HIDE DEF p
  <2>4. /\ \A x : Has(p, "rewrite", x) => x = r
        /\ \A x : ~Has(p, "write", x) /\ ~Has(p, "show", x)
    BY <2>3, WritersHave
  <2>5. Form(p) /\ Starts(w, p)
    BY Zenon, <2>2, <2>3 DEF Form, Starts
  <2> QED
    BY <2>2, <2>3, <2>4, <2>5 DEF Begin
<1> QED
  BY <1>1, <1>2, <1>3, <1>4 DEF Request

-----------------------------------------------------------------------------
(* Types, and the holders of the flags.                                    *)

Structure == TypeOK /\ FormsHold /\ CallsHold /\ DueHolds

LEMMA InitStructure ==
  ASSUME Init
  PROVE  Structure
<1>1. CachesAssumption
  BY CachesAssumption
<1>2. laps = [r \in Races |-> IF r \in SavedAtStart THEN 1 ELSE 0]
  BY DEF Init
<1>3. laps \in [Races -> 0..MaxVersion] /\ \A r \in Races : laps[r] \in {0, 1}
  BY <1>1, <1>2 DEF CachesAssumption
<1>4. \A n : Current(n) \in Contents
  <2> TAKE n
  <2> DEFINE S == IF n = Event THEN Saved ELSE IF n \in Heats THEN RacesOf(n) ELSE {n} \cap Saved
  <2>1. \A r \in S : r \in Races /\ laps[r] > 0 /\ laps[r] \in 0..MaxVersion
    BY <1>3 DEF Saved, RacesOf
  <2>2. \A r \in S : r \in Races /\ laps[r] \in 1..MaxVersion
    BY <2>1, CachesAssumption
  <2>3. Current(n) = {<<r, laps[r]>> : r \in S}
    BY Zenon DEF Current
  <2> HIDE DEF S
  <2> QED
    BY <2>2, <2>3 DEF Contents
<1>5. PICK warm \in BOOLEAN, valid \in BOOLEAN :
         /\ db = [n \in Nodes |-> IF n \in Races \ SavedAtStart THEN NoRow
                                  ELSE IF warm THEN [ver |-> 1, built |-> 1, res |-> Current(n)]
                                  ELSE Cleared(1)]
         /\ page = [valid |-> valid, shown |-> [n \in Nodes |-> Current(n)]]
  BY Zenon DEF Init
<1>6. now = 1 /\ 1 \in Nat /\ \A n : [ver |-> 1, built |-> 1, res |-> Current(n)] \in Status
  BY <1>4, StatusTypes DEF Init
<1>7. StoredOK
  BY <1>3, <1>5, <1>6, StatusTypes DEF StoredOK
<1>8. FlagsOK
  BY <1>4, <1>5 DEF FlagsOK, Init
<1>9. ProgsOK /\ CallsOK /\ \A w \in Workers : prog[w] = <<>> /\ calls[w] = <<>>
  BY DEF ProgsOK, CallsOK, Init, Progs
<1>10. GotOK /\ CopiesOK /\ RestOK
  BY ContentsTypes, StatusTypes, CachesAssumption DEF GotOK, CopiesOK, RestOK, Init
<1>11. FormsHold
  BY <1>9 DEF FormsHold, Form
<1>12. CallsHold
  BY <1>9, NoStack DEF CallsHold, StackHolds
<1>13. DueHolds
  BY <1>9 DEF DueHolds, Has, Range
<1> QED
  BY <1>7, <1>8, <1>9, <1>10, <1>11, <1>12, <1>13, TypeParts DEF Structure

LEMMA RequestStructure ==
  ASSUME Structure, NEW w \in Workers, Request(w)
  PROVE  Structure'
<1>1. /\ StoredOK /\ FlagsOK /\ ProgsOK /\ CallsOK /\ GotOK /\ CopiesOK /\ RestOK
      /\ FormsHold /\ CallsHold /\ DueHolds
  BY TypeParts DEF Structure
<1>2. PICK p \in Progs :
           /\ prog' = [prog EXCEPT ![w] = p] /\ cpu' = w /\ cpu = Free /\ ~Busy(w)
           /\ UNCHANGED <<stored, flags, copies, calls, got, token, clean>>
           /\ asked < MaxRequests /\ asked' = asked + 1
           /\ p # <<>> /\ Form(p)
           /\ \A r \in Races :
                /\ Has(p, "write", r) => laps[r] = 0 /\ \A v \in Workers : ~Has(prog[v], "write", r)
                /\ Has(p, "rewrite", r) => /\ laps[r] \in 1..(MaxVersion - 1)
                                           /\ \A v \in Workers : ~Has(prog[v], "rewrite", r)
  BY RequestFacts
<1>3. prog[w] = <<>> /\ calls[w] = <<>>
  BY <1>1, <1>2 DEF Busy, CallsHold, StackHolds
<1>4. /\ StoredOK' /\ FlagsOK' /\ CallsOK' /\ GotOK' /\ CopiesOK'
  BY <1>1, <1>2 DEF StoredOK, FlagsOK, CallsOK, GotOK, CopiesOK, stored, flags
<1>5. RestOK' /\ ProgsOK' /\ FormsHold'
  BY <1>1, <1>2, CachesAssumption DEF RestOK, ProgsOK, FormsHold
<1>6. CallsHold'
  BY <1>1, <1>2, <1>3, NoStack DEF CallsHold, StackHolds, CallsOK, ProgsOK
<1>7. \A v \in Workers : prog'[v] = IF v = w THEN p ELSE prog[v]
  BY <1>1, <1>2 DEF ProgsOK
<1>8. laps' = laps
  BY <1>2 DEF stored
<1>9. DueHolds'
  <2>1. ASSUME NEW v \in Workers, NEW r \in Races
        PROVE  /\ Has(prog'[v], "write", r) => laps'[r] = 0
               /\ Has(prog'[v], "rewrite", r) => laps'[r] \in 1..(MaxVersion - 1)
    BY <1>1, <1>2, <1>7, <1>8 DEF DueHolds
  <2>2. ASSUME NEW v \in Workers, NEW u \in Workers, NEW r \in Races, NEW i \in {"write", "rewrite"},
               Has(prog'[v], i, r), Has(prog'[u], i, r)
        PROVE  v = u
    BY <1>1, <1>2, <1>7, <2>2 DEF DueHolds
  <2>3. \A v, u \in Workers, r \in Races, i \in {"write", "rewrite"} :
           Has(prog'[v], i, r) /\ Has(prog'[u], i, r) => v = u
    BY <2>2
  <2> QED
    BY <2>1, <2>3 DEF DueHolds, Has
<1> QED
  BY <1>4, <1>5, <1>6, <1>9, TypeParts DEF Structure

LEMMA Unmoved ==
  ASSUME Structure, UNCHANGED vars
  PROVE  Structure'
<1>1. TypeOK'
  BY DEF vars, stored, flags, local, Structure, TypeOK
<1>2. FormsHold' /\ CallsHold'
  BY DEF vars, stored, flags, local, Structure, FormsHold, CallsHold, StackHolds
<1>3. DueHolds'
  BY DEF vars, stored, flags, local, Structure, DueHolds, Has
<1> QED
  BY <1>1, <1>2, <1>3 DEF Structure

LEMMA StructureNext ==
  ASSUME Structure, [Next]_vars
  PROVE  Structure'
<1>1. CASE UNCHANGED vars
  BY <1>1, Unmoved
<1>2. ASSUME NEW w \in Workers, Request(w) PROVE Structure'
  BY <1>2, RequestStructure
<1>3. ASSUME NEW w \in Workers, Step(w) PROVE Structure'
  <2>1. TypeOK /\ FormsHold /\ CallsHold /\ DueHolds
    BY DEF Structure
  <2>2. StoredOK' /\ CopiesOK'
    BY <1>3, <2>1, StoredStep
  <2>3. GotOK' /\ FlagsOK' /\ RestOK'
    BY <1>3, <2>1, GotStep
  <2>4. ProgsOK' /\ FormsHold' /\ CallsHold'
    BY <1>3, <2>1, FormsStep
  <2>5. CallsOK'
    BY <1>3, <2>1, CallStep
  <2>6. DueHolds'
    BY <1>3, <2>1, DueStep
  <2> QED
    BY <2>2, <2>3, <2>4, <2>5, <2>6, TypeParts DEF Structure
<1> QED
  BY <1>1, <1>2, <1>3 DEF Next

\* Every variable keeps its type; no race gets more versions than the bound, since
\* each is written by one greenlet at a time, which checked its version first.
THEOREM TypeCorrect == Spec => []TypeOK
<1>1. Structure => TypeOK
  BY DEF Structure
<1> QED
  BY <1>1, InitStructure, StructureNext, PTL DEF Spec

\* Where a step leaves the builds of its greenlet, as far as the calculation goes.
LEMMA CalcStep ==
  ASSUME Structure, NEW w \in Workers, Step(w)
  PROVE  \/ StartCalc(w) /\ ~calc /\ calc' = TRUE /\ Calculating(w)'
         \/ Calculating(w) /\ ~Calculating(w)' /\ calc' = FALSE
         \/ (Calculating(w) <=> Calculating(w)') /\ calc' = calc
<1>1. /\ TypeOK /\ StoredOK /\ FlagsOK /\ ProgsOK /\ CallsOK /\ GotOK /\ CopiesOK /\ StackHolds(w)
      /\ CallsOK'
  BY TypeParts, CallStep DEF Structure, CallsHold
<1>2. /\ calls[w] # <<>> => Head(calls[w]) = calls[w][1]
      /\ calls'[w] # <<>> => Head(calls'[w]) = calls'[w][1]
  BY <1>1, CallsCut DEF CallsOK
<1>3. /\ Calculating(w) <=> calls[w] # <<>> /\ calls[w][1].at \in {"calc", "read"}
      /\ Calculating(w)' <=> calls'[w] # <<>> /\ calls'[w][1].at \in {"calc", "read"}
  BY <1>2 DEF Calculating
<1>4. CASE Hit(w)
  <2>1. /\ calls[w] \in Seq(Builds) /\ Stacked(calls[w]) /\ prog[w] # <<>> /\ prog[w][1].do = "get"
        /\ calls[w] # <<>> => calls[w][1].at = "parts"
        /\ \E n \in Nodes, v \in Contents : Return(w, calls[w], n, v)
    BY <1>1, <1>4, HitFacts
  <2>2. PICK n \in Nodes, v \in Contents : Return(w, calls[w], n, v)
    BY <2>1
  <2>3. calls'[w] # <<>> => calls'[w][1].at = "parts"
    BY <1>1, <2>1, <2>2, ReturnFacts
  <2>4. calc' = calc
    BY <1>4 DEF Hit, flags
  <2> QED
    BY <1>3, <2>1, <2>3, <2>4
<1>5. CASE Finish(w)
  <2> DEFINE stack == Tail(calls[w])
  <2>1. /\ stack \in Seq(Builds) /\ Stacked(stack) /\ prog[w] # <<>> /\ prog[w][1].do = "get"
        /\ stack # <<>> => stack[1].at = "parts"
        /\ \E n \in Nodes, v \in Contents : Return(w, stack, n, v)
        /\ calc' = (calc /\ calls[w][1].at = "rank") /\ calls[w][1].at \in {"read", "rank"}
        /\ calls[w] # <<>>
    BY <1>1, <1>5, FinishFacts
  <2> HIDE DEF stack
  <2>2. PICK n \in Nodes, v \in Contents : Return(w, stack, n, v)
    BY <2>1
  <2>3. calls'[w] # <<>> => calls'[w][1].at = "parts"
    BY <1>1, <2>1, <2>2, ReturnFacts
  <2>4. ~Calculating(w)'
    BY <1>3, <2>3
  <2>5. CASE calls[w][1].at = "read"
    <3>1. Calculating(w) /\ calc' = FALSE
      BY <1>3, <2>1, <2>5
    <3> QED
      BY <2>4, <3>1
  <2>6. CASE calls[w][1].at = "rank"
    <3>1. calc' = calc
      BY <1>1, <2>1, <2>6 DEF FlagsOK
    <3>2. ~Calculating(w)
      BY <1>3, <2>6
    <3> QED
      BY <2>4, <3>1, <3>2
  <2> QED
    BY <2>1, <2>5, <2>6
<1>6. CASE Miss(w)
  <2>1. /\ calls'[w][1] = NewBuild(w, Asked(w))
        /\ calls[w] # <<>> => calls[w][1].at = "parts"
    BY <1>1, <1>6, MissFacts
  <2>2. NewBuild(w, Asked(w)).at \in {"wait", "parts"}
    BY DEF NewBuild
  <2>3. calc' = calc
    BY <1>6 DEF Miss, flags
  <2> QED
    BY <1>3, <2>1, <2>2, <2>3
<1>7. CASE StartCalc(w) \/ WaitForCalc(w) \/ ReadLaps(w) \/ Rank(w)
  <2>1. PICK x \in Later, acc \in Contents :
           /\ BuildOn(w, x, acc) /\ calls[w] # <<>> /\ calls[w][1].todo = {}
           /\ calls[w][1].node \in Races <=> x # "rank"
           /\ x = "rank" <=> calls[w][1].at = "parts"
           /\ StartCalc(w) => x = "calc" /\ calls[w][1].at = "wait"
           /\ WaitForCalc(w) => x = "wait" /\ calls[w][1].at = "wait"
           /\ ReadLaps(w) => x = "read" /\ calls[w][1].at = "calc"
           /\ Rank(w) => x = "rank"
    BY <1>1, <1>7, BuildStepFacts
  <2>2. /\ calls'[w] # <<>> /\ calls'[w][1] = Onward(calls[w][1], x, acc)
        /\ Onward(calls[w][1], x, acc).at = x
    <3>1. /\ calls[w][1].node \in Races <=> x # "rank"
          /\ BuildOn(w, x, acc) /\ calls[w] # <<>> /\ calls[w][1].todo = {}
      BY <2>1
    <3> QED
      BY Zenon, <1>1, <3>1, BuildOnFacts
  <2>3. CASE StartCalc(w)
    BY <1>3, <2>1, <2>2, <2>3 DEF StartCalc
  <2>4. CASE WaitForCalc(w) \/ ReadLaps(w) \/ Rank(w)
    <3>1. calc' = calc
      BY <2>4 DEF WaitForCalc, ReadLaps, Rank
    <3> QED
      BY <1>3, <2>1, <2>2, <2>4, <3>1
  <2> QED
    BY <1>7, <2>3, <2>4
<1>8. CASE OnStep(w)
  <2>1. calls[w] = <<>> /\ calls' = calls
    BY <1>8, OnStepFacts
  <2>2. calc' = calc
    BY <1>8 DEF OnStep, Sleep, Hold, Drop, WriteRace, TakeResult, PutResult, StoreResult, RewriteLaps,
       ClearEvent, Invalidate, GetPage, WaitForPage, BuildPage, PageHeat, Keep, ShowPage, flags
  <2> QED
    BY <1>3, <2>1, <2>2
<1> QED
  BY Zenon, <1>4, <1>5, <1>6, <1>7, <1>8 DEF Step, OnStep

LEMMA UpdateStep ==
  ASSUME Structure, NEW w \in Workers, Step(w)
  PROVE  \/ ~updating /\ updating' = TRUE /\ Updating(w)'
         \/ Updating(w) /\ ~Updating(w)' /\ updating' = FALSE
         \/ (Updating(w) <=> Updating(w)') /\ updating' = updating
<1>1. /\ ProgsOK /\ CallsOK /\ FormsHold /\ CallsHold
      /\ prog[w] \in Progs /\ Form(prog[w])
  BY TypeParts DEF Structure, ProgsOK, FormsHold
<1>2. CASE BuildPage(w)
  <2>1. PICK q : prog' = [prog EXCEPT ![w] = q] /\ Pages(q) /\ Follows(w, q)
    BY <1>1, <1>2, BuildPageProg
  <2>2. Has(q, "show", Event) /\ prog'[w] = q
    BY <1>1, <2>1, PagesHas DEF Follows, ProgsOK
  <2> QED
    BY <1>2, <2>2 DEF BuildPage, Updating, Has
<1>3. CASE ShowPage(w)
  <2>1. On(w, "show") /\ prog' = [prog EXCEPT ![w] = Tail(prog[w])] /\ updating' = FALSE
    BY <1>3 DEF ShowPage, Continue, Proceed
  <2>2. /\ Has(prog[w], "show", Arg(w)) /\ prog[w] # <<>> /\ prog[w][1].do = "show"
    BY <1>1, <2>1, HeadHas, OnFacts
  <2>3. Tail(prog[w]) = <<>>
    BY <1>1, <2>2, HeadTypes
  <2>4. Arg(w) = Event
    <3>1. Range(prog[w]) = Range(<<>>) \cup {prog[w][1]}
      BY <1>1, <2>2, <2>3, RangeCut
    <3>2. prog[w] # <<Do("page", Event)>> /\ ~Reads(prog[w])
      BY <2>2, PageFacts, ReadsFacts, DoTypes, <1>1
    <3>3. \A r \in Races : ~Saves(r, prog[w]) /\ ~Resaves(r, prog[w])
      BY <1>1, <2>2, WritersHave
    <3>4. Pages(prog[w])
      BY <1>1, <2>2, <3>2, <3>3 DEF Form
    <3>5. Has(prog[w], "show", Event)
      BY <1>1, <3>4, PagesHas
    <3>6. Range(<<>>) = {}
      BY DEF Range
    <3>7. Do("show", Event) = Do("show", Arg(w))
      BY <2>2, <3>1, <3>5, <3>6 DEF Has
    <3> QED
      BY <3>7, DoTypes
  <2>5. prog'[w] = <<>> /\ Range(<<>>) = {}
    BY <1>1, <2>1, <2>3 DEF ProgsOK, Range
  <2> QED
    BY <2>1, <2>2, <2>4, <2>5 DEF Updating, Has
<1>4. CASE ~BuildPage(w) /\ ~ShowPage(w)
  <2>1. PICK q : Follows(w, q) /\ prog' = [prog EXCEPT ![w] = q]
    BY <1>1, ProgStep
  <2>2. prog'[w] = q /\ (Has(q, "show", Event) <=> Has(prog[w], "show", Event))
    BY <1>1, <1>4, <2>1 DEF Follows, ProgsOK
  <2>3. updating' = updating
    BY <1>4 DEF Step, Hit, Miss, StartCalc, WaitForCalc, ReadLaps, Rank, Finish, BuildOn,
      Sleep, Hold, Drop, WriteRace, RewriteLaps, TakeResult, PutResult, StoreResult,
      ClearEvent, Invalidate, GetPage, WaitForPage, PageHeat, Keep, flags
  <2> QED
    BY <2>2, <2>3 DEF Updating, Has
<1> QED
  BY <1>2, <1>3, <1>4

LEMMA OthersStay ==
  ASSUME Structure, NEW w \in Workers, Step(w), NEW v \in Workers, v # w
  PROVE  prog'[v] = prog[v] /\ calls'[v] = calls[v]
<1>1. ProgsOK /\ CallsOK /\ TypeOK /\ FormsHold /\ CallsHold
  BY TypeParts DEF Structure
<1>2. (\E q : prog' = [prog EXCEPT ![w] = q]) /\ \E c : calls' = [calls EXCEPT ![w] = c]
  BY <1>1, ProgStep, CallStep
<1> QED
  BY <1>1, <1>2 DEF ProgsOK, CallsOK

\* The flags other greenlets wait for, of calc_leaderboard and of the page cache,
\* are never left behind: each has exactly one holder when it is set, which is still
\* on its way to reset it.
THEOREM FlagsSafe == Spec => []FlagsHeld
<1>1. Init => FlagsHeld
  <2>1. ASSUME Init, NEW w \in Workers PROVE ~Calculating(w) /\ ~Updating(w)
    BY <2>1 DEF Init, Calculating, Updating, Range
  <2> QED
    BY <2>1 DEF FlagsHeld, HeldByOne, Init
<1>2. ASSUME Structure, FlagsHeld, [Next]_vars PROVE FlagsHeld'
  <2>0. /\ calc <=> \E v \in Workers : Calculating(v)
        /\ \A u, v \in Workers : Calculating(u) /\ Calculating(v) => u = v
        /\ updating <=> \E v \in Workers : Updating(v)
        /\ \A u, v \in Workers : Updating(u) /\ Updating(v) => u = v
    BY Zenon, <1>2 DEF FlagsHeld, HeldByOne
  <2> DEFINE Goal ==
        /\ calc' <=> \E v \in Workers : Calculating(v)'
        /\ \A u, v \in Workers : Calculating(u)' /\ Calculating(v)' => u = v
        /\ updating' <=> \E v \in Workers : Updating(v)'
        /\ \A u, v \in Workers : Updating(u)' /\ Updating(v)' => u = v
  <2>1. CASE UNCHANGED vars
    <3>1. /\ calc' = calc /\ updating' = updating
          /\ \A v \in Workers : (Calculating(v)' <=> Calculating(v)) /\ (Updating(v)' <=> Updating(v))
      BY <2>1 DEF vars, flags, local, Calculating, Updating
    <3>2. Goal
      BY Zenon, <2>0, <3>1
    <3> QED
      BY Zenon, <3>2 DEF FlagsHeld, HeldByOne
  <2>2. ASSUME NEW w \in Workers, Request(w) PROVE FlagsHeld'
    <3>1. PICK p \in Progs : /\ prog' = [prog EXCEPT ![w] = p] /\ ~Busy(w)
                             /\ UNCHANGED <<flags, calls>> /\ ~Has(p, "show", Event)
      BY <2>2, RequestFacts
    <3>2. \A v \in Workers : prog'[v] = IF v = w THEN p ELSE prog[v]
      BY <1>2, <3>1, TypeParts DEF ProgsOK, Structure
    <3>3. ~Updating(w) /\ ~Updating(w)'
      BY <3>1, <3>2 DEF Busy, Updating, Range, Has
    <3>4. /\ calc' = calc /\ updating' = updating
          /\ \A v \in Workers : (Calculating(v)' <=> Calculating(v)) /\ (Updating(v)' <=> Updating(v))
      BY <3>1, <3>2, <3>3 DEF flags, Calculating, Updating
    <3>5. Goal
      BY Zenon, <2>0, <3>4
    <3> QED
      BY Zenon, <3>5 DEF FlagsHeld, HeldByOne
  <2>3. ASSUME NEW w \in Workers, Step(w) PROVE FlagsHeld'
    <3>1. \A v \in Workers \ {w} : (Calculating(v)' <=> Calculating(v)) /\ (Updating(v)' <=> Updating(v))
      BY <1>2, <2>3, OthersStay DEF Calculating, Updating
    <3>2. \/ ~calc /\ calc' = TRUE /\ Calculating(w)'
          \/ Calculating(w) /\ ~Calculating(w)' /\ calc' = FALSE
          \/ (Calculating(w) <=> Calculating(w)') /\ calc' = calc
      BY <1>2, <2>3, CalcStep
    <3>3. \/ ~updating /\ updating' = TRUE /\ Updating(w)'
          \/ Updating(w) /\ ~Updating(w)' /\ updating' = FALSE
          \/ (Updating(w) <=> Updating(w)') /\ updating' = updating
      BY <1>2, <2>3, UpdateStep
    <3>4. /\ calc' <=> \E v \in Workers : Calculating(v)'
          /\ \A u, v \in Workers : Calculating(u)' /\ Calculating(v)' => u = v
      <4>1. CASE ~calc /\ calc' = TRUE /\ Calculating(w)'
        BY Zenon, <2>0, <3>1, <4>1
      <4>2. CASE Calculating(w) /\ ~Calculating(w)' /\ calc' = FALSE
        BY Zenon, <2>0, <3>1, <4>2
      <4>3. CASE (Calculating(w) <=> Calculating(w)') /\ calc' = calc
        BY Zenon, <2>0, <3>1, <4>3
      <4> QED
        BY Zenon, <3>2, <4>1, <4>2, <4>3
    <3>5. /\ updating' <=> \E v \in Workers : Updating(v)'
          /\ \A u, v \in Workers : Updating(u)' /\ Updating(v)' => u = v
      <4>1. CASE ~updating /\ updating' = TRUE /\ Updating(w)'
        BY Zenon, <2>0, <3>1, <4>1
      <4>2. CASE Updating(w) /\ ~Updating(w)' /\ updating' = FALSE
        BY Zenon, <2>0, <3>1, <4>2
      <4>3. CASE (Updating(w) <=> Updating(w)') /\ updating' = updating
        BY Zenon, <2>0, <3>1, <4>3
      <4> QED
        BY Zenon, <3>3, <4>1, <4>2, <4>3
    <3> QED
      BY Zenon, <3>4, <3>5 DEF FlagsHeld, HeldByOne
  <2> QED
    BY <1>2, <2>1, <2>2, <2>3 DEF Next
<1> QED
  BY <1>1, <1>2, InitStructure, StructureNext, PTL DEF Spec

-----------------------------------------------------------------------------
(* Whether results are current.                                            *)

ClearDue(w) == \E r \in Races : Resaves(r, prog[w]) /\ Len(prog[w]) >= 7
PageDue(w) == \E r \in Races : \/ Resaves(r, prog[w]) /\ Len(prog[w]) >= 13
                               \/ Saves(r, prog[w]) /\ Len(prog[w]) >= 3
ClearComes == \E v \in Workers : ClearDue(v)
PageComes == \E v \in Workers : PageDue(v)

\* Tokens are those of the past.
TimeHolds ==
  /\ \A w \in Workers : token[w] <= now
  /\ \A h \in Heats : /\ db[h].ver # 0
                      /\ \A w \in Workers : copies[w][h] # NoRow => copies[w][h].ver # 0

GotNone(w, S) == \A n \in S : got[w][n] = {}
IsNow(w, n) == got[w][n] = {} \/ got[w][n] = Current(n)
AddsTo(w, r, n) == got[w][n] = {} \/ got[w][n] \cup {<<r, 1>>} = Current(n)
Outdated(w) == ClearComes \/ token[w] # db[Event].ver

\* What a greenlet that saves r has fetched, when l of its steps are left.
SaveAt(w, r, l) ==
  LET h == HeatOf[r]
  IN  /\ l \in {11, 12} => GotNone(w, Nodes)
      /\ l = 10 => GotNone(w, Nodes \ {h}) /\ IsNow(w, h)
      /\ l \in {8, 9} => cpu = w /\ GotNone(w, Nodes \ {h, Event})
      /\ l = 9 => IsNow(w, h) /\ (IsNow(w, Event) \/ ClearComes)
      /\ l \in {7, 8} => AddsTo(w, r, h)
      /\ l \in {6, 7, 8} => AddsTo(w, r, Event) \/ Outdated(w)
      /\ l \in {6, 7} => got[w][r] = {<<r, 1>>} /\ GotNone(w, Races \ {r})
      /\ l \in 1..4 => GotNone(w, Nodes)
      /\ prog[w][1].do = "store" => got[w][prog[w][1].on] # {}

\* What one has fetched that builds the page; the rest it is still to fetch.
Awaits(p, n) == Has(p, "get", n) \/ Has(p, "pageHeat", IF n \in Races THEN HeatOf[n] ELSE n)
PageHolds(w) ==
  /\ Heats \subseteq Holds(w)
  /\ \A k \in 1..Len(calls[w]) : calls[w][k].held \subseteq Races
  /\ \A n \in Rows : got[w][n] = Current(n) \/ (got[w][n] = {} /\ Awaits(prog[w], n))

Rests(w) == prog[w] \in {<<>>, <<Do("page", Event)>>} /\ GotNone(w, Nodes)
SaveStage(w) ==
  \E r \in Races, l \in 1..12 : Saves(r, prog[w]) /\ Len(prog[w]) = l /\ SaveAt(w, r, l)
ResaveStage(w) ==
  \E r \in Races, l \in 1..17 : Resaves(r, prog[w]) /\ Len(prog[w]) = l /\ (l <= 2 => GotNone(w, Nodes))
PageStage(w) == Pages(prog[w]) /\ PageHolds(w)
Stage(w) == Rests(w) \/ Reads(prog[w]) \/ SaveStage(w) \/ ResaveStage(w) \/ PageStage(w)
StagesHold == \A w \in Workers : Stage(w)

\* What a build comes to, if it is given the current results of its parts.
Merged(b) == b.acc \cup UNION {Current(p) : p \in b.todo}
BuildCurrent(b) == b.at \in {"parts", "rank", "read"} => Merged(b) = Current(b.node)
BuildsAre(w) == \A k \in 1..Len(calls[w]) : BuildCurrent(calls[w][k])
BuildsCurrent == \A w \in Workers : BuildsAre(w)

\* The outermost build is that of the result the greenlet is to fetch.
Outermost(c) == c[Len(c)].node
AskersHold == \A w \in Workers : calls[w] # <<>> => Outermost(calls[w]) = prog[w][1].on

CopiesAre(w) ==
  \A n \in Holds(w) :
    copies[w][n].ver = db[n].ver /\ (Valid(copies[w][n]) => copies[w][n].res = Current(n))
CopiesCurrent == \A w \in Workers : CopiesAre(w)
DbCurrent ==
  /\ \A n \in Rows : Shows(n)
  /\ ~ClearComes => Shows(Event)
ShownCurrent == page.valid /\ ~PageComes => \A n \in Rows : page.shown[n] = Current(n)

Truth ==
  /\ TimeHolds /\ StagesHold /\ BuildsCurrent /\ AskersHold
  /\ CopiesCurrent /\ DbCurrent /\ ShownCurrent

LEMMA SameLaps ==
  ASSUME laps' = laps
  PROVE  /\ \A n : Current(n)' = Current(n)
         /\ \A h : RacesOf(h)' = RacesOf(h)
         /\ \A n : NoRaces(n)' = NoRaces(n)
         /\ \A b : BuildCurrent(b)' <=> BuildCurrent(b)
BY DEF Current, RacesOf, Saved, NoRaces, BuildCurrent, Merged

LEMMA CurrentFacts ==
  ASSUME StoredOK
  PROVE  /\ Current(Event) = UNION {Current(h) : h \in Heats}
         /\ \A h \in Heats : Current(h) = UNION {Current(r) : r \in RacesOf(h)}
         /\ \A n \in Rows : Current(n) \subseteq Current(Event)
         /\ \A h \in Heats : RacesOf(h) = {} => Current(h) = {}
         /\ \A r \in Races : r \notin RacesOf(HeatOf[r]) => Current(r) = {}
<1>1. Current(Event) = {<<r, laps[r]>> : r \in Saved}
  BY DEF Current
<1>2. \A h \in Heats : Current(h) = {<<r, laps[r]>> : r \in RacesOf(h)}
  BY ModelTypes DEF Current
<1>3. \A r \in Races : Current(r) = {<<x, laps[x]>> : x \in {r} \cap Saved}
  BY ModelTypes DEF Current
<1>4. \A r \in Saved : r \in Races /\ HeatOf[r] \in Heats /\ r \in RacesOf(HeatOf[r])
  BY ModelTypes DEF RacesOf, Saved
<1>5. \A h \in Heats : \A r \in RacesOf(h) : r \in Saved /\ r \in Races
  BY DEF RacesOf, Saved
<1>6. Current(Event) = UNION {Current(h) : h \in Heats}
  BY <1>1, <1>2, <1>4, <1>5
<1>7. \A h \in Heats : Current(h) = UNION {Current(r) : r \in RacesOf(h)}
  BY <1>2, <1>3, <1>5
<1>8. \A n \in Rows : Current(n) \subseteq Current(Event)
  BY <1>1, <1>2, <1>3, <1>5 DEF Rows
<1>9. \A h \in Heats : RacesOf(h) = {} => Current(h) = {}
  BY <1>2
<1>10. \A r \in Races : r \notin RacesOf(HeatOf[r]) => Current(r) = {}
  <2> TAKE r \in Races
  <2> HAVE r \notin RacesOf(HeatOf[r])
  <2>1. {r} \cap Saved = {}
    BY <1>4
  <2> QED
    BY <1>3, <2>1
<1> QED
  BY <1>6, <1>7, <1>8, <1>9, <1>10

\* The instruction says which step is next.
LEMMA StepIs ==
  ASSUME ProgsOK, CallsOK, CallsHold, NEW w \in Workers, Step(w)
  PROVE  LET d == prog[w][1].do IN
         /\ prog[w] \in Progs /\ prog[w] # <<>>
         /\ \/ /\ d = "get"
               /\ \/ Hit(w) \/ Miss(w) \/ StartCalc(w) \/ WaitForCalc(w) \/ ReadLaps(w)
                  \/ Rank(w) \/ Finish(w)
            \/ d = "page" /\ (GetPage(w) \/ WaitForPage(w) \/ BuildPage(w))
            \/ d = "sleep" /\ Sleep(w)
            \/ d = "hold" /\ Hold(w)
            \/ d = "drop" /\ Drop(w)
            \/ d = "write" /\ WriteRace(w)
            \/ d = "recent" /\ TakeResult(w)
            \/ d = "put" /\ PutResult(w)
            \/ d = "store" /\ StoreResult(w)
            \/ d = "rewrite" /\ RewriteLaps(w)
            \/ d = "clearEvent" /\ ClearEvent(w)
            \/ d = "invalidate" /\ Invalidate(w)
            \/ d = "pageHeat" /\ PageHeat(w)
            \/ d = "keep" /\ Keep(w)
            \/ d = "show" /\ ShowPage(w)
<1> DEFINE d == prog[w][1].do
<1>1. \A i : On(w, i) => prog[w] \in Progs /\ prog[w] # <<>> /\ d = i
  BY OnFacts
<1>2. \A x : Building(w, x) => prog[w] \in Progs /\ prog[w] # <<>> /\ d = "get"
  BY DEF Building, CallsHold, StackHolds, ProgsOK
<1> HIDE DEF d
<1>3. ASSUME Hit(w) \/ Miss(w) \/ StartCalc(w) \/ WaitForCalc(w) \/ ReadLaps(w) \/ Rank(w) \/ Finish(w)
      PROVE  prog[w] \in Progs /\ prog[w] # <<>> /\ d = "get"
  BY <1>1, <1>2, <1>3 DEF Hit, Miss, StartCalc, WaitForCalc, ReadLaps, Rank, Finish, Asks
<1>4. /\ Sleep(w) => On(w, "sleep")
      /\ Hold(w) => On(w, "hold")
      /\ Drop(w) => On(w, "drop")
      /\ WriteRace(w) => On(w, "write")
      /\ TakeResult(w) => On(w, "recent")
      /\ PutResult(w) => On(w, "put")
      /\ StoreResult(w) => On(w, "store")
      /\ RewriteLaps(w) => On(w, "rewrite")
      /\ ClearEvent(w) => On(w, "clearEvent")
      /\ Invalidate(w) => On(w, "invalidate")
      /\ GetPage(w) \/ WaitForPage(w) \/ BuildPage(w) => On(w, "page")
      /\ PageHeat(w) => On(w, "pageHeat")
      /\ Keep(w) => On(w, "keep")
      /\ ShowPage(w) => On(w, "show")
  BY Zenon DEF Sleep, Hold, Drop, WriteRace, TakeResult, PutResult, StoreResult, RewriteLaps,
       ClearEvent, Invalidate, GetPage, WaitForPage, BuildPage, PageHeat, Keep, ShowPage
<1>5. prog[w] \in Progs /\ prog[w] # <<>>
  BY <1>1, <1>3, <1>4 DEF Step
<1>6. /\ Sleep(w) => d = "sleep"
      /\ Hold(w) => d = "hold"
      /\ Drop(w) => d = "drop"
      /\ WriteRace(w) => d = "write"
      /\ TakeResult(w) => d = "recent"
      /\ PutResult(w) => d = "put"
      /\ StoreResult(w) => d = "store"
      /\ RewriteLaps(w) => d = "rewrite"
      /\ ClearEvent(w) => d = "clearEvent"
      /\ Invalidate(w) => d = "invalidate"
      /\ PageHeat(w) => d = "pageHeat"
      /\ Keep(w) => d = "keep"
      /\ ShowPage(w) => d = "show"
      /\ GetPage(w) \/ WaitForPage(w) \/ BuildPage(w) => d = "page"
  BY <1>1, <1>4
<1> QED
  BY Zenon, <1>3, <1>5, <1>6 DEF Step, d

\* A due clear or rebuild is only taken off by the step that does it.
LEMMA DueKept ==
  ASSUME Structure, NEW w \in Workers, Step(w)
  PROVE  /\ ~ClearEvent(w) => (ClearComes => ClearComes')
         /\ ~Invalidate(w) => (PageComes => PageComes')
<1>1. ProgsOK /\ FormsHold /\ prog[w] \in Progs /\ Form(prog[w]) /\ CallsOK /\ CallsHold /\ ProgsOK'
  BY TypeParts, StructureNext DEF Structure, ProgsOK, FormsHold, Next
<1>2. \A v \in Workers \ {w} : (ClearDue(v) => ClearDue(v)') /\ (PageDue(v) => PageDue(v)')
  BY OthersStay DEF ClearDue, PageDue
<1> DEFINE p == prog[w]
           l == Len(p)
           q == prog'[w]
<1>3. l \in Nat /\ Len(p) = l
  BY <1>1 DEF Progs
<1>4. /\ ClearDue(w) <=> \E r \in Races : Resaves(r, p) /\ l >= 7
      /\ PageDue(w) <=> \E r \in Races : \/ Resaves(r, p) /\ l >= 13
                                         \/ Saves(r, p) /\ l >= 3
      /\ ClearDue(w)' <=> \E r \in Races : Resaves(r, q) /\ Len(q) >= 7
      /\ PageDue(w)' <=> \E r \in Races : \/ Resaves(r, q) /\ Len(q) >= 13
                                          \/ Saves(r, q) /\ Len(q) >= 3
  BY DEF ClearDue, PageDue
<1>5. prog' = prog \/ prog' = [prog EXCEPT ![w] = Tail(p)] \/ PutResult(w) \/ BuildPage(w) \/ PageHeat(w)
  BY DEF Step, Hit, Miss, StartCalc, WaitForCalc, ReadLaps, Rank, Finish, BuildOn, Return,
      Sleep, Hold, Drop, WriteRace, RewriteLaps, TakeResult, StoreResult, Continue, Proceed,
      ClearEvent, Invalidate, GetPage, WaitForPage, Keep, ShowPage, local
<1> HIDE DEF l
<1>6. CASE prog' = prog
  <2>1. q = p
    BY <1>6
  <2> QED
    BY <1>2, <1>4, <2>1 DEF l, ClearComes, PageComes
<1>7. CASE prog' = [prog EXCEPT ![w] = Tail(p)]
  <2>1. q = Tail(p)
    BY <1>1, <1>7 DEF ProgsOK
  <2>2. ASSUME NEW r \in Races, Resaves(r, p)
        PROVE  /\ l > 1 => Resaves(r, q) /\ Len(q) = l - 1
               /\ p[1].do = "clearEvent" <=> l \in {10, 7}
               /\ p[1].do = "invalidate" <=> l = 13
    BY <1>1, <1>3, <2>1, <2>2, ResavesTail, ResavesDo
  <2>3. ASSUME NEW r \in Races, Saves(r, p)
        PROVE  /\ l > 1 => Saves(r, q) /\ Len(q) = l - 1
               /\ p[1].do = "invalidate" <=> l = 3
    BY <1>1, <1>3, <2>1, <2>3, SavesTail, SavesDo
  <2>4. /\ p # <<>> /\ p[1].do = "clearEvent" => ClearEvent(w)
        /\ p # <<>> /\ p[1].do = "invalidate" => Invalidate(w)
    BY <1>1, StepIs
  <2>5. ClearDue(w) /\ ~ClearEvent(w) => ClearDue(w)'
    BY <1>3, <1>4, <2>2, <2>4
  <2>6. PageDue(w) /\ ~Invalidate(w) => PageDue(w)'
    BY <1>3, <1>4, <2>2, <2>3, <2>4
  <2> QED
    BY <1>2, <2>5, <2>6 DEF ClearComes, PageComes
<1>8. CASE PutResult(w)
  <2>1. p # <<>> /\ p[1].do = "put"
    BY <1>1, <1>8, OnFacts DEF PutResult
  <2>2. PICK r \in Races : Saves(r, p) /\ l \in {6, 7}
    BY <1>1, <1>3, <2>1, HeadTypes
  <2>3. PICK i \in {"get", "store"} : q = <<Do(i, p[1].on)>> \o Tail(p)
    BY <1>1, <1>8, OnFacts DEF PutResult, Proceed, ProgsOK
  <2> DEFINE s == <<Do(i, p[1].on)>> \o Tail(p)
  <2>7. Saves(r, s) /\ Len(s) = l
    BY Zenon, <1>1, <1>3, <2>2, SavesPut
  <2>4. Saves(r, q) /\ Len(q) = l
    BY <2>3, <2>7
  <2>5. PageDue(w)'
    BY <1>3, <1>4, <2>2, <2>4
  <2>6. ~ClearDue(w)
    BY <1>1, <1>3, <1>4, <2>1, ResavesDo
  <2> QED
    BY <1>2, <2>5, <2>6 DEF ClearComes, PageComes
<1>9. CASE BuildPage(w) \/ PageHeat(w)
  <2>1. p # <<>> /\ p[1].do \in {"page", "pageHeat"}
    BY <1>1, <1>9, OnFacts DEF BuildPage, PageHeat
  <2>2. ~ClearDue(w)
    BY <1>1, <1>3, <1>4, <2>1, ResavesDo
  <2>3. ~PageDue(w)
    BY <1>1, <1>3, <1>4, <2>1, ResavesDo, SavesDo
  <2> QED
    BY <1>2, <2>2, <2>3 DEF ClearComes, PageComes
<1> QED
  BY <1>5, <1>6, <1>7, <1>8, <1>9

-----------------------------------------------------------------------------
(* Rows and copies, one by one.                                            *)

LEMMA HoldsIs ==
  \A w, n : n \in Holds(w) <=> n \in Rows /\ copies[w][n] # NoRow
BY DEF Holds

LEMMA ViewIs ==
  /\ \A w : View(w, Event) = db[Event]
  /\ \A w : \A n \in Rows : View(w, n) = IF copies[w][n] # NoRow THEN copies[w][n] ELSE db[n]
BY ModelTypes DEF View, Holds

LEMMA LoadedIs ==
  ASSUME CopiesOK, NEW w \in Workers, NEW S, copies' = Loaded(w, S)
  PROVE  \A v \in Workers, n \in Rows :
           copies'[v][n] = IF v = w /\ n \in S THEN View(w, n) ELSE copies[v][n]
BY DEF CopiesOK, Loaded

LEMMA DroppedIs ==
  ASSUME CopiesOK, NEW w \in Workers, NEW S, copies' = Dropped(w, S)
  PROVE  \A v \in Workers, n \in Rows :
           copies'[v][n] = IF v = w /\ n \in S THEN NoRow ELSE copies[v][n]
BY DEF CopiesOK, Dropped

LEMMA WriteIs ==
  ASSUME CopiesOK, NEW w \in Workers, NEW S, NEW s, Write(w, S, s)
  PROVE  /\ \A n \in Nodes : db'[n] = IF n \in S THEN s ELSE db[n]
         /\ \A v \in Workers, n \in Rows :
              copies'[v][n] = IF v = w /\ n \in S /\ copies[w][n] # NoRow THEN s ELSE copies[v][n]
<1>1. \A n \in Rows : n \in Holds(w) <=> copies[w][n] # NoRow
  BY HoldsIs
<1> QED
  BY <1>1 DEF CopiesOK, Write

Valued(t, c) == [ver |-> t, built |-> t, res |-> c]

LEMMA SetResultsIs ==
  ASSUME CopiesOK, StoredOK, NEW w \in Workers, NEW n \in Nodes, NEW t, NEW c, NEW S,
         SetResults(w, n, t, c, S)
  PROVE  /\ \A m \in Nodes : db'[m] = IF View(w, n).ver = t /\ m = n THEN Valued(t, c) ELSE db[m]
         /\ \A v \in Workers, m \in Rows :
              copies'[v][m] = IF v # w THEN copies[v][m]
                              ELSE IF m \in S THEN NoRow
                              ELSE IF View(w, n).ver = t /\ m = n /\ copies[w][m] # NoRow
                                   THEN Valued(t, c) ELSE copies[w][m]
<1>1. \A m \in Rows : m \in Holds(w) <=> copies[w][m] # NoRow
  BY HoldsIs
<1> DEFINE ok == View(w, n).ver = t
           s == Valued(t, c)
<1>2. /\ db' = IF ok THEN [db EXCEPT ![n] = s] ELSE db
      /\ copies' = [copies EXCEPT ![w] = [m \in Rows |->
                      IF m \in S THEN NoRow
                      ELSE IF ok /\ m = n /\ m \in Holds(w) THEN s ELSE copies[w][m]]]
  BY DEF SetResults, Valued
<1> HIDE DEF ok, s
<1>3. \A m \in Nodes : db'[m] = IF ok /\ m = n THEN s ELSE db[m]
  BY <1>2 DEF StoredOK
<1>4. \A v \in Workers, m \in Rows :
              copies'[v][m] = IF v # w THEN copies[v][m]
                              ELSE IF m \in S THEN NoRow
                              ELSE IF ok /\ m = n /\ copies[w][m] # NoRow
                                   THEN s ELSE copies[w][m]
  BY <1>1, <1>2 DEF CopiesOK
<1> QED
  BY <1>3, <1>4 DEF ok, s

\* What a step does to rows and copies.
ReadsRows(w) ==
  /\ UNCHANGED <<laps, db, now>>
  /\ \E S : copies' = copies \/ copies' = Loaded(w, S) \/ copies' = Dropped(w, S)

LEMMA RowSteps ==
  ASSUME Structure, NEW w \in Workers, Step(w)
  PROVE  \/ ReadsRows(w) /\ clean' = clean
         \/ Finish(w) \/ StoreResult(w) \/ ClearEvent(w) \/ WriteRace(w) \/ RewriteLaps(w)
<1>1. CASE Hit(w) \/ Miss(w) \/ StartCalc(w) \/ WaitForCalc(w) \/ ReadLaps(w) \/ Rank(w)
  BY <1>1 DEF Hit, Miss, StartCalc, WaitForCalc, ReadLaps, Rank, BuildOn, ReadsRows, stored
<1>2. CASE \/ Sleep(w) \/ Hold(w) \/ Drop(w) \/ TakeResult(w) \/ PutResult(w) \/ Invalidate(w)
           \/ GetPage(w) \/ WaitForPage(w) \/ BuildPage(w) \/ PageHeat(w) \/ Keep(w) \/ ShowPage(w)
  BY <1>2 DEF Sleep, Hold, Drop, TakeResult, PutResult, Invalidate, GetPage, WaitForPage,
       BuildPage, PageHeat, Keep, ShowPage, ReadsRows, stored, local
<1> QED
  BY <1>1, <1>2 DEF Step

\* A token is only given to the event's result by one who takes a new one.
LEMMA TimeStep ==
  ASSUME Structure, TimeHolds, NEW w \in Workers, Step(w)
  PROVE  TimeHolds' /\ now' >= now
<1>1. /\ StoredOK /\ CopiesOK /\ RestOK /\ ProgsOK /\ CallsOK /\ FormsHold /\ CallsHold /\ StackHolds(w)
      /\ TypeOK
  BY TypeParts DEF Structure, CallsHold
<1>2. now \in Nat /\ \A v \in Workers : token[v] \in Nat /\ token[v] <= now
  BY <1>1 DEF StoredOK, RestOK, TimeHolds
<1>3. \A h \in Heats : h \in Rows /\ h \in Nodes /\ h # Event
  BY ModelTypes
<1>4. NoRow.ver = 0 /\ \A t : Cleared(t).ver = t /\ \A c : Valued(t, c).ver = t
  BY DEF NoRow, Cleared, Valued
<1>5. \A h \in Heats, v \in Workers : copies[v][h] # NoRow => copies[v][h].ver # 0
  BY DEF TimeHolds
<1>6. \A h \in Heats : View(w, h).ver # 0
  BY <1>3, ViewIs DEF TimeHolds
<1>7. CASE ReadsRows(w)
  <2>1. db' = db /\ now' = now
    BY <1>7 DEF ReadsRows
  <2>2. \A h \in Heats, v \in Workers : copies'[v][h] # NoRow => copies'[v][h].ver # 0
    <3>1. PICK S : copies' = copies \/ copies' = Loaded(w, S) \/ copies' = Dropped(w, S)
      BY <1>7 DEF ReadsRows
    <3>2. CASE copies' = copies
      BY <1>5, <3>2
    <3>3. CASE copies' = Loaded(w, S)
      BY <1>1, <1>3, <1>5, <1>6, <3>3, LoadedIs
    <3>4. CASE copies' = Dropped(w, S)
      BY <1>1, <1>3, <1>5, <3>4, DroppedIs
    <3> QED
      BY <3>1, <3>2, <3>3, <3>4
  <2>3. token' = token \/ token' = [token EXCEPT ![w] = 0] \/ WriteRace(w)
    BY DEF Step, Hit, Miss, StartCalc, WaitForCalc, ReadLaps, Rank, Finish, BuildOn,
      Sleep, Hold, Drop, RewriteLaps, TakeResult, PutResult, StoreResult,
      ClearEvent, Invalidate, GetPage, WaitForPage, BuildPage, PageHeat, Keep, ShowPage, local
  <2>4. \A v \in Workers : token'[v] <= now'
    BY <1>1, <1>2, <1>7, <2>1, <2>3 DEF RestOK, WriteRace
  <2> QED
    BY <1>2, <2>1, <2>2, <2>4 DEF TimeHolds
<1>8. ASSUME NEW n \in Nodes, NEW t, NEW c, NEW S, SetResults(w, n, t, c, S),
             UNCHANGED <<now, token>>
      PROVE  TimeHolds' /\ now' >= now
  <2>1. \A h \in Heats : db'[h].ver # 0
    BY <1>1, <1>3, <1>4, <1>6, <1>8, SetResultsIs DEF TimeHolds
  <2>2. \A h \in Heats, v \in Workers : copies'[v][h] # NoRow => copies'[v][h].ver # 0
    BY <1>1, <1>3, <1>4, <1>5, <1>6, <1>8, SetResultsIs
  <2> QED
    BY <1>2, <1>8, <2>1, <2>2 DEF TimeHolds
<1>9. ASSUME NEW S, Write(w, S, Cleared(now + 1)), now' = now + 1,
             token' = token \/ token' = [token EXCEPT ![w] = now + 1]
      PROVE  TimeHolds' /\ now' >= now
  <2>0. now + 1 # 0 /\ now' >= now
    BY <1>2, <1>9
  <2>1. \A h \in Heats : db'[h].ver # 0
    BY <1>1, <1>3, <1>4, <1>9, <2>0, WriteIs DEF TimeHolds
  <2>2. \A h \in Heats, v \in Workers : copies'[v][h] # NoRow => copies'[v][h].ver # 0
    BY <1>1, <1>3, <1>4, <1>5, <1>9, <2>0, WriteIs
  <2>3. \A v \in Workers : token'[v] <= now'
    BY <1>1, <1>2, <1>9 DEF RestOK
  <2> QED
    BY <2>0, <2>1, <2>2, <2>3 DEF TimeHolds
<1>10. CASE Finish(w)
  <2>1. \E n \in Nodes : \E t, c, S : SetResults(w, n, t, c, S)
    BY <1>1, <1>10, FinishFacts
  <2> QED
    BY <1>8, <1>10, <2>1 DEF Finish
<1>11. CASE StoreResult(w)
  <2>1. Arg(w) \in Nodes
    BY <1>1, <1>11, OnFacts, Cut DEF StoreResult, Instr
  <2>2. \E n \in Nodes : \E t, c, S : SetResults(w, n, t, c, S)
    BY <1>11, <2>1 DEF StoreResult
  <2> QED
    BY <1>8, <1>11, <2>2 DEF StoreResult
<1>12. CASE ClearEvent(w) \/ RewriteLaps(w) \/ WriteRace(w)
  <2>1. \E S : Write(w, S, Cleared(now + 1))
    BY <1>12 DEF ClearEvent, RewriteLaps, WriteRace
  <2>2. now' = now + 1 /\ (token' = token \/ token' = [token EXCEPT ![w] = now + 1])
    BY <1>12 DEF ClearEvent, RewriteLaps, WriteRace
  <2> QED
    BY <1>9, <2>1, <2>2
<1> QED
  BY <1>7, <1>10, <1>11, <1>12, RowSteps

-----------------------------------------------------------------------------
(* A step that leaves the laps alone keeps what is stored current.         *)

LEMMA ViewTruth ==
  ASSUME CopiesCurrent, DbCurrent, NEW w \in Workers
  PROVE  /\ \A n \in Nodes : View(w, n).ver = db[n].ver
         /\ \A n \in Rows : Valid(View(w, n)) => View(w, n).res = Current(n)
         /\ ~ClearComes /\ Valid(View(w, Event)) => View(w, Event).res = Current(Event)
<1>1. \A n \in Rows : copies[w][n] # NoRow =>
        copies[w][n].ver = db[n].ver /\ (Valid(copies[w][n]) => copies[w][n].res = Current(n))
  BY HoldsIs DEF CopiesCurrent, CopiesAre
<1>2. \A n \in Rows : Valid(db[n]) => db[n].res = Current(n)
  BY DEF DbCurrent, Shows
<1>3. ~ClearComes /\ Valid(db[Event]) => db[Event].res = Current(Event)
  BY DEF DbCurrent, Shows
<1>4. \A n \in Nodes : n \in Rows \/ n = Event
  BY ModelTypes DEF Rows
<1>5. \A n \in Rows : (View(w, n) = copies[w][n] /\ copies[w][n] # NoRow) \/ View(w, n) = db[n]
  BY ViewIs
<1>6. View(w, Event) = db[Event]
  BY ViewIs
<1>7. \A n \in Rows : View(w, n).ver = db[n].ver
  BY <1>1, <1>5
<1>8. \A n \in Rows : Valid(View(w, n)) => View(w, n).res = Current(n)
  BY <1>1, <1>2, <1>5
<1> QED
  BY <1>3, <1>4, <1>6, <1>7, <1>8

\* A copy, by itself.
CopyIs(v, n) ==
  copies[v][n] # NoRow =>
    copies[v][n].ver = db[n].ver /\ (Valid(copies[v][n]) => copies[v][n].res = Current(n))

LEMMA CopyOf ==
  /\ CopiesCurrent <=> \A v \in Workers, n \in Rows : CopyIs(v, n)
  /\ CopiesCurrent' <=> \A v \in Workers, n \in Rows : CopyIs(v, n)'
<1>1. CopiesCurrent <=> \A v \in Workers, n \in Rows : CopyIs(v, n)
  BY DEF Holds, CopiesCurrent, CopiesAre, CopyIs
<1>2. CopiesCurrent' <=> \A v \in Workers, n \in Rows : CopyIs(v, n)'
  BY DEF Holds, CopiesCurrent, CopiesAre, CopyIs
<1> QED
  BY <1>1, <1>2

LEMMA ReadsTruth ==
  ASSUME Structure, CopiesCurrent, DbCurrent, NEW w \in Workers, ReadsRows(w),
         ClearComes => ClearComes'
  PROVE  CopiesCurrent' /\ DbCurrent'
<1>1. laps' = laps /\ db' = db /\ CopiesOK
  BY TypeParts DEF ReadsRows, Structure
<1>2. \A n : Current(n)' = Current(n)
  BY <1>1, SameLaps
<1>3. DbCurrent'
  BY <1>1, <1>2 DEF DbCurrent, Shows
<1>4. \A v \in Workers, n \in Rows :
        copies'[v][n] = copies[v][n] \/ copies'[v][n] = NoRow \/ (v = w /\ copies'[v][n] = View(w, n))
  <2>1. PICK S : copies' = copies \/ copies' = Loaded(w, S) \/ copies' = Dropped(w, S)
    BY DEF ReadsRows
  <2>2. CASE copies' = copies
    BY <2>2
  <2>3. CASE copies' = Loaded(w, S)
    BY <1>1, <2>3, LoadedIs
  <2>4. CASE copies' = Dropped(w, S)
    BY <1>1, <2>4, DroppedIs
  <2> QED
    BY <2>1, <2>2, <2>3, <2>4
<1>5. ASSUME NEW v \in Workers, NEW n \in Rows PROVE CopyIs(v, n)'
  <2>1. CopyIs(v, n)
    BY CopyOf
  <2>2. n \in Nodes /\ View(w, n).ver = db[n].ver
        /\ (Valid(View(w, n)) => View(w, n).res = Current(n))
    BY ModelTypes, ViewTruth
  <2> QED
    BY <1>1, <1>2, <1>4, <2>1, <2>2 DEF CopyIs
<1> QED
  BY <1>3, <1>5, CopyOf

\* A result is only stored if it is current, or if it is the event's and its token
\* is not that of the data or is about to be given up.
LEMMA SetTruth ==
  ASSUME Structure, CopiesCurrent, DbCurrent, NEW w \in Workers, laps' = laps,
         ClearComes => ClearComes',
         NEW n \in Nodes, NEW t, NEW c, NEW S, SetResults(w, n, t, c, S),
         c = Current(n) \/ (n = Event /\ (ClearComes \/ t # db[Event].ver))
  PROVE  CopiesCurrent' /\ DbCurrent' /\ db'[Event].ver = db[Event].ver
<1>1. CopiesOK /\ StoredOK
  BY TypeParts DEF Structure
<1>2. \A m : Current(m)' = Current(m)
  BY SameLaps
<1> DEFINE ok == View(w, n).ver = t
<1>3. /\ \A m \in Nodes : db'[m] = IF ok /\ m = n THEN Valued(t, c) ELSE db[m]
      /\ \A v \in Workers, m \in Rows :
              copies'[v][m] = IF v # w THEN copies[v][m]
                              ELSE IF m \in S THEN NoRow
                              ELSE IF ok /\ m = n /\ copies[w][m] # NoRow
                                   THEN Valued(t, c) ELSE copies[w][m]
  BY <1>1, SetResultsIs
<1>4. ok => db[n].ver = t
  BY ViewTruth
<1>5. Valued(t, c).ver = t /\ Valued(t, c).res = c
  BY DEF Valued
<1> HIDE DEF ok
<1>6. \A m \in Nodes : db'[m].ver = db[m].ver
  BY <1>3, <1>4, <1>5
<1>7. \A m \in Rows : m \in Nodes /\ m # Event
  BY ModelTypes
<1>8. \A m \in Rows : ok /\ m = n => c = Current(m)
  BY <1>7
<1>9. ASSUME NEW m \in Rows PROVE Shows(m)'
  <2>1. db'[m] = db[m] \/ (db'[m] = Valued(t, c) /\ c = Current(m))
    BY <1>3, <1>7, <1>8
  <2>2. Shows(m)
    BY DEF DbCurrent
  <2> QED
    BY <1>2, <1>5, <2>1, <2>2 DEF Shows
<1>10. ASSUME ~ClearComes' PROVE Shows(Event)'
  <2>1. ~ClearComes /\ Shows(Event)
    BY <1>10 DEF DbCurrent
  <2>2. Event \in Nodes
    BY ModelTypes
  <2>3. ok /\ Event = n => c = Current(Event)
    BY <1>4, <2>1
  <2>4. db'[Event] = db[Event] \/ (db'[Event] = Valued(t, c) /\ c = Current(Event))
    BY <1>3, <2>2, <2>3
  <2> QED
    BY <1>2, <1>5, <2>1, <2>4 DEF Shows
<1>11. ASSUME NEW v \in Workers, NEW m \in Rows PROVE CopyIs(v, m)'
  <2>1. CopyIs(v, m)
    BY CopyOf
  <2>2. CASE copies'[v][m] = copies[v][m]
    BY <1>2, <1>6, <1>7, <2>1, <2>2 DEF CopyIs
  <2>3. CASE copies'[v][m] = NoRow
    BY <2>3 DEF CopyIs
  <2>4. CASE copies'[v][m] = Valued(t, c) /\ ok /\ m = n
    BY <1>2, <1>4, <1>5, <1>6, <1>7, <1>8, <2>4 DEF CopyIs
  <2> QED
    BY <1>3, <2>2, <2>3, <2>4
<1> QED
  BY <1>6, <1>9, <1>10, <1>11, CopyOf, ModelTypes DEF DbCurrent

\* Tokens of the data are never 0 once they are given.
LEMMA ClearedInvalid ==
  ASSUME StoredOK
  PROVE  ~Valid(Cleared(now + 1)) /\ Cleared(now + 1).ver = now + 1
<1>1. now + 1 # 0
  BY DEF StoredOK
<1> QED
  BY <1>1 DEF Valid, Cleared

LEMMA ClearTruth ==
  ASSUME Structure, CopiesCurrent, DbCurrent, NEW w \in Workers, ClearEvent(w)
  PROVE  CopiesCurrent' /\ DbCurrent' /\ db'[Event].ver = now + 1 /\ laps' = laps
<1>1. CopiesOK /\ StoredOK
  BY TypeParts DEF Structure
<1>2. laps' = laps /\ Write(w, {Event}, Cleared(now + 1))
  BY DEF ClearEvent
<1>3. \A m : Current(m)' = Current(m)
  BY <1>2, SameLaps
<1>4. \A m \in Rows : m \in Nodes /\ m # Event
  BY ModelTypes
<1>5. /\ \A m \in Nodes : db'[m] = IF m \in {Event} THEN Cleared(now + 1) ELSE db[m]
      /\ \A v \in Workers, m \in Rows :
           copies'[v][m] = IF v = w /\ m \in {Event} /\ copies[w][m] # NoRow
                           THEN Cleared(now + 1) ELSE copies[v][m]
  BY <1>1, <1>2, WriteIs
<1>6. \A m \in Rows : db'[m] = db[m] /\ \A v \in Workers : copies'[v][m] = copies[v][m]
  BY <1>4, <1>5
<1>7. db'[Event] = Cleared(now + 1)
  BY <1>5, ModelTypes
<1>8. DbCurrent'
  <2>1. Shows(Event)'
    BY <1>1, <1>7, ClearedInvalid DEF Shows
  <2>2. \A m \in Rows : Shows(m)'
    BY <1>3, <1>6 DEF DbCurrent, Shows
  <2> QED
    BY <2>1, <2>2 DEF DbCurrent
<1>9. \A v \in Workers, m \in Rows : CopyIs(v, m)'
  BY <1>3, <1>6, CopyOf DEF CopyIs
<1> QED
  BY <1>1, <1>2, <1>7, <1>8, <1>9, CopyOf, ClearedInvalid

-----------------------------------------------------------------------------
(* A build of current parts comes to a current result.                     *)

LEMMA StackElements ==
  ASSUME NEW c \in Seq(Builds), NEW b \in Builds
  PROVE  /\ \A k \in 1..Len(<<b>> \o c) :
              (<<b>> \o c)[k] = b \/ \E j \in 1..Len(c) : (<<b>> \o c)[k] = c[j]
         /\ c # <<>> => \A k \in 1..Len(Tail(c)) : \E j \in 1..Len(c) : Tail(c)[k] = c[j]
<1> DEFINE s == <<b>> \o c
           n == Len(c)
<1>1. n \in Nat /\ Len(s) = n + 1 /\ s[1] = b /\ \A k \in 2..(n + 1) : s[k] = c[k - 1]
  OBVIOUS
<1>2. c # <<>> => Len(Tail(c)) = n - 1 /\ \A k \in 1..(n - 1) : Tail(c)[k] = c[k + 1]
  BY CallsCut
<1> HIDE DEF s, n
<1>3. ASSUME NEW k \in 1..Len(s) PROVE s[k] = b \/ \E j \in 1..n : s[k] = c[j]
  <2>1. CASE k = 1
    BY <1>1, <2>1
  <2>2. CASE k # 1
    <3>1. k - 1 \in 1..n /\ s[k] = c[k - 1]
      BY <1>1, <2>2
    <3> QED
      BY <3>1
  <2> QED
    BY <2>1, <2>2
<1>4. ASSUME c # <<>>, NEW k \in 1..Len(Tail(c)) PROVE \E j \in 1..n : Tail(c)[k] = c[j]
  <2>1. k + 1 \in 1..n /\ Tail(c)[k] = c[k + 1]
    BY <1>1, <1>2, <1>4
  <2> QED
    BY <2>1
<1> QED
  BY <1>3, <1>4 DEF s, n

LEMMA ReturnIs ==
  ASSUME ProgsOK, CallsOK, GotOK, NEW w \in Workers, NEW stack \in Seq(Builds),
         NEW n \in Nodes, NEW v, Return(w, stack, n, v)
  PROVE  \/ /\ stack = <<>> /\ calls'[w] = <<>> /\ got' = [got EXCEPT ![w][n] = v]
            /\ prog' = [prog EXCEPT ![w] = Tail(prog[w])]
            /\ cpu' = IF Tail(prog[w]) = <<>> THEN Free ELSE w
         \/ /\ stack # <<>> /\ calls'[w] = <<MergedInto(stack[1], n, v)>> \o Tail(stack)
            /\ got' = got /\ prog' = prog /\ cpu' = w
<1>1. CASE stack = <<>>
  BY <1>1 DEF Return, Continue, Proceed, CallsOK
<1>2. CASE stack # <<>>
  <2>1. Head(stack) = stack[1]
    BY <1>2, CallsCut
  <2>2. calls' = [calls EXCEPT ![w] = <<MergedInto(stack[1], n, v)>> \o Tail(stack)]
    BY Zenon, <1>2, <2>1 DEF Return, MergedInto
  <2>3. calls'[w] = <<MergedInto(stack[1], n, v)>> \o Tail(stack)
    BY <2>2 DEF CallsOK
  <2> QED
    BY <1>2, <2>3 DEF Return
<1> QED
  BY <1>1, <1>2

LEMMA MergeCurrent ==
  ASSUME NEW b \in Builds, CallHolds(b), b.at = "parts", NEW n \in b.todo, BuildCurrent(b)
  PROVE  BuildCurrent(MergedInto(b, n, Current(n)))
<1> DEFINE c == MergedInto(b, n, Current(n))
<1>1. c.node = b.node /\ c.todo = b.todo \ {n} /\ c.acc = b.acc \cup Current(n)
  BY DEF MergedInto, Builds
<1>2. b.acc \cup UNION {Current(p) : p \in b.todo} = Current(b.node)
  BY DEF BuildCurrent, Merged
<1> HIDE DEF c
<1>3. c.acc \cup UNION {Current(p) : p \in c.todo} = Current(b.node)
  BY <1>1, <1>2
<1> QED
  BY <1>1, <1>3 DEF BuildCurrent, Merged, c

LEMMA NewCurrent ==
  ASSUME StoredOK, NEW w \in Workers, NEW n \in Nodes
  PROVE  BuildCurrent(NewBuild(w, n))
<1> DEFINE b == NewBuild(w, n)
<1>1. b.node = n /\ b.todo = Parts(n) /\ b.acc = {} /\ b.at \in {"parts", "wait"}
  BY DEF NewBuild
<1> HIDE DEF b
<1>2. ASSUME b.at = "parts", n \notin Races PROVE UNION {Current(p) : p \in Parts(n)} = Current(n)
  BY <1>2, ModelTypes, CurrentFacts DEF Parts
<1>3. b.at = "parts" => n \notin Races
  BY DEF b, NewBuild
<1>4. b.at = "parts" => b.acc \cup UNION {Current(p) : p \in b.todo} = Current(b.node)
  BY <1>1, <1>2, <1>3
<1>5. BuildCurrent(b)
  BY <1>1, <1>4 DEF BuildCurrent, Merged
<1> QED
  BY <1>5 DEF b

\* What a finished build was given.
LEMMA FinishedCurrent ==
  ASSUME NEW b \in Builds, CallHolds(b), b.at \in {"read", "rank"}, BuildCurrent(b)
  PROVE  b.acc = Current(b.node)
<1>1. b.todo = {} /\ b.acc \cup UNION {Current(p) : p \in b.todo} = Current(b.node)
  BY DEF CallHolds, BuildCurrent, Merged
<1> QED
  BY <1>1

LEMMA OnwardCurrent ==
  ASSUME NEW b \in Builds, CallHolds(b), b.todo = {}, BuildCurrent(b), NEW x \in Later, NEW acc \in Contents,
         b.node \in Races <=> x # "rank",
         x = "rank" <=> b.at = "parts", x = "rank" => acc = b.acc, x = "read" => acc = Current(b.node)
  PROVE  BuildCurrent(Onward(b, x, acc))
<1> DEFINE c == Onward(b, x, acc)
<1>1. c.node = b.node /\ c.at = x /\ c.todo = {} /\ c.acc = acc
  BY OnwardFacts
<1> HIDE DEF c
<1>2. x = "rank" => b.acc = Current(b.node)
  BY DEF BuildCurrent, Merged
<1>3. c.at \in {"parts", "rank", "read"} => c.acc = Current(c.node)
  BY <1>1, <1>2 DEF Later
<1> QED
  BY <1>1, <1>3 DEF BuildCurrent, Merged, c

\* The content that a step returns to a build, or to the request: nothing or what
\* is current, unless it is the event's result that is about to be cleared.
LEMMA HitCurrent ==
  ASSUME Structure, CopiesCurrent, DbCurrent, NEW w \in Workers, Hit(w)
  PROVE  LET n == Asked(w)
             v == IF NoRaces(n) THEN {} ELSE View(w, n).res
         IN  n \in Rows \/ ~ClearComes => v = Current(n)
<1> DEFINE n == Asked(w)
<1>1. n \in Nodes
  BY HitFacts DEF Structure, CallsHold
<1>2. IsHit(w, n)
  BY Zenon DEF Hit
<1> HIDE DEF n
<1>3. NoRaces(n) => Current(n) = {}
  BY DEF NoRaces
<1>4. n \in Rows \/ n = Event
  BY <1>1, ModelTypes DEF Rows
<1>5. (n \in Rows \/ ~ClearComes) /\ Valid(View(w, n)) => View(w, n).res = Current(n)
  BY <1>4, ViewTruth
<1> QED
  BY <1>2, <1>3, <1>5 DEF IsHit, n

LEMMA ReturnCurrent ==
  ASSUME ProgsOK, CallsOK, GotOK, NEW w \in Workers, NEW stack \in Seq(Builds), Stacked(stack),
         stack # <<>> => stack[1].at = "parts",
         NEW n \in Nodes, NEW v \in Contents, Return(w, stack, n, v), stack # <<>> => n \in stack[1].todo,
         n \in Rows => v = Current(n), \A k \in 1..Len(stack) : BuildCurrent(stack[k])
  PROVE  \A k \in 1..Len(calls'[w]) : BuildCurrent(calls'[w][k])
<1>1. CASE stack = <<>>
  <2>1. calls'[w] = <<>>
    BY <1>1, ReturnIs
  <2> QED
    BY <2>1
<1>2. CASE stack # <<>>
  <2> DEFINE b == stack[1]
             c == MergedInto(b, n, v)
  <2>1. /\ b \in Builds /\ CallHolds(b) /\ b.at = "parts" /\ n \in b.todo /\ Tail(stack) \in Seq(Builds)
        /\ Len(stack) \in Nat \ {0}
    BY <1>2, CallsCut, StackedTail
  <2>2. n \in Rows /\ BuildCurrent(b)
    BY <2>1, ModelTypes DEF CallHolds
  <2>3. BuildCurrent(c)
    BY <2>1, <2>2, MergeCurrent
  <2>4. c \in Builds /\ calls'[w] = <<c>> \o Tail(stack)
    BY <1>2, <2>1, MergeFacts, ReturnIs
  <2> HIDE DEF c
  <2>5. \A k \in 1..Len(<<c>> \o Tail(stack)) :
          (<<c>> \o Tail(stack))[k] = c \/ \E j \in 1..Len(Tail(stack)) : (<<c>> \o Tail(stack))[k] = Tail(stack)[j]
    BY <2>1, <2>4, StackElements
  <2>6. \A j \in 1..Len(Tail(stack)) : \E i \in 1..Len(stack) : Tail(stack)[j] = stack[i]
    BY <1>2, <2>1, StackElements
  <2>7. \A j \in 1..Len(Tail(stack)) : BuildCurrent(Tail(stack)[j])
    BY <2>6
  <2> QED
    BY <2>3, <2>4, <2>5, <2>7
<1> QED
  BY <1>1, <1>2

LEMMA BuildsStep ==
  ASSUME Structure, CopiesCurrent, DbCurrent, BuildsCurrent, NEW w \in Workers, Step(w), laps' = laps
  PROVE  BuildsCurrent'
<1>1. /\ TypeOK /\ StoredOK /\ ProgsOK /\ CallsOK /\ GotOK /\ StackHolds(w) /\ Stacked(calls[w])
      /\ calls[w] \in Seq(Builds)
  BY TypeParts DEF Structure, CallsHold, StackHolds, CallsOK
<1>2. \A n : Current(n)' = Current(n)
  BY SameLaps
<1>3. \A v \in Workers : \A k \in 1..Len(calls[v]) : BuildCurrent(calls[v][k])
  BY DEF BuildsCurrent, BuildsAre
<1>4. SUFFICES \A k \in 1..Len(calls'[w]) : BuildCurrent(calls'[w][k])
  <2>1. \A v \in Workers : v # w => calls'[v] = calls[v]
    BY OthersStay
  <2>2. \A v \in Workers : \A k \in 1..Len(calls'[v]) : BuildCurrent(calls'[v][k])
    BY <1>3, <1>4, <2>1
  <2>3. ASSUME NEW v \in Workers, NEW k \in 1..Len(calls'[v]) PROVE BuildCurrent(calls[v][k])'
    <3>1. BuildCurrent(calls'[v][k])
      BY <2>2
    <3> QED
      BY <1>2, <3>1 DEF BuildCurrent, Merged
  <2> QED
    BY <2>3 DEF BuildsCurrent, BuildsAre
<1>5. CASE Hit(w)
  <2> DEFINE n == Asked(w)
             v == IF NoRaces(n) THEN {} ELSE View(w, n).res
  <2>1. /\ n \in Nodes /\ v \in Contents /\ Return(w, calls[w], n, v)
        /\ calls[w] # <<>> => calls[w][1].at = "parts" /\ n \in calls[w][1].todo
    BY <1>1, <1>5, HitFacts
  <2>2. n \in Rows => v = Current(n)
    BY <1>5, HitCurrent
  <2> HIDE DEF n, v
  <2> QED
    BY <1>1, <1>3, <2>1, <2>2, ReturnCurrent
<1>6. CASE Finish(w)
  <2> DEFINE b == calls[w][1]
             t == Tail(calls[w])
  <2>1. /\ b \in Builds /\ CallHolds(b) /\ b.at \in {"read", "rank"} /\ calls[w] # <<>>
        /\ Return(w, t, b.node, b.acc) /\ t \in Seq(Builds) /\ Stacked(t)
        /\ t # <<>> => t[1].at = "parts" /\ b.node \in t[1].todo
        /\ b.node \in Nodes /\ b.acc \in Contents
    BY <1>1, <1>6, FinishFacts
  <2>2. Len(calls[w]) \in Nat \ {0}
    BY <1>1, <2>1, CallsCut
  <2>3. b.acc = Current(b.node)
    BY <1>3, <2>1, <2>2, FinishedCurrent
  <2>4. \A k \in 1..Len(t) : \E j \in 1..Len(calls[w]) : t[k] = calls[w][j]
    BY <1>1, <2>1, StackElements
  <2>5. \A k \in 1..Len(t) : BuildCurrent(t[k])
    BY <1>3, <2>4
  <2> HIDE DEF b, t
  <2> QED
    BY <1>1, <2>1, <2>3, <2>5, ReturnCurrent
<1>7. CASE Miss(w)
  <2> DEFINE b == NewBuild(w, Asked(w))
  <2>1. Asked(w) \in Nodes /\ b \in Builds /\ calls'[w] = <<b>> \o calls[w]
    BY <1>1, <1>7, MissFacts
  <2>2. BuildCurrent(b)
    BY <1>1, <2>1, NewCurrent
  <2> HIDE DEF b
  <2>3. \A k \in 1..Len(<<b>> \o calls[w]) :
          (<<b>> \o calls[w])[k] = b \/ \E j \in 1..Len(calls[w]) : (<<b>> \o calls[w])[k] = calls[w][j]
    BY <1>1, <2>1, StackElements
  <2> QED
    BY <1>3, <2>1, <2>2, <2>3
<1>8. CASE StartCalc(w) \/ WaitForCalc(w) \/ ReadLaps(w) \/ Rank(w)
  <2> DEFINE b == calls[w][1]
             t == Tail(calls[w])
  <2>1. PICK x \in Later, acc \in Contents :
           /\ BuildOn(w, x, acc) /\ calls[w] # <<>> /\ b.todo = {}
           /\ b.node \in Races <=> x # "rank"
           /\ x = "rank" <=> b.at = "parts"
           /\ x = "rank" => acc = b.acc
           /\ x = "read" => acc = Current(b.node)
    BY <1>1, <1>8, BuildStepFacts
  <2> DEFINE c == Onward(b, x, acc)
  <2>2. calls' = [calls EXCEPT ![w] = <<c>> \o t]
    BY Zenon, <1>1, <2>1, BuildOnFacts
  <2>3. b \in Builds /\ CallHolds(b) /\ t \in Seq(Builds) /\ Len(calls[w]) \in Nat \ {0}
    BY <1>1, <2>1, CallsCut, StackedTail
  <2>4. BuildCurrent(b)
    BY <1>3, <2>3
  <2>5. BuildCurrent(c)
    BY Zenon, <2>1, <2>3, <2>4, OnwardCurrent
  <2>6. c \in Builds
    BY Zenon, <2>1, <2>3, OnwardFacts
  <2> HIDE DEF c, b
  <2>7. calls'[w] = <<c>> \o t
    BY <1>1, <2>2 DEF CallsOK
  <2>8. \A k \in 1..Len(<<c>> \o t) : (<<c>> \o t)[k] = c \/ \E j \in 1..Len(t) : (<<c>> \o t)[k] = t[j]
    BY <2>3, <2>6, StackElements
  <2>9. \A j \in 1..Len(t) : \E i \in 1..Len(calls[w]) : t[j] = calls[w][i]
    BY <1>1, <2>1, StackElements
  <2> HIDE DEF t
  <2>10. \A j \in 1..Len(t) : BuildCurrent(t[j])
    BY <1>3, <2>9
  <2> QED
    BY <2>5, <2>7, <2>8, <2>10
<1>9. CASE OnStep(w)
  <2>1. calls' = calls
    BY <1>9, OnStepFacts
  <2> QED
    BY <1>3, <2>1
<1> QED
  BY Zenon, <1>5, <1>6, <1>7, <1>8, <1>9 DEF Step, OnStep

-----------------------------------------------------------------------------
(* Laps are written.                                                       *)

LEMMA LapsWritten ==
  ASSUME StoredOK, NEW r \in Races, NEW k \in 1..MaxVersion, laps' = [laps EXCEPT ![r] = k]
  PROVE  /\ \A n \in Rows : n # r /\ n # HeatOf[r] => Current(n)' = Current(n)
         /\ laps[r] = 0 /\ k = 1 =>
              /\ Current(HeatOf[r])' = Current(HeatOf[r]) \cup {<<r, 1>>}
              /\ Current(Event)' = Current(Event) \cup {<<r, 1>>}
<1>0. MaxVersion \in Nat
  BY CachesAssumption
<1>1. /\ laps'[r] = k /\ \A x \in Races \ {r} : laps'[x] = laps[x]
      /\ Saved' = Saved \cup {r} /\ (laps[r] = 0 => r \notin Saved)
      /\ Saved \subseteq Races
  BY <1>0 DEF StoredOK, Saved
<1>2. /\ HeatOf[r] \in Heats /\ HeatOf[r] # Event /\ r # Event /\ r \notin Heats
  BY ModelTypes
<1>3. ASSUME NEW n \in Rows, n # r, n # HeatOf[r] PROVE Current(n)' = Current(n)
  <2>1. n # Event /\ (n \in Heats \/ n \in Races)
    BY ModelTypes DEF Rows
  <2> DEFINE S == IF n \in Heats THEN RacesOf(n) ELSE {n} \cap Saved
  <2>2. S' = S /\ r \notin S /\ S \subseteq Races
    BY <1>1, <1>2, <1>3, <2>1 DEF RacesOf
  <2>3. Current(n) = {<<x, laps[x]>> : x \in S} /\ Current(n)' = {<<x, laps'[x]>> : x \in S'}
    BY <2>1 DEF Current
  <2> HIDE DEF S
  <2> QED
    BY <1>1, <2>2, <2>3
<1>4. ASSUME laps[r] = 0, k = 1
      PROVE  /\ Current(HeatOf[r])' = Current(HeatOf[r]) \cup {<<r, 1>>}
             /\ Current(Event)' = Current(Event) \cup {<<r, 1>>}
  <2>1. /\ RacesOf(HeatOf[r])' = RacesOf(HeatOf[r]) \cup {r} /\ r \notin RacesOf(HeatOf[r])
        /\ RacesOf(HeatOf[r]) \subseteq Races
    BY <1>1, <1>4 DEF RacesOf
  <2>2. /\ Current(HeatOf[r]) = {<<x, laps[x]>> : x \in RacesOf(HeatOf[r])}
        /\ Current(HeatOf[r])' = {<<x, laps'[x]>> : x \in RacesOf(HeatOf[r])'}
    BY <1>2 DEF Current
  <2>3. /\ Current(Event) = {<<x, laps[x]>> : x \in Saved}
        /\ Current(Event)' = {<<x, laps'[x]>> : x \in Saved'}
    BY DEF Current
  <2>4. Current(HeatOf[r])' = Current(HeatOf[r]) \cup {<<r, 1>>}
    BY <1>1, <1>4, <2>1, <2>2
  <2>5. Current(Event)' = Current(Event) \cup {<<r, 1>>}
    BY <1>1, <1>4, <2>3
  <2> QED
    BY <2>4, <2>5
<1> QED
  BY <1>3, <1>4

\* The rows whose result changes are cleared, and nobody else has a copy.
LEMMA WrittenRows ==
  ASSUME Structure, CopiesCurrent, DbCurrent, NEW w \in Workers, Alone(w),
         NEW r \in Races, NEW k \in 1..MaxVersion, laps' = [laps EXCEPT ![r] = k],
         NEW S, r \in S, HeatOf[r] \in S, Write(w, S, Cleared(now + 1)), Event \in S \/ ClearComes'
  PROVE  CopiesCurrent' /\ DbCurrent'
<1> DEFINE s == Cleared(now + 1)
<1>1. CopiesOK /\ StoredOK
  BY TypeParts DEF Structure
<1>2. /\ \A m \in Nodes : db'[m] = IF m \in S THEN s ELSE db[m]
      /\ \A v \in Workers, m \in Rows :
           copies'[v][m] = IF v = w /\ m \in S /\ copies[w][m] # NoRow THEN s ELSE copies[v][m]
  BY <1>1, WriteIs
<1>3. ~Valid(s)
  BY <1>1, ClearedInvalid
<1> HIDE DEF s
<1>4. \A m \in Rows : m \notin S => Current(m)' = Current(m)
  BY <1>1, LapsWritten
<1>5. \A m \in Rows : m \in Nodes
  BY ModelTypes
<1>6. ASSUME NEW m \in Rows PROVE Shows(m)'
  <2>1. Shows(m)
    BY DEF DbCurrent
  <2> QED
    BY <1>2, <1>3, <1>4, <1>5, <2>1 DEF Shows
<1>7. ~ClearComes' => Shows(Event)'
  BY <1>2, <1>3, ModelTypes DEF Shows
<1>8. \A v \in Workers, m \in Rows : v # w => copies[v][m] = NoRow
  BY HoldsIs DEF Alone
<1>9. ASSUME NEW v \in Workers, NEW m \in Rows PROVE CopyIs(v, m)'
  <2>1. CopyIs(v, m)
    BY CopyOf
  <2>2. CASE v # w
    BY <1>2, <1>8, <2>2 DEF CopyIs
  <2>3. CASE v = w /\ m \in S
    BY <1>2, <1>3, <1>5, <2>3 DEF CopyIs
  <2>4. CASE v = w /\ m \notin S
    BY <1>2, <1>4, <1>5, <2>1, <2>4 DEF CopyIs
  <2> QED
    BY <2>2, <2>3, <2>4
<1> QED
  BY <1>6, <1>7, <1>9, CopyOf DEF DbCurrent

LEMMA DueIs ==
  ASSUME NEW w, NEW q, prog'[w] = q, NEW r \in Races, NEW l \in Nat, Len(q) = l
  PROVE  /\ Saves(r, q) /\ l >= 3 => PageDue(w)'
         /\ Resaves(r, q) /\ l >= 13 => PageDue(w)'
         /\ Resaves(r, q) /\ l >= 7 => ClearDue(w)'
<1>1. /\ ClearDue(w)' <=> \E x \in Races : Resaves(x, q) /\ Len(q) >= 7
      /\ PageDue(w)' <=> \E x \in Races : \/ Resaves(x, q) /\ Len(q) >= 13
                                          \/ Saves(x, q) /\ Len(q) >= 3
  BY DEF ClearDue, PageDue
<1> QED
  BY <1>1

\* The one who writes laps has still to clear the event and to invalidate the page.
LEMMA WritersDue ==
  ASSUME Structure, NEW w \in Workers
  PROVE  /\ WriteRace(w) => PageDue(w)'
         /\ RewriteLaps(w) => ClearDue(w)' /\ PageDue(w)'
<1>1. ProgsOK /\ FormsHold
  BY TypeParts DEF Structure
<1>2. ASSUME WriteRace(w) PROVE PageDue(w)'
  <2> DEFINE p == prog[w]
             r == Arg(w)
  <2>1. r \in Races /\ Saves(r, p) /\ Len(p) = 9 /\ p \in Progs /\ prog' = [prog EXCEPT ![w] = Tail(p)]
    BY <1>1, <1>2, WriteRaceFacts
  <2>3. prog'[w] = Tail(p)
    BY <1>1, <2>1 DEF ProgsOK
  <2> HIDE DEF r, p
  <2> DEFINE l == Len(p)
             k == l - 1
  <2>2. l \in Nat /\ Len(p) = l /\ l > 1 /\ k \in Nat /\ k >= 3
    BY <2>1
  <2> HIDE DEF l
  <2>4. Saves(r, Tail(p)) /\ Len(Tail(p)) = k
    BY <2>1, <2>2, SavesTail
  <2> HIDE DEF k
  <2> QED
    BY <2>1, <2>2, <2>3, <2>4, DueIs
<1>3. ASSUME RewriteLaps(w) PROVE ClearDue(w)' /\ PageDue(w)'
  <2> DEFINE p == prog[w]
             r == Arg(w)
             l == Len(p)
  <2>1. r \in Races /\ Resaves(r, p) /\ p \in Progs /\ prog' = [prog EXCEPT ![w] = Tail(p)]
    BY <1>1, <1>3, RewriteFacts
  <2>2. l \in Nat /\ Len(p) = l /\ p[1].do = "rewrite"
    BY <1>1, <1>3, <2>1, OnFacts DEF RewriteLaps, Progs
  <2>3. prog'[w] = Tail(p)
    BY <1>1, <2>1 DEF ProgsOK
  <2> HIDE DEF r, p, l
  <2>4. Resaves(r, Tail(p)) /\ Len(Tail(p)) = l - 1 /\ l \in {16, 17}
    BY <2>1, <2>2, ResavesTail, ResavesDo
  <2> DEFINE k == l - 1
  <2>5. k \in Nat /\ Len(Tail(p)) = k /\ k >= 13 /\ k >= 7
    BY <2>2, <2>4
  <2> HIDE DEF k
  <2> QED
    BY <2>1, <2>3, <2>4, <2>5, DueIs
<1> QED
  BY <1>2, <1>3

\* What a race has been given when it is written.
LEMMA WritersLaps ==
  ASSUME Structure, NEW w \in Workers, WriteRace(w) \/ RewriteLaps(w)
  PROVE  \E k \in 1..MaxVersion :
           /\ laps' = [laps EXCEPT ![Arg(w)] = k] /\ Arg(w) \in Races
           /\ WriteRace(w) => laps[Arg(w)] = 0 /\ k = 1
<1>1. ProgsOK /\ FormsHold /\ StoredOK /\ DueHolds
  BY TypeParts DEF Structure
<1>2. CASE WriteRace(w)
  <2>1. Arg(w) \in Races /\ Has(prog[w], "write", Arg(w)) /\ laps' = [laps EXCEPT ![Arg(w)] = 1]
    BY <1>1, <1>2, WriteRaceFacts
  <2>2. laps[Arg(w)] = 0
    BY <1>1, <2>1 DEF DueHolds
  <2>3. 1 \in 1..MaxVersion
    BY CachesAssumption
  <2> QED
    BY <2>1, <2>2, <2>3
<1>3. CASE RewriteLaps(w) /\ ~WriteRace(w)
  <2>1. /\ Arg(w) \in Races /\ Has(prog[w], "rewrite", Arg(w))
        /\ laps' = [laps EXCEPT ![Arg(w)] = @ + 1]
    BY <1>1, <1>3, RewriteFacts
  <2>2. laps[Arg(w)] \in 1..(MaxVersion - 1)
    BY <1>1, <2>1 DEF DueHolds
  <2>3. laps[Arg(w)] + 1 \in 1..MaxVersion
    BY <2>2, CachesAssumption
  <2> QED
    BY <1>3, <2>1, <2>3
<1> QED
  BY <1>2, <1>3

LEMMA WritersTruth ==
  ASSUME Structure, CopiesCurrent, DbCurrent, NEW w \in Workers, WriteRace(w) \/ RewriteLaps(w), Alone(w)
  PROVE  CopiesCurrent' /\ DbCurrent' /\ BuildsCurrent' /\ ShownCurrent'
<1>1. ProgsOK /\ FormsHold
  BY TypeParts DEF Structure
<1>2. PICK k \in 1..MaxVersion : laps' = [laps EXCEPT ![Arg(w)] = k] /\ Arg(w) \in Races
  BY WritersLaps
<1>3. PageComes' /\ (RewriteLaps(w) => ClearComes')
  BY WritersDue DEF PageComes, ClearComes
<1>4. \E S : /\ Write(w, S, Cleared(now + 1)) /\ Arg(w) \in S /\ HeatOf[Arg(w)] \in S
             /\ Event \in S \/ ClearComes'
  <2>1. WriteRace(w) => Write(w, {HeatOf[Arg(w)], Event, Arg(w)}, Cleared(now + 1))
    BY <1>1, WriteRaceFacts
  <2>2. RewriteLaps(w) => Write(w, {HeatOf[Arg(w)], Arg(w)}, Cleared(now + 1))
    BY <1>1, RewriteFacts
  <2> QED
    BY <1>3, <2>1, <2>2
<1>5. CopiesCurrent' /\ DbCurrent'
  BY <1>2, <1>4, WrittenRows
<1>6. calls' = calls /\ calls[w] = <<>>
  BY <1>1, WriteRaceFacts, RewriteFacts
<1>7. \A v \in Workers : calls'[v] = <<>>
  BY <1>6 DEF Alone
<1>8. BuildsCurrent'
  BY <1>7 DEF BuildsCurrent, BuildsAre
<1> QED
  BY <1>3, <1>5, <1>8 DEF ShownCurrent

-----------------------------------------------------------------------------
(* Where a greenlet is, by its next instruction.                           *)

LEMMA StageOf ==
  ASSUME ProgsOK, NEW w \in Workers, Stage(w), prog[w] # <<>>
  PROVE  LET d == prog[w][1].do IN
         /\ d \in {"show", "pageHeat", "keep"} => PageStage(w)
         /\ d \in {"write", "recent", "put", "store"} => SaveStage(w)
         /\ d \in {"rewrite", "clearEvent"} => ResaveStage(w)
         /\ d \in {"hold", "invalidate"} => SaveStage(w) \/ ResaveStage(w)
         /\ d = "drop" => Reads(prog[w]) \/ SaveStage(w) \/ ResaveStage(w)
         /\ d = "sleep" => SaveStage(w) \/ ResaveStage(w) \/ PageStage(w)
         /\ d = "get" => Reads(prog[w]) \/ SaveStage(w) \/ ResaveStage(w) \/ PageStage(w)
         /\ d = "page" => prog[w] = <<Do("page", Event)>> /\ GotNone(w, Nodes)
<1> DEFINE p == prog[w]
           d == p[1].do
           l == Len(p)
<1>1. p \in Progs /\ p # <<>> /\ l \in Nat /\ Len(p) = l
  BY DEF ProgsOK, Progs
<1>2. Rests(w) => p = <<Do("page", Event)>> /\ d = "page" /\ GotNone(w, Nodes)
  BY <1>1, DoTypes DEF Rests
<1>3. Reads(p) => d \in {"get", "drop"}
  BY <1>1, ReadsFacts
<1>4. PageStage(w) => d \in {"show", "sleep", "get", "pageHeat", "keep"}
  BY <1>1, PagesDo DEF PageStage
<1>5. SaveStage(w) => /\ d \notin {"rewrite", "clearEvent", "pageHeat", "keep", "show"}
                      /\ d = "page" => p = <<Do("page", Event)>> /\ GotNone(w, Nodes)
  <2>1. ASSUME SaveStage(w)
        PROVE  /\ d \notin {"rewrite", "clearEvent", "pageHeat", "keep", "show"}
               /\ d = "page" => p = <<Do("page", Event)>> /\ GotNone(w, Nodes)
    <3>1. PICK r \in Races, k \in 1..12 : Saves(r, p) /\ Len(p) = k /\ SaveAt(w, r, k)
      BY <2>1 DEF SaveStage
    <3>2. /\ d \notin {"rewrite", "clearEvent", "pageHeat", "keep", "show"}
          /\ d = "page" => l = 1
      BY <1>1, <3>1, SavesDo
    <3>3. l = 1 => p = <<Do("page", Event)>>
      BY <1>1, <3>1, SavesTail
    <3>4. k = l /\ (l = 1 => k \in 1..4)
      BY <3>1
    <3>5. k \in 1..4 => GotNone(w, Nodes)
      BY <3>1 DEF SaveAt
    <3> QED
      BY <3>2, <3>3, <3>4, <3>5
  <2> QED
    BY <2>1
<1>6. ResaveStage(w) => /\ d \notin {"write", "recent", "put", "store", "pageHeat", "keep", "show"}
                        /\ d = "page" => p = <<Do("page", Event)>> /\ GotNone(w, Nodes)
  <2>1. ASSUME ResaveStage(w)
        PROVE  /\ d \notin {"write", "recent", "put", "store", "pageHeat", "keep", "show"}
               /\ d = "page" => p = <<Do("page", Event)>> /\ GotNone(w, Nodes)
    <3>1. PICK r \in Races, k \in 1..17 : Resaves(r, p) /\ Len(p) = k /\ (k <= 2 => GotNone(w, Nodes))
      BY <2>1 DEF ResaveStage
    <3>2. /\ d \notin {"write", "recent", "put", "store", "pageHeat", "keep", "show"}
          /\ d = "page" => l = 1
      BY <1>1, <3>1, ResavesDo
    <3>3. l = 1 => p = <<Do("page", Event)>>
      BY <1>1, <3>1, ResavesTail
    <3>4. l = 1 => k <= 2
      BY <3>1
    <3> QED
      BY <3>1, <3>2, <3>3, <3>4
  <2> QED
    BY <2>1
<1> HIDE DEF d, l
<1>7. Rests(w) \/ Reads(p) \/ SaveStage(w) \/ ResaveStage(w) \/ PageStage(w)
  BY DEF Stage
<1>8. /\ d \in {"show", "pageHeat", "keep"} => PageStage(w)
      /\ d \in {"write", "recent", "put", "store"} => SaveStage(w)
      /\ d \in {"rewrite", "clearEvent"} => ResaveStage(w)
      /\ d \in {"hold", "invalidate"} => SaveStage(w) \/ ResaveStage(w)
  BY <1>2, <1>3, <1>4, <1>5, <1>6, <1>7
<1>9. /\ d = "drop" => Reads(p) \/ SaveStage(w) \/ ResaveStage(w)
      /\ d = "sleep" => SaveStage(w) \/ ResaveStage(w) \/ PageStage(w)
      /\ d = "get" => Reads(p) \/ SaveStage(w) \/ ResaveStage(w) \/ PageStage(w)
      /\ d = "page" => p = <<Do("page", Event)>> /\ GotNone(w, Nodes)
  BY <1>2, <1>3, <1>4, <1>5, <1>6, <1>7
<1> QED
  BY <1>8, <1>9 DEF d

LEMMA ClearIs ==
  ASSUME ProgsOK, NEW w \in Workers
  PROVE  /\ ClearEvent(w) => prog[w][1].do = "clearEvent"
         /\ Invalidate(w) => prog[w][1].do = "invalidate"
         /\ Drop(w) => prog[w][1].do = "drop"
         /\ ShowPage(w) => prog[w][1].do = "show"
         /\ StoreResult(w) => prog[w][1].do = "store"
         /\ PutResult(w) => prog[w][1].do = "put"
         /\ TakeResult(w) => prog[w][1].do = "recent"
         /\ WriteRace(w) => prog[w][1].do = "write"
         /\ RewriteLaps(w) => prog[w][1].do = "rewrite"
         /\ Hold(w) => prog[w][1].do = "hold"
         /\ GetPage(w) \/ WaitForPage(w) \/ BuildPage(w) => prog[w][1].do = "page"
<1>1. \A i : On(w, i) => prog[w][1].do = i
  BY OnFacts
<1> QED
  BY <1>1 DEF ClearEvent, Invalidate, Drop, ShowPage, StoreResult, PutResult, TakeResult, WriteRace,
     RewriteLaps, Hold, GetPage, WaitForPage, BuildPage

\* The page that is shown has every result it awaited.
LEMMA ShownStep ==
  ASSUME Structure, StagesHold, ShownCurrent, NEW w \in Workers, Step(w), laps' = laps
  PROVE  ShownCurrent'
<1>1. ProgsOK /\ FlagsOK /\ prog[w] \in Progs
  BY TypeParts DEF Structure, ProgsOK
<1>2. \A n : Current(n)' = Current(n)
  BY SameLaps
<1>3. CASE Invalidate(w)
  <2>1. ~page'.valid
    BY <1>1, <1>3 DEF Invalidate, FlagsOK
  <2> QED
    BY <2>1 DEF ShownCurrent
<1>4. CASE ShowPage(w)
  <2> DEFINE p == prog[w]
  <2>1. p # <<>> /\ p[1].do = "show" /\ page' = [valid |-> TRUE, shown |-> got[w]]
    BY <1>1, <1>4, OnFacts DEF ShowPage
  <2>2. PageStage(w)
    BY <1>1, <2>1, StageOf DEF StagesHold
  <2>0. Len(p) \in Nat /\ Pages(p)
    BY <1>1, <2>2 DEF PageStage, Progs
  <2>3. Len(p) = 1
    BY Zenon, <1>1, <2>0, <2>1, PagesDo
  <2>4. \A n : ~Awaits(p, n)
    <3>1. \A i, n : Has(p, i, n) => i = "show"
      BY <1>1, <2>1, <2>3, InRange, DoTypes DEF Has
    <3> QED
      BY <3>1 DEF Awaits
  <2>5. \A n \in Rows : got[w][n] = Current(n)
    BY <2>2, <2>4 DEF PageStage, PageHolds
  <2> QED
    BY <1>2, <2>1, <2>5 DEF ShownCurrent
<1>5. CASE ~Invalidate(w) /\ ~ShowPage(w)
  <2>1. page' = page
    BY <1>5 DEF Step, Hit, Miss, StartCalc, WaitForCalc, ReadLaps, Rank, Finish, BuildOn, flags,
      Sleep, Hold, Drop, WriteRace, RewriteLaps, TakeResult, PutResult, StoreResult,
      ClearEvent, GetPage, WaitForPage, BuildPage, PageHeat, Keep
  <2>2. PageComes => PageComes'
    BY <1>5, DueKept
  <2> QED
    BY <1>2, <2>1, <2>2 DEF ShownCurrent
<1> QED
  BY <1>3, <1>4, <1>5

\* What do_save_actions stores is the old result and the new race.
LEMMA StoresCurrent ==
  ASSUME Structure, StagesHold, NEW w \in Workers, StoreResult(w)
  PROVE  LET n == Arg(w)
             c == got[w][n] \cup UNION {got[w][r] : r \in Races}
         IN  n \in Nodes /\ (c = Current(n) \/ (n = Event /\ Outdated(w)))
<1> DEFINE p == prog[w]
           l == Len(p)
           n == Arg(w)
           c == got[w][n] \cup UNION {got[w][r] : r \in Races}
<1>1. ProgsOK /\ p \in Progs /\ p # <<>> /\ p[1].do = "store" /\ n = p[1].on /\ l \in Nat /\ Len(p) = l
  BY OnFacts, TypeParts DEF StoreResult, Structure, ProgsOK, Progs
<1>2. PICK r \in Races, k \in 1..12 : Saves(r, p) /\ Len(p) = k /\ SaveAt(w, r, k)
  BY <1>1, StageOf DEF StagesHold, SaveStage
<1>3. l = k /\ l \in {6, 7} /\ (l = 7 => n = HeatOf[r]) /\ (l = 6 => n = Event)
  BY <1>1, <1>2, SavesDo
<1>4. /\ got[w][n] # {} /\ got[w][r] = {<<r, 1>>} /\ GotNone(w, Races \ {r})
      /\ l = 7 => AddsTo(w, r, HeatOf[r])
      /\ AddsTo(w, r, Event) \/ Outdated(w)
  BY <1>1, <1>2, <1>3 DEF SaveAt
<1> HIDE DEF n
<1>5. c = got[w][n] \cup {<<r, 1>>}
  BY <1>4 DEF GotNone
<1>6. n \in Nodes
  BY <1>3, ModelTypes
<1> HIDE DEF c
<1>7. CASE l = 7
  BY <1>3, <1>4, <1>5, <1>6, <1>7 DEF AddsTo, n, c
<1>8. CASE l = 6
  BY <1>3, <1>4, <1>5, <1>6, <1>8 DEF AddsTo, n, c
<1> QED
  BY <1>3, <1>7, <1>8

\* Stored results stay current, and the event's keeps its token unless it is cleared.
LEMMA RowsStep ==
  ASSUME Structure, StagesHold, BuildsCurrent, CopiesCurrent, DbCurrent, NEW w \in Workers, Step(w),
         ~WriteRace(w), ~RewriteLaps(w)
  PROVE  /\ CopiesCurrent' /\ DbCurrent'
         /\ \/ ~ClearEvent(w) /\ db'[Event].ver = db[Event].ver
            \/ ClearEvent(w) /\ db'[Event].ver = now + 1
<1>1. TypeOK /\ ProgsOK /\ StackHolds(w) /\ CallsOK
  BY TypeParts DEF Structure, CallsHold
<1>0. laps' = laps
  BY LapsKept
<1>2. CASE ClearEvent(w)
  BY <1>2, ClearTruth
<1>3. CASE ~ClearEvent(w) /\ ReadsRows(w)
  <2>1. CopiesCurrent' /\ DbCurrent'
    BY <1>3, DueKept, ReadsTruth
  <2> QED
    BY <1>3, <2>1 DEF ReadsRows
<1>4. CASE ~ClearEvent(w) /\ Finish(w)
  <2> DEFINE b == calls[w][1]
  <2>1. /\ b \in Builds /\ CallHolds(b) /\ b.at \in {"read", "rank"} /\ calls[w] # <<>>
        /\ SetResults(w, b.node, b.token, b.acc, b.held) /\ b.node \in Nodes
    BY <1>1, <1>4, FinishFacts
  <2>2. Len(calls[w]) \in Nat \ {0}
    BY <1>1, <2>1, CallsCut DEF CallsOK
  <2>3. BuildCurrent(b)
    BY <2>2 DEF BuildsCurrent, BuildsAre
  <2>4. b.acc = Current(b.node)
    BY <2>1, <2>3, FinishedCurrent
  <2> HIDE DEF b
  <2>5. CopiesCurrent' /\ DbCurrent' /\ db'[Event].ver = db[Event].ver
    BY <1>0, <1>4, <2>1, <2>4, DueKept, SetTruth
  <2> QED
    BY <1>4, <2>5
<1>5. CASE ~ClearEvent(w) /\ StoreResult(w)
  <2> DEFINE n == Arg(w)
             c == got[w][n] \cup UNION {got[w][r] : r \in Races}
  <2>1. n \in Nodes /\ (c = Current(n) \/ (n = Event /\ Outdated(w)))
    BY <1>5, StoresCurrent
  <2>2. SetResults(w, n, token[w], c, {}) /\ token' = token
    BY <1>5 DEF StoreResult
  <2> HIDE DEF n, c
  <2>3. c = Current(n) \/ (n = Event /\ (ClearComes \/ token[w] # db[Event].ver))
    BY <2>1 DEF Outdated
  <2>4. CopiesCurrent' /\ DbCurrent' /\ db'[Event].ver = db[Event].ver
    BY <1>0, <1>5, <2>1, <2>2, <2>3, DueKept, SetTruth
  <2> QED
    BY <1>5, <2>4
<1> QED
  BY <1>2, <1>3, <1>4, <1>5, RowSteps

-----------------------------------------------------------------------------
(* Where the greenlets are that do not move.                               *)

LEMMA OthersKeep ==
  ASSUME Structure, NEW w \in Workers, Step(w), NEW v \in Workers, v # w
  PROVE  /\ prog'[v] = prog[v] /\ calls'[v] = calls[v] /\ got'[v] = got[v] /\ token'[v] = token[v]
         /\ cpu # v
         /\ \A n \in Rows : copies'[v][n] = copies[v][n]
<1>1. TypeOK /\ GotOK /\ RestOK /\ CopiesOK /\ StoredOK /\ CallsHold /\ ProgsOK /\ CallsOK /\ StackHolds(w)
  BY TypeParts DEF Structure, CallsHold
<1>2. prog'[v] = prog[v] /\ calls'[v] = calls[v]
  BY OthersStay
<1>3. cpu \in {w, Free} /\ Free # v
  BY <1>1, CallStep, CachesAssumption
<1>4. token'[v] = token[v]
  BY <1>1 DEF RestOK, Step, Hit, Miss, StartCalc, WaitForCalc, ReadLaps, Rank, Finish, BuildOn,
      Sleep, Hold, Drop, WriteRace, RewriteLaps, TakeResult, PutResult, StoreResult, local,
      ClearEvent, Invalidate, GetPage, WaitForPage, BuildPage, PageHeat, Keep, ShowPage
<1>5. got'[v] = got[v]
  BY <1>1 DEF GotOK, Step, Hit, Miss, StartCalc, WaitForCalc, ReadLaps, Rank, Finish, BuildOn, Return,
      Sleep, Hold, Drop, WriteRace, RewriteLaps, TakeResult, PutResult, StoreResult, local,
      ClearEvent, Invalidate, GetPage, WaitForPage, BuildPage, PageHeat, Keep, ShowPage
<1>6. ASSUME NEW n \in Rows PROVE copies'[v][n] = copies[v][n]
  <2>1. CASE ReadsRows(w)
    <3>1. PICK S : copies' = copies \/ copies' = Loaded(w, S) \/ copies' = Dropped(w, S)
      BY <2>1 DEF ReadsRows
    <3> QED
      BY <1>1, <3>1, LoadedIs, DroppedIs
  <2>2. CASE Finish(w)
    <3>1. \E m \in Nodes : \E t, c, S : SetResults(w, m, t, c, S)
      BY <1>1, <2>2, FinishFacts
    <3> QED
      BY <1>1, <3>1, SetResultsIs
  <2>3. CASE StoreResult(w)
    <3>1. Arg(w) \in Nodes
      BY <1>1, <2>3, OnFacts, Cut DEF StoreResult, Instr
    <3>2. \E m \in Nodes : \E t, c, S : SetResults(w, m, t, c, S)
      BY <2>3, <3>1 DEF StoreResult
    <3> QED
      BY <1>1, <3>2, SetResultsIs
  <2>4. CASE ClearEvent(w) \/ RewriteLaps(w) \/ WriteRace(w)
    <3>1. \E S : Write(w, S, Cleared(now + 1))
      BY <2>4 DEF ClearEvent, RewriteLaps, WriteRace
    <3> QED
      BY <1>1, <3>1, WriteIs
  <2> QED
    BY <2>1, <2>2, <2>3, <2>4, RowSteps
<1> QED
  BY <1>2, <1>3, <1>4, <1>5, <1>6

\* A token that is not the event's never becomes it.
LEMMA OutdatedKept ==
  ASSUME Structure, TimeHolds, StagesHold, BuildsCurrent, CopiesCurrent, DbCurrent,
         NEW w \in Workers, Step(w), ~WriteRace(w), ~RewriteLaps(w),
         NEW v \in Workers, token'[v] = token[v], Outdated(v)
  PROVE  Outdated(v)'
<1>1. \/ ~ClearEvent(w) /\ db'[Event].ver = db[Event].ver
      \/ ClearEvent(w) /\ db'[Event].ver = now + 1
  BY RowsStep
<1>2. token[v] \in Nat /\ now \in Nat /\ token[v] <= now
  BY TypeParts DEF Structure, RestOK, StoredOK, TimeHolds
<1>3. CASE ~ClearEvent(w) /\ db'[Event].ver = db[Event].ver
  <2>1. ClearComes => ClearComes'
    BY <1>3, DueKept
  <2> QED
    BY <1>3, <2>1 DEF Outdated
<1>4. CASE ClearEvent(w) /\ db'[Event].ver = now + 1
  <2>1. token'[v] # db'[Event].ver
    BY <1>2, <1>4
  <2> QED
    BY <2>1 DEF Outdated
<1> QED
  BY <1>1, <1>3, <1>4

LEMMA SaveAtKept ==
  ASSUME NEW v, NEW r, NEW l, SaveAt(v, r, l), laps' = laps, l \notin {8, 9},
         got'[v] = got[v], Outdated(v) => Outdated(v)',
         prog'[v][1].do = "store" => got[v][prog'[v][1].on] # {}
  PROVE  SaveAt(v, r, l)'
<1>1. \A n : Current(n)' = Current(n)
  BY SameLaps
<1>2. \A S : GotNone(v, S) => GotNone(v, S)'
  BY DEF GotNone
<1>3. \A n : IsNow(v, n) => IsNow(v, n)'
  BY <1>1 DEF IsNow
<1>4. \A n : AddsTo(v, r, n) => AddsTo(v, r, n)'
  BY <1>1 DEF AddsTo
<1>5. /\ l \in {11, 12} => GotNone(v, Nodes)
      /\ l = 10 => GotNone(v, Nodes \ {HeatOf[r]}) /\ IsNow(v, HeatOf[r])
      /\ l = 7 => AddsTo(v, r, HeatOf[r])
      /\ l \in {6, 7} => AddsTo(v, r, Event) \/ Outdated(v)
      /\ l \in {6, 7} => got[v][r] = {<<r, 1>>} /\ GotNone(v, Races \ {r})
      /\ l \in 1..4 => GotNone(v, Nodes)
  BY DEF SaveAt
<1> QED
  BY <1>2, <1>3, <1>4, <1>5 DEF SaveAt

LEMMA PageHoldsKept ==
  ASSUME NEW v, PageHolds(v), laps' = laps, got'[v] = got[v], prog'[v] = prog[v],
         Heats \subseteq Holds(v)', \A k \in 1..Len(calls'[v]) : calls'[v][k].held \subseteq Races
  PROVE  PageHolds(v)'
<1>1. \A n : Current(n)' = Current(n)
  BY SameLaps
<1>2. \A n \in Rows : got'[v][n] = Current(n)' \/ (got'[v][n] = {} /\ Awaits(prog'[v], n))
  BY <1>1 DEF PageHolds
<1> QED
  BY <1>2 DEF PageHolds

LEMMA StageKept ==
  ASSUME ProgsOK, NEW v \in Workers, Stage(v), laps' = laps, got'[v] = got[v], prog'[v] = prog[v],
         Outdated(v) => Outdated(v)',
         prog[v] # <<>> /\ prog[v][1].do \in {"write", "recent"} => cpu # v,
         PageStage(v) => /\ Heats \subseteq Holds(v)'
                         /\ \A k \in 1..Len(calls'[v]) : calls'[v][k].held \subseteq Races
  PROVE  Stage(v)'
<1> DEFINE p == prog[v]
<1>1. p \in Progs /\ Len(p) \in Nat
  BY DEF ProgsOK, Progs
<1>2. \A S : GotNone(v, S) => GotNone(v, S)'
  BY DEF GotNone
<1>3. CASE Rests(v)
  <2>1. Rests(v)'
    BY <1>2, <1>3 DEF Rests
  <2> QED
    BY <2>1 DEF Stage
<1>4. CASE Reads(p)
  <2>1. Reads(prog[v])'
    BY <1>4
  <2> QED
    BY <2>1 DEF Stage
<1>5. CASE SaveStage(v)
  <2>1. PICK r \in Races, l \in 1..12 : Saves(r, p) /\ Len(p) = l /\ SaveAt(v, r, l)
    BY <1>5 DEF SaveStage
  <2>2. l \notin {8, 9}
    <3>1. ASSUME l \in {8, 9} PROVE FALSE
      <4>1. cpu = v
        BY <2>1, <3>1 DEF SaveAt
      <4>2. Len(p) \in Nat /\ (Len(p) = 8 \/ Len(p) = 9)
        BY <2>1, <3>1
      <4>3. p # <<>> /\ (p[1].do = "write" \/ p[1].do = "recent")
        BY <1>1, <2>1, <4>2, SavesDo
      <4> QED
        BY <4>1, <4>3
    <3> QED
      BY <3>1
  <2>0. prog[v][1].do = "store" => got[v][prog[v][1].on] # {}
    BY <2>1 DEF SaveAt
  <2>3. SaveAt(v, r, l)'
    BY <2>0, <2>1, <2>2, SaveAtKept
  <2>4. Saves(r, prog'[v]) /\ Len(prog'[v]) = l
    BY <2>1
  <2>5. SaveStage(v)'
    BY <2>3, <2>4 DEF SaveStage
  <2> QED
    BY <2>5 DEF Stage
<1>6. CASE ResaveStage(v)
  <2>1. PICK r \in Races, l \in 1..17 : Resaves(r, p) /\ Len(p) = l /\ (l <= 2 => GotNone(v, Nodes))
    BY <1>6 DEF ResaveStage
  <2>2. Resaves(r, prog'[v]) /\ Len(prog'[v]) = l /\ (l <= 2 => GotNone(v, Nodes)')
    BY <1>2, <2>1
  <2>3. ResaveStage(v)'
    BY <2>2 DEF ResaveStage
  <2> QED
    BY <2>3 DEF Stage
<1>7. CASE PageStage(v)
  <2>1. PageHolds(v)'
    BY <1>7, PageHoldsKept DEF PageStage
  <2>2. PageStage(v)'
    BY <1>7, <2>1 DEF PageStage
  <2> QED
    BY <2>2 DEF Stage
<1> QED
  BY <1>3, <1>4, <1>5, <1>6, <1>7 DEF Stage

LEMMA OutermostIs ==
  ASSUME NEW c \in Seq(Builds), NEW b \in Builds
  PROVE  /\ c = <<>> => Outermost(<<b>> \o c) = b.node
         /\ c # <<>> => Outermost(<<b>> \o c) = Outermost(c)
         /\ c # <<>> /\ b.node = c[1].node => Outermost(<<b>> \o Tail(c)) = Outermost(c)
         /\ c # <<>> /\ Tail(c) # <<>> => Outermost(Tail(c)) = Outermost(c)
         /\ c # <<>> /\ Tail(c) = <<>> => Outermost(c) = c[1].node
<1> DEFINE n == Len(c)
           t == Tail(c)
<1>1. n \in Nat /\ (c # <<>> => n >= 1) /\ (c = <<>> => n = 0)
  OBVIOUS
<1>2. /\ Len(<<b>> \o c) = n + 1 /\ (<<b>> \o c)[1] = b /\ <<b>> \o c \in Seq(Builds)
      /\ \A k \in 2..(n + 1) : (<<b>> \o c)[k] = c[k - 1]
  OBVIOUS
<1>3. c # <<>> => /\ t \in Seq(Builds) /\ Len(t) = n - 1
                  /\ \A k \in 1..(n - 1) : t[k] = c[k + 1]
  BY CallsCut
<1>4. c # <<>> => /\ Len(<<b>> \o t) = n /\ (<<b>> \o t)[1] = b
                  /\ \A k \in 2..n : (<<b>> \o t)[k] = c[k]
  <2>1. ASSUME c # <<>>
        PROVE  /\ Len(<<b>> \o t) = Len(t) + 1 /\ (<<b>> \o t)[1] = b
               /\ \A k \in 2..(Len(t) + 1) : (<<b>> \o t)[k] = t[k - 1]
    <3> HIDE DEF t
    <3> QED
      BY <1>3, <2>1
  <2> HIDE DEF t, n
  <2>2. ASSUME c # <<>>, NEW k \in 2..n PROVE (<<b>> \o t)[k] = c[k]
    <3>1. k \in 2..(Len(t) + 1) /\ k - 1 \in 1..(n - 1) /\ (k - 1) + 1 = k
      BY <1>1, <1>3, <2>2
    <3>2. (<<b>> \o t)[k] = t[k - 1] /\ t[k - 1] = c[(k - 1) + 1]
      BY <1>3, <2>1, <2>2, <3>1
    <3> QED
      BY <3>1, <3>2
  <2>3. c # <<>> => Len(t) + 1 = n
    BY <1>1, <1>3
  <2> QED
    BY <2>1, <2>2, <2>3
<1> HIDE DEF n, t
<1>5. c # <<>> => n + 1 \in 2..(n + 1) /\ (n + 1) - 1 = n
  BY <1>1
<1>6. c # <<>> /\ t = <<>> => n = 1
  <2>1. t = <<>> => Len(t) = 0
    OBVIOUS
  <2> QED
    BY <1>1, <1>3, <2>1
<1>7. c # <<>> /\ t # <<>> => Len(t) \in 1..(n - 1) /\ Len(t) + 1 = n
  <2>1. t \in Seq(Builds) /\ t # <<>> => Len(t) \in Nat /\ Len(t) >= 1
    OBVIOUS
  <2> QED
    BY <1>1, <1>3, <2>1
<1>8. c = <<>> => Outermost(<<b>> \o c) = b.node
  BY <1>1, <1>2 DEF Outermost, n
<1>9. c # <<>> => Outermost(<<b>> \o c) = Outermost(c)
  BY <1>2, <1>5 DEF Outermost, n
<1>10. c # <<>> /\ b.node = c[1].node => Outermost(<<b>> \o t) = Outermost(c)
  <2>1. n \in 2..n \/ n = 1 \/ n = 0
    BY <1>1
  <2> QED
    BY <1>1, <1>4, <2>1 DEF Outermost, n
<1>11. c # <<>> /\ t # <<>> => Outermost(t) = Outermost(c)
  BY <1>3, <1>7 DEF Outermost, n
<1>12. c # <<>> /\ t = <<>> => Outermost(c) = c[1].node
  BY <1>6 DEF Outermost, n
<1> QED
  BY <1>8, <1>9, <1>10, <1>11, <1>12 DEF t

\* A result is given to the request only by its own build.
LEMMA ReturnAsker ==
  ASSUME ProgsOK, CallsOK, GotOK, NEW w \in Workers, NEW stack \in Seq(Builds), Stacked(stack),
         stack # <<>> => stack[1].at = "parts",
         NEW n \in Nodes, NEW v \in Contents, Return(w, stack, n, v),
         stack # <<>> => Outermost(stack) = prog[w][1].on
  PROVE  calls'[w] # <<>> => Outermost(calls'[w]) = prog'[w][1].on
<1>1. CASE stack = <<>>
  BY <1>1, ReturnIs
<1>2. CASE stack # <<>>
  <2> DEFINE c == MergedInto(stack[1], n, v)
  <2>1. stack[1] \in Builds /\ CallHolds(stack[1])
    BY <1>2, CallsCut, StackedTail
  <2>2. c \in Builds /\ c.node = stack[1].node /\ calls'[w] = <<c>> \o Tail(stack) /\ prog' = prog
    BY <1>2, <2>1, MergeFacts, ReturnIs
  <2> HIDE DEF c
  <2>3. Outermost(<<c>> \o Tail(stack)) = Outermost(stack)
    BY <1>2, <2>2, OutermostIs
  <2> QED
    BY <1>2, <2>2, <2>3
<1> QED
  BY <1>1, <1>2

LEMMA AskersStep ==
  ASSUME Structure, AskersHold, NEW w \in Workers, Step(w)
  PROVE  AskersHold'
<1>1. /\ TypeOK /\ StoredOK /\ ProgsOK /\ CallsOK /\ GotOK /\ StackHolds(w) /\ Stacked(calls[w])
      /\ calls[w] \in Seq(Builds)
  BY TypeParts DEF Structure, CallsHold, StackHolds, CallsOK
<1>2. calls[w] # <<>> => Outermost(calls[w]) = prog[w][1].on
  BY DEF AskersHold
<1>3. SUFFICES calls'[w] # <<>> => Outermost(calls'[w]) = prog'[w][1].on
  <2>1. \A v \in Workers : v # w => calls'[v] = calls[v] /\ prog'[v] = prog[v]
    BY OthersStay
  <2> QED
    BY <1>3, <2>1 DEF AskersHold, Outermost
<1>5. CASE Hit(w)
  <2> DEFINE n == Asked(w)
             v == IF NoRaces(n) THEN {} ELSE View(w, n).res
  <2>1. /\ n \in Nodes /\ v \in Contents /\ Return(w, calls[w], n, v)
        /\ calls[w] # <<>> => calls[w][1].at = "parts"
    BY <1>1, <1>5, HitFacts
  <2> HIDE DEF n, v
  <2> QED
    BY <1>1, <1>2, <2>1, ReturnAsker
<1>6. CASE Finish(w)
  <2> DEFINE b == calls[w][1]
             t == Tail(calls[w])
  <2>1. /\ b \in Builds /\ calls[w] # <<>>
        /\ Return(w, t, b.node, b.acc) /\ t \in Seq(Builds) /\ Stacked(t)
        /\ t # <<>> => t[1].at = "parts"
        /\ b.node \in Nodes /\ b.acc \in Contents
    BY <1>1, <1>6, FinishFacts
  <2>2. t # <<>> => Outermost(t) = Outermost(calls[w])
    BY <1>1, <2>1, OutermostIs
  <2> HIDE DEF b, t
  <2> QED
    BY <1>1, <1>2, <2>1, <2>2, ReturnAsker
<1>7. CASE Miss(w)
  <2> DEFINE n == Asked(w)
             b == NewBuild(w, n)
  <2>1. n \in Nodes /\ b \in Builds /\ calls'[w] = <<b>> \o calls[w] /\ prog' = prog /\ b.node = n
    BY <1>1, <1>7, MissFacts DEF Miss, NewBuild
  <2>2. calls[w] = <<>> => prog[w][1].on = n
    BY <1>1, <1>7, AskedFacts DEF Miss
  <2> HIDE DEF b, n
  <2>3. /\ calls[w] = <<>> => Outermost(<<b>> \o calls[w]) = b.node
        /\ calls[w] # <<>> => Outermost(<<b>> \o calls[w]) = Outermost(calls[w])
    BY <1>1, <2>1, OutermostIs
  <2> QED
    BY <1>2, <2>1, <2>2, <2>3
<1>8. CASE StartCalc(w) \/ WaitForCalc(w) \/ ReadLaps(w) \/ Rank(w)
  <2> DEFINE b == calls[w][1]
             t == Tail(calls[w])
  <2>1. PICK x \in Later, acc \in Contents :
           /\ BuildOn(w, x, acc) /\ calls[w] # <<>> /\ b.todo = {}
           /\ b.node \in Races <=> x # "rank"
    BY <1>1, <1>8, BuildStepFacts
  <2> DEFINE c == Onward(b, x, acc)
  <2>2. calls' = [calls EXCEPT ![w] = <<c>> \o t]
    BY Zenon, <1>1, <2>1, BuildOnFacts
  <2>3. b \in Builds /\ CallHolds(b)
    BY <1>1, <2>1, CallsCut, StackedTail
  <2>4. c \in Builds
    BY Zenon, <2>1, <2>3, OnwardFacts
  <2>7. c.node = b.node
    BY <2>3 DEF Builds, Onward
  <2> HIDE DEF c
  <2>5. Outermost(<<c>> \o t) = Outermost(calls[w])
    BY <1>1, <2>1, <2>4, <2>7, OutermostIs
  <2> HIDE DEF b, t
  <2>6. calls'[w] = <<c>> \o t /\ prog' = prog
    BY <1>1, <2>1, <2>2 DEF CallsOK, BuildOn
  <2> QED
    BY <1>2, <2>1, <2>5, <2>6
<1>9. CASE OnStep(w)
  <2>1. calls'[w] = <<>>
    BY <1>9, OnStepFacts
  <2> QED
    BY <2>1
<1> QED
  BY Zenon, <1>5, <1>6, <1>7, <1>8, <1>9 DEF Step, OnStep

LEMMA OthersStage ==
  ASSUME Structure, TimeHolds, StagesHold, BuildsCurrent, CopiesCurrent, DbCurrent,
         NEW w \in Workers, Step(w), ~WriteRace(w), ~RewriteLaps(w), NEW v \in Workers, v # w
  PROVE  Stage(v)'
<1>1. ProgsOK /\ laps' = laps /\ Stage(v)
  BY TypeParts, LapsKept DEF Structure, StagesHold
<1>2. /\ prog'[v] = prog[v] /\ calls'[v] = calls[v] /\ got'[v] = got[v] /\ token'[v] = token[v]
      /\ cpu # v /\ \A n \in Rows : copies'[v][n] = copies[v][n]
  BY OthersKeep
<1>3. Outdated(v) => Outdated(v)'
  BY <1>2, OutdatedKept
<1>4. Holds(v)' = Holds(v)
  BY <1>2 DEF Holds
<1>5. PageStage(v) => /\ Heats \subseteq Holds(v)'
                      /\ \A k \in 1..Len(calls'[v]) : calls'[v][k].held \subseteq Races
  BY <1>2, <1>4 DEF PageStage, PageHolds
<1> QED
  BY <1>1, <1>2, <1>3, <1>5, StageKept

\* When laps are written the others have fetched nothing.
LEMMA OthersWritten ==
  ASSUME Structure, StagesHold, NEW w \in Workers, Step(w), WriteRace(w) \/ RewriteLaps(w), Alone(w),
         NEW v \in Workers, v # w
  PROVE  Stage(v)'
<1> DEFINE p == prog[v]
<1>1. ProgsOK /\ Stage(v) /\ p \in Progs /\ Len(p) \in Nat
  BY TypeParts DEF Structure, StagesHold, ProgsOK, Progs
<1>2. prog'[v] = p /\ got'[v] = got[v] /\ cpu # v
  BY OthersKeep
<1>3. GotNone(v, Nodes) /\ Holds(v) = {}
  BY DEF Alone, GotNone
<1>4. GotNone(v, Nodes)'
  BY <1>2, <1>3 DEF GotNone
<1>5. CASE Rests(v)
  <2>1. Rests(v)'
    BY <1>2, <1>4, <1>5 DEF Rests
  <2> QED
    BY <2>1 DEF Stage
<1>6. CASE Reads(p)
  <2>1. Reads(prog[v])'
    BY <1>2, <1>6
  <2> QED
    BY <2>1 DEF Stage
<1>7. CASE SaveStage(v)
  <2>1. PICK r \in Races, l \in 1..12 : Saves(r, p) /\ Len(p) = l /\ SaveAt(v, r, l)
    BY <1>7 DEF SaveStage
  <2>2. l \notin {8, 9} /\ l \notin {6, 7}
    <3>1. l \in {8, 9} => cpu = v
      BY <2>1 DEF SaveAt
    <3>2. l \in {6, 7} => got[v][r] = {<<r, 1>>}
      BY <2>1 DEF SaveAt
    <3>3. r \in Nodes
      BY ModelTypes
    <3> QED
      BY <1>2, <1>3, <3>1, <3>2, <3>3 DEF GotNone
  <2>3. p[1].do # "store"
    <3>1. l \in Nat
      OBVIOUS
    <3>2. p[1].do = "store" => l \in {6, 7}
      BY <1>1, <2>1, <3>1, SavesDo
    <3> QED
      BY <2>2, <3>2
  <2>4. HeatOf[r] \in Nodes
    BY ModelTypes
  <2>5. SaveAt(v, r, l)'
    BY <1>2, <1>4, <2>2, <2>3, <2>4 DEF SaveAt, GotNone, IsNow
  <2>6. SaveStage(v)'
    BY <1>2, <2>1, <2>5 DEF SaveStage
  <2> QED
    BY <2>6 DEF Stage
<1>8. CASE ResaveStage(v)
  <2>1. PICK r \in Races, l \in 1..17 : Resaves(r, p) /\ Len(p) = l
    BY <1>8 DEF ResaveStage
  <2>2. Resaves(r, prog'[v]) /\ Len(prog'[v]) = l /\ (l <= 2 => GotNone(v, Nodes)')
    BY <1>2, <1>4, <2>1
  <2>3. ResaveStage(v)'
    BY <2>2 DEF ResaveStage
  <2> QED
    BY <2>3 DEF Stage
<1>9. ~PageStage(v)
  <2>1. \E h : h \in Heats
    BY WritersLaps, ModelTypes
  <2> QED
    BY <1>3, <2>1 DEF PageStage, PageHolds
<1> QED
  BY <1>1, <1>5, <1>6, <1>7, <1>8, <1>9 DEF Stage

-----------------------------------------------------------------------------
(* Where the greenlet that moves comes to.                                 *)

LEMMA ReturnHeld ==
  ASSUME ProgsOK, CallsOK, GotOK, NEW w \in Workers, NEW stack \in Seq(Builds), Stacked(stack),
         stack # <<>> => stack[1].at = "parts",
         NEW n \in Nodes, NEW v \in Contents, Return(w, stack, n, v),
         \A k \in 1..Len(stack) : stack[k].held \subseteq Races
  PROVE  \A k \in 1..Len(calls'[w]) : calls'[w][k].held \subseteq Races
<1>1. CASE stack = <<>>
  <2>1. calls'[w] = <<>>
    BY <1>1, ReturnIs
  <2> QED
    BY <2>1
<1>2. CASE stack # <<>>
  <2> DEFINE b == stack[1]
             c == MergedInto(b, n, v)
             t == Tail(stack)
  <2>1. b \in Builds /\ CallHolds(b) /\ t \in Seq(Builds) /\ Len(stack) \in Nat \ {0}
    BY <1>2, CallsCut, StackedTail
  <2>2. c \in Builds /\ c.held = b.held /\ calls'[w] = <<c>> \o t
    BY <1>2, <2>1, MergeFacts, ReturnIs
  <2>3. c.held \subseteq Races
    BY <2>1, <2>2
  <2>4. \A j \in 1..Len(t) : \E i \in 1..Len(stack) : t[j] = stack[i]
    BY <1>2, <2>1, StackElements
  <2>5. \A j \in 1..Len(t) : t[j].held \subseteq Races
    BY <2>4
  <2> HIDE DEF c, t
  <2>6. \A k \in 1..Len(<<c>> \o t) : (<<c>> \o t)[k] = c \/ \E j \in 1..Len(t) : (<<c>> \o t)[k] = t[j]
    BY <2>1, <2>2, StackElements
  <2> QED
    BY <2>2, <2>3, <2>5, <2>6
<1> QED
  BY <1>1, <1>2

\* One that builds the page keeps the heats, whatever it builds on the way.
LEMMA PageKept ==
  ASSUME Structure, TimeHolds, NEW w \in Workers, Step(w), PageStage(w), ~ShowPage(w)
  PROVE  /\ Heats \subseteq Holds(w)'
         /\ \A k \in 1..Len(calls'[w]) : calls'[w][k].held \subseteq Races
<1>1. /\ TypeOK /\ StoredOK /\ ProgsOK /\ CallsOK /\ GotOK /\ CopiesOK /\ StackHolds(w) /\ Stacked(calls[w])
      /\ calls[w] \in Seq(Builds) /\ FormsHold /\ CallsHold
  BY TypeParts DEF Structure, CallsHold, StackHolds, CallsOK
<1>2. /\ \A h \in Heats : copies[w][h] # NoRow /\ h \in Rows /\ h \notin Races
      /\ \A k \in 1..Len(calls[w]) : calls[w][k].held \subseteq Races
  BY HoldsIs, ModelTypes DEF PageStage, PageHolds
<1>3. SUFFICES /\ \A h \in Heats : copies'[w][h] # NoRow
               /\ \A k \in 1..Len(calls'[w]) : calls'[w][k].held \subseteq Races
  BY <1>2, <1>3 DEF Holds
<1>4. \A S : copies' = Loaded(w, S) => \A h \in Heats : copies'[w][h] # NoRow
  <2>1. \A h \in Heats : View(w, h) = copies[w][h]
    BY <1>2, ViewIs
  <2> QED
    BY <1>1, <1>2, <2>1, LoadedIs
<1>5. CASE Hit(w)
  <2> DEFINE n == Asked(w)
             v == IF NoRaces(n) THEN {} ELSE View(w, n).res
  <2>1. /\ n \in Nodes /\ v \in Contents /\ Return(w, calls[w], n, v)
        /\ calls[w] # <<>> => calls[w][1].at = "parts"
    BY <1>1, <1>5, HitFacts
  <2>2. copies' = copies
    BY <1>5 DEF Hit
  <2> HIDE DEF n, v
  <2>3. \A k \in 1..Len(calls'[w]) : calls'[w][k].held \subseteq Races
    BY <1>1, <1>2, <2>1, ReturnHeld
  <2> QED
    BY <1>2, <2>2, <2>3
<1>6. CASE Finish(w)
  <2> DEFINE b == calls[w][1]
             t == Tail(calls[w])
  <2>1. /\ b \in Builds /\ calls[w] # <<>> /\ SetResults(w, b.node, b.token, b.acc, b.held)
        /\ Return(w, t, b.node, b.acc) /\ t \in Seq(Builds) /\ Stacked(t)
        /\ t # <<>> => t[1].at = "parts"
        /\ b.node \in Nodes /\ b.acc \in Contents
    BY <1>1, <1>6, FinishFacts
  <2>2. Len(calls[w]) \in Nat \ {0}
    BY <1>1, <2>1, CallsCut
  <2>3. b.held \subseteq Races
    BY <1>2, <2>2
  <2>4. \A k \in 1..Len(t) : \E j \in 1..Len(calls[w]) : t[k] = calls[w][j]
    BY <1>1, <2>1, StackElements
  <2>5. \A k \in 1..Len(t) : t[k].held \subseteq Races
    BY <1>2, <2>4
  <2> HIDE DEF b, t
  <2>6. \A k \in 1..Len(calls'[w]) : calls'[w][k].held \subseteq Races
    BY <1>1, <2>1, <2>5, ReturnHeld
  <2>7. ASSUME NEW h \in Heats PROVE copies'[w][h] # NoRow
    <3>1. h \in Rows /\ h \notin b.held /\ copies[w][h] # NoRow
      BY <1>2, <2>3
    <3>2. copies'[w][h] = copies[w][h] \/ (copies'[w][h] = Valued(b.token, b.acc) /\ h = b.node
                                         /\ View(w, b.node).ver = b.token)
      BY <1>1, <2>1, <3>1, SetResultsIs
    <3>3. View(w, h).ver # 0
      BY <3>1, ViewIs DEF TimeHolds
    <3>4. NoRow.ver = 0 /\ Valued(b.token, b.acc).ver = b.token
      BY DEF NoRow, Valued
    <3> QED
      BY <3>1, <3>2, <3>3, <3>4
  <2> QED
    BY <2>6, <2>7
<1>7. CASE Miss(w)
  <2> DEFINE n == Asked(w)
             b == NewBuild(w, n)
  <2>1. /\ n \in Nodes /\ b \in Builds /\ calls'[w] = <<b>> \o calls[w]
        /\ copies' = Loaded(w, Needed(n))
    BY <1>1, <1>7, MissFacts
  <2>2. b.held = Needed(n) \ Holds(w)
    BY DEF NewBuild
  <2>3. Needed(n) \subseteq Rows
    BY ModelTypes DEF Needed, Parts, RacesOf, Saved
  <2>4. Heats \subseteq Holds(w) /\ Rows = Races \cup Heats
    BY DEF PageStage, PageHolds, Rows
  <2>5. b.held \subseteq Races
    BY <2>2, <2>3, <2>4
  <2> HIDE DEF b
  <2>6. \A k \in 1..Len(<<b>> \o calls[w]) :
          (<<b>> \o calls[w])[k] = b \/ \E j \in 1..Len(calls[w]) : (<<b>> \o calls[w])[k] = calls[w][j]
    BY <1>1, <2>1, StackElements
  <2> QED
    BY <1>2, <1>4, <2>1, <2>5, <2>6
<1>8. CASE StartCalc(w) \/ WaitForCalc(w) \/ ReadLaps(w) \/ Rank(w)
  <2> DEFINE b == calls[w][1]
             t == Tail(calls[w])
  <2>1. PICK x \in Later, acc \in Contents :
           /\ BuildOn(w, x, acc) /\ calls[w] # <<>> /\ b.todo = {}
           /\ b.node \in Races <=> x # "rank"
    BY <1>1, <1>8, BuildStepFacts
  <2> DEFINE c == Onward(b, x, acc)
  <2>2. calls' = [calls EXCEPT ![w] = <<c>> \o t]
    BY Zenon, <1>1, <2>1, BuildOnFacts
  <2>3. b \in Builds /\ CallHolds(b) /\ t \in Seq(Builds) /\ Len(calls[w]) \in Nat \ {0}
    BY <1>1, <2>1, CallsCut, StackedTail
  <2>4. c \in Builds
    BY Zenon, <2>1, <2>3, OnwardFacts
  <2>5. c.held = b.held
    BY <2>3 DEF Builds, Onward
  <2>6. c.held \subseteq Races
    BY <1>2, <2>3, <2>5
  <2> HIDE DEF c, b
  <2>7. calls'[w] = <<c>> \o t /\ copies' = copies
    BY <1>1, <2>1, <2>2 DEF CallsOK, BuildOn
  <2>8. \A k \in 1..Len(<<c>> \o t) : (<<c>> \o t)[k] = c \/ \E j \in 1..Len(t) : (<<c>> \o t)[k] = t[j]
    BY <2>3, <2>4, StackElements
  <2>9. \A j \in 1..Len(t) : \E i \in 1..Len(calls[w]) : t[j] = calls[w][i]
    BY <1>1, <2>1, StackElements
  <2> HIDE DEF t
  <2>10. \A j \in 1..Len(t) : t[j].held \subseteq Races
    BY <1>2, <2>9
  <2> QED
    BY <1>2, <2>6, <2>7, <2>8, <2>10
<1>9. CASE OnStep(w)
  <2>1. calls' = calls
    BY <1>9, OnStepFacts
  <2>2. prog[w] \in Progs /\ prog[w] # <<>> /\ prog[w][1].do \in {"show", "sleep", "get", "pageHeat", "keep"}
    <3>1. prog[w] \in Progs /\ Len(prog[w]) \in Nat
      BY <1>1 DEF ProgsOK, Progs
    <3> QED
      BY <3>1, PagesDo DEF PageStage
  <2>3. Sleep(w) \/ PageHeat(w) \/ Keep(w)
    BY <1>1, <1>9, <2>2, ClearIs DEF OnStep
  <2>4. CASE Sleep(w)
    BY <1>2, <2>1, <2>4 DEF Sleep
  <2>5. CASE PageHeat(w)
    <3>1. copies' = copies \/ copies' = Loaded(w, RacesOf(Arg(w)))
      BY <1>1, <2>5, PageHeatProg
    <3> QED
      BY <1>2, <1>4, <2>1, <3>1
  <2>6. CASE Keep(w)
    <3>1. copies' = Dropped(w, Races \ {Arg(w)})
      BY <2>6 DEF Keep
    <3>2. \A h \in Heats : h \notin Races \ {Arg(w)}
      BY <1>2
    <3>4. PICK S : copies' = Dropped(w, S) /\ \A h \in Heats : h \notin S
      BY <3>1, <3>2
    <3>3. \A h \in Heats : copies'[w][h] # NoRow
      BY <1>1, <1>2, <3>4, DroppedIs
    <3> QED
      BY <1>2, <2>1, <3>3
  <2> QED
    BY <2>3, <2>4, <2>5, <2>6
<1> QED
  BY Zenon, <1>5, <1>6, <1>7, <1>8, <1>9 DEF Step, OnStep

\* The next stage, when an instruction is done.
LEMMA SaveOn ==
  ASSUME ProgsOK, NEW w \in Workers, NEW r \in Races, NEW l \in Nat, Saves(r, prog[w]), Len(prog[w]) = l,
         l > 1, prog' = [prog EXCEPT ![w] = Tail(prog[w])]
  PROVE  /\ SaveAt(w, r, l - 1)' => Stage(w)'
         /\ prog'[w] # <<>> /\ prog'[w][1].do # "store" /\ prog'[w] = Tail(prog[w])
<1> DEFINE p == prog[w]
           q == Tail(p)
           k == l - 1
<1>1. p \in Progs /\ p # <<>> /\ prog'[w] = q
  BY SavesDo DEF ProgsOK
<1>2. /\ Saves(r, q) /\ Len(q) = k /\ q \in Progs /\ k \in Nat
      /\ \A i \in 1..(l - 1) : q[i] = p[i + 1]
  BY <1>1, SavesTail, Cut
<1>3. l \in 1..12 /\ k \in 1..12
  <2>1. l \in 1..12
    BY <1>1, SavesDo
  <2> QED
    BY <2>1
<1>4. SaveAt(w, r, k)' => Stage(w)'
  <2>1. Saves(r, prog[w])' /\ (Len(prog[w]) = k)'
    BY <1>1, <1>2
  <2>2. SaveAt(w, r, k)' => SaveStage(w)'
    BY <1>3, <2>1 DEF SaveStage
  <2> QED
    BY <2>2 DEF Stage
<1>5. q[1].do # "store"
  <2>1. CASE l <= 9
    <3>1. 2 \in 1..l /\ q[1] = p[2]
      <4>1. 1 \in 1..(l - 1) /\ 1 + 1 = 2 /\ 2 \in 1..l
        BY <1>3
      <4> QED
        BY <1>2, <4>1
    <3>2. ASSUME p[2].do = "store" PROVE FALSE
      <4>1. 2 = 1
        BY <1>1, <2>1, <3>1, <3>2, SavesElements
      <4> QED
        BY <4>1
    <3> QED
      BY <3>1, <3>2
  <2>2. CASE ~(l <= 9)
    <3>1. k \notin {6, 7}
      BY <2>2
    <3>2. q[1].do = "store" => k \in {6, 7}
      BY <1>2, SavesDo
    <3> QED
      BY <3>1, <3>2
  <2> QED
    BY <2>1, <2>2
<1>6. q # <<>>
  <2> HIDE DEF q
  <2>1. q = <<>> => Len(q) = 0
    OBVIOUS
  <2>2. k # 0
    BY <1>3
  <2> QED
    BY <1>2, <2>1, <2>2
<1> QED
  BY <1>1, <1>4, <1>5, <1>6

LEMMA ResaveOn ==
  ASSUME ProgsOK, NEW w \in Workers, NEW r \in Races, NEW l \in Nat, Resaves(r, prog[w]), Len(prog[w]) = l,
         l > 1, prog' = [prog EXCEPT ![w] = Tail(prog[w])], l \in {2, 3} => GotNone(w, Nodes)'
  PROVE  Stage(w)'
<1> DEFINE p == prog[w]
           k == l - 1
<1>1. p \in Progs /\ prog'[w] = Tail(p)
  BY DEF ProgsOK
<1>2. Resaves(r, Tail(p)) /\ Len(Tail(p)) = k
  BY <1>1, ResavesTail
<1>3. l \in 1..17
  BY <1>1, ResavesDo
<1>4. k \in 1..17 /\ (k <= 2 => l \in {2, 3})
  BY <1>3
<1>5. Resaves(r, prog[w])' /\ (Len(prog[w]) = k)' /\ (k <= 2 => GotNone(w, Nodes)')
  BY <1>1, <1>2, <1>4
<1> HIDE DEF k
<1>6. ResaveStage(w)'
  BY <1>4, <1>5 DEF ResaveStage
<1> QED
  BY <1>6 DEF Stage

LEMMA PageOn ==
  ASSUME ProgsOK, NEW w \in Workers, PageStage(w), prog[w][1].do \in {"sleep", "get", "keep"},
         prog' = [prog EXCEPT ![w] = Tail(prog[w])], laps' = laps,
         Heats \subseteq Holds(w)', \A k \in 1..Len(calls'[w]) : calls'[w][k].held \subseteq Races,
         \A n \in Rows : \/ got'[w][n] = got[w][n] /\ prog[w][1] # Do("get", n)
                         \/ got'[w][n] = Current(n)
  PROVE  Stage(w)'
<1> DEFINE p == prog[w]
           q == Tail(p)
           l == Len(p)
<1>1. p \in Progs /\ prog'[w] = q /\ Pages(p) /\ l \in Nat /\ Len(p) = l
  BY DEF ProgsOK, Progs, PageStage
<1> HIDE DEF l
<1>2. p # <<>> /\ l # 1 /\ l >= 1
  BY <1>1, PagesDo
<1>3. l > 1
  BY <1>1, <1>2
<1>4. Pages(q)
  BY <1>1, <1>3, PagesTail
<1>5. \A n : Current(n)' = Current(n)
  BY SameLaps
<1>6. \A n : Awaits(p, n) /\ p[1] # Do("get", n) => Awaits(q, n)
  <2>1. \A i, n : Has(p, i, n) /\ p[1] # Do(i, n) => Has(q, i, n)
    BY <1>1, <1>2, RangeCut DEF Has
  <2>2. \A n : p[1] # Do("pageHeat", n)
    BY DoTypes
  <2> QED
    BY <2>1, <2>2 DEF Awaits
<1>7. ASSUME NEW n \in Rows
      PROVE  got'[w][n] = Current(n)' \/ (got'[w][n] = {} /\ Awaits(q, n))
  <2>1. got[w][n] = Current(n) \/ (got[w][n] = {} /\ Awaits(p, n))
    BY DEF PageStage, PageHolds
  <2> QED
    BY <1>5, <1>6, <2>1
<1>8. PageHolds(w)'
  BY <1>1, <1>7 DEF PageHolds
<1>9. PageStage(w)'
  BY <1>1, <1>4, <1>8 DEF PageStage
<1> QED
  BY <1>9 DEF Stage

LEMMA ReadOn ==
  ASSUME ProgsOK, NEW w \in Workers, Reads(prog[w]), prog' = [prog EXCEPT ![w] = Tail(prog[w])],
         prog[w][1].do = "get" \/ GotNone(w, Nodes)'
  PROVE  Stage(w)'
<1> DEFINE p == prog[w]
<1>1. p \in Progs /\ prog'[w] = Tail(p)
  BY DEF ProgsOK
<1>2. p[1].do \in {"get", "drop"} /\ (p[1].do = "get" => Reads(Tail(p))) /\ (p[1].do = "drop" => Tail(p) = <<>>)
  BY <1>1, ReadsFacts
<1>3. CASE p[1].do = "get"
  <2>1. Reads(prog[w])'
    BY <1>1, <1>2, <1>3
  <2> QED
    BY <2>1 DEF Stage
<1>4. CASE p[1].do = "drop"
  <2>1. Rests(w)'
    BY <1>1, <1>2, <1>4 DEF Rests
  <2> QED
    BY <2>1 DEF Stage
<1> QED
  BY <1>2, <1>3, <1>4

\* The greenlet has not gone on to another instruction.
LEMMA SelfSame ==
  ASSUME Structure, TimeHolds, StagesHold, BuildsCurrent, CopiesCurrent, DbCurrent, NEW w \in Workers,
         Step(w), ~WriteRace(w), ~RewriteLaps(w), ~ShowPage(w), prog'[w] = prog[w], got'[w] = got[w],
         token'[w] = token[w], prog[w][1].do \notin {"write", "recent"}
  PROVE  Stage(w)'
<1>1. ProgsOK /\ laps' = laps /\ Stage(w)
  BY TypeParts, LapsKept DEF Structure, StagesHold
<1>2. Outdated(w) => Outdated(w)'
  BY OutdatedKept
<1>3. PageStage(w) => /\ Heats \subseteq Holds(w)'
                      /\ \A k \in 1..Len(calls'[w]) : calls'[w][k].held \subseteq Races
  BY PageKept
<1> QED
  BY <1>1, <1>2, <1>3, StageKept

\* A result is fetched: it is current, or the event's and about to be cleared.
LEMMA FetchedStage ==
  ASSUME Structure, TimeHolds, StagesHold, BuildsCurrent, CopiesCurrent, DbCurrent, NEW w \in Workers,
         Step(w), prog[w] # <<>>, prog[w][1].do = "get", NEW n \in Nodes, NEW v, prog[w][1].on = n,
         got' = [got EXCEPT ![w][n] = v], prog' = [prog EXCEPT ![w] = Tail(prog[w])],
         cpu' = IF Tail(prog[w]) = <<>> THEN Free ELSE w, token' = token,
         n \in Rows \/ ~ClearComes => v = Current(n)
  PROVE  Stage(w)'
<1> DEFINE p == prog[w]
<1>1. /\ ProgsOK /\ GotOK /\ p \in Progs /\ Stage(w) /\ Len(p) \in Nat
      /\ got[w] \in [Nodes -> Contents]
  BY TypeParts DEF Structure, StagesHold, ProgsOK, Progs, GotOK
<1>2. ~WriteRace(w) /\ ~RewriteLaps(w) /\ ~ShowPage(w) /\ ~ClearEvent(w)
  BY <1>1, ClearIs
<1>3. laps' = laps /\ (ClearComes => ClearComes') /\ (Outdated(w) => Outdated(w)')
  BY <1>2, LapsKept, DueKept, OutdatedKept
<1>4. \A m : Current(m)' = Current(m)
  BY <1>3, SameLaps
<1>5. got'[w][n] = v /\ \A m \in Nodes \ {n} : got'[w][m] = got[w][m]
  BY <1>1 DEF GotOK
<1>6. CASE Reads(p)
  BY <1>1, <1>6, ReadOn
<1>7. CASE PageStage(w)
  <2>1. /\ Heats \subseteq Holds(w)'
        /\ \A k \in 1..Len(calls'[w]) : calls'[w][k].held \subseteq Races
    BY <1>2, <1>7, PageKept
  <2>2. \A m \in Rows : \/ got'[w][m] = got[w][m] /\ p[1] # Do("get", m)
                        \/ got'[w][m] = Current(m)
    <3>1. ASSUME NEW m \in Rows, m # n PROVE got'[w][m] = got[w][m] /\ p[1] # Do("get", m)
      BY <1>5, <3>1, DoTypes, ModelTypes
    <3>2. n \in Rows => got'[w][n] = Current(n)
      BY <1>5
    <3> QED
      BY <3>1, <3>2
  <2> QED
    BY <1>1, <1>3, <1>7, <2>1, <2>2, PageOn
<1>8. CASE ResaveStage(w)
  <2>1. PICK r \in Races, l \in 1..17 : Resaves(r, p) /\ Len(p) = l
    BY <1>8 DEF ResaveStage
  <2>2. l \in Nat /\ l \in {17, 16, 9, 6, 4}
    BY <1>1, <2>1, ResavesDo
  <2>3. l > 1 /\ ~(l \in {2, 3})
    BY <2>2
  <2> QED
    BY <1>1, <2>1, <2>2, <2>3, ResaveOn
<1>9. CASE SaveStage(w)
  <2>1. PICK r \in Races, l \in 1..12 : Saves(r, p) /\ Len(p) = l /\ SaveAt(w, r, l)
    BY <1>9 DEF SaveStage
  <2> DEFINE h == HeatOf[r]
  <2>2. /\ l \in Nat /\ l \in {6, 7, 10, 11} /\ (l \in {7, 11} => n = h) /\ (l \in {6, 10} => n = Event)
    BY <1>1, <2>1, SavesDo
  <2>3. l > 1
    BY <2>2
  <2>4. /\ SaveAt(w, r, l - 1)' => Stage(w)'
        /\ prog'[w] # <<>> /\ prog'[w][1].do # "store" /\ prog'[w] = Tail(p)
    BY <1>1, <2>1, <2>2, <2>3, SaveOn
  <2>5. h \in Rows /\ h \in Nodes /\ h # Event /\ h \notin Races /\ Event \in Nodes /\ Event \notin Rows
        /\ Races \subseteq Nodes /\ r # h /\ r # Event
    BY ModelTypes
  <2> HIDE DEF h
  <2>6. CASE l = 11
    <3>1. n = h /\ v = Current(h) /\ GotNone(w, Nodes)
      BY <2>1, <2>2, <2>5, <2>6 DEF SaveAt
    <3>2. GotNone(w, Nodes \ {h})' /\ IsNow(w, h)'
      BY <1>4, <1>5, <3>1 DEF GotNone, IsNow
    <3>3. SaveAt(w, r, 10)'
      BY <2>4, <3>2 DEF SaveAt, h
    <3> QED
      BY <2>4, <2>6, <3>3
  <2>7. CASE l = 10
    <3>1. n = Event /\ (~ClearComes => v = Current(Event)) /\ GotNone(w, Nodes \ {h}) /\ IsNow(w, h)
      BY <2>1, <2>2, <2>7 DEF SaveAt, h
    <3>2. cpu' = w
      BY <2>4
    <3>3. GotNone(w, Nodes \ {h, Event})' /\ IsNow(w, h)'
      BY <1>4, <1>5, <2>5, <3>1 DEF GotNone, IsNow
    <3>4. IsNow(w, Event)' \/ ClearComes'
      BY <1>3, <1>4, <1>5, <3>1 DEF IsNow
    <3>5. SaveAt(w, r, 9)'
      BY <2>4, <3>2, <3>3, <3>4 DEF SaveAt, h
    <3> QED
      BY <2>4, <2>7, <3>5
  <2>8. CASE l = 7
    <3>1. /\ n = h /\ (AddsTo(w, r, Event) \/ Outdated(w))
          /\ got[w][r] = {<<r, 1>>} /\ GotNone(w, Races \ {r})
      BY <2>1, <2>2, <2>8 DEF SaveAt, h
    <3>2. AddsTo(w, r, Event)' \/ Outdated(w)'
      BY <1>3, <1>4, <1>5, <2>5, <3>1 DEF AddsTo
    <3>3. got'[w][r] = {<<r, 1>>} /\ GotNone(w, Races \ {r})'
      BY <1>5, <2>5, <3>1 DEF GotNone
    <3>4. SaveAt(w, r, 6)'
      BY <2>4, <3>2, <3>3 DEF SaveAt
    <3> QED
      BY <2>4, <2>8, <3>4
  <2>9. CASE l = 6
    <3>1. SaveAt(w, r, 5)'
      BY <2>4 DEF SaveAt
    <3> QED
      BY <2>4, <2>9, <3>1
  <2> QED
    BY <2>2, <2>6, <2>7, <2>8, <2>9
<1> QED
  BY <1>1, <1>6, <1>7, <1>8, <1>9, StageOf

\* A step that fetches nothing.
LEMMA PlainStage ==
  ASSUME Structure, TimeHolds, StagesHold, BuildsCurrent, CopiesCurrent, DbCurrent, NEW w \in Workers,
         Step(w), prog[w] # <<>>,
         prog[w][1].do \in {"sleep", "hold", "store", "clearEvent", "invalidate", "keep", "page"},
         got'[w] = got[w], prog' = [prog EXCEPT ![w] = Tail(prog[w])], token' = token
  PROVE  Stage(w)'
<1> DEFINE p == prog[w]
           d == p[1].do
<1>1. ProgsOK /\ p \in Progs /\ Stage(w) /\ Len(p) \in Nat
  BY TypeParts DEF Structure, StagesHold, ProgsOK, Progs
<1>2. ~WriteRace(w) /\ ~RewriteLaps(w) /\ ~ShowPage(w)
  BY <1>1, ClearIs
<1>3. laps' = laps /\ (Outdated(w) => Outdated(w)')
  BY <1>2, LapsKept, OutdatedKept
<1>4. \A m : Current(m)' = Current(m)
  BY <1>3, SameLaps
<1>5. \A S : GotNone(w, S) => GotNone(w, S)'
  BY DEF GotNone
<1>6. CASE d = "page"
  <2>1. p = <<Do("page", Event)>> /\ GotNone(w, Nodes)
    BY <1>1, <1>6, StageOf
  <2>2. prog'[w] = <<>>
    BY <1>1, <2>1, PageFacts DEF ProgsOK
  <2>3. Rests(w)'
    BY <1>5, <2>1, <2>2 DEF Rests
  <2> QED
    BY <2>3 DEF Stage
<1>7. CASE PageStage(w)
  <2>1. /\ Heats \subseteq Holds(w)'
        /\ \A k \in 1..Len(calls'[w]) : calls'[w][k].held \subseteq Races
    BY <1>2, <1>7, PageKept
  <2>2. d \in {"sleep", "keep"}
    BY <1>1, <1>7, PagesDo DEF PageStage
  <2>3. \A m \in Rows : got'[w][m] = got[w][m] /\ p[1] # Do("get", m)
    BY <2>2, DoTypes
  <2> QED
    BY <1>1, <1>3, <1>7, <2>1, <2>2, <2>3, PageOn
<1>8. CASE ResaveStage(w) /\ d # "page"
  <2>1. PICK r \in Races, l \in 1..17 : Resaves(r, p) /\ Len(p) = l /\ (l <= 2 => GotNone(w, Nodes))
    BY <1>8 DEF ResaveStage
  <2>2. l \in Nat /\ l # 1 /\ l # 3
    <3>1. /\ d = "page" <=> l = 1
          /\ d = "drop" <=> l \in {15, 3}
      BY <1>1, <2>1, ResavesDo
    <3> QED
      BY <1>8, <3>1
  <2>3. l > 1 /\ (l \in {2, 3} => GotNone(w, Nodes)')
    BY <1>5, <2>1, <2>2
  <2> QED
    BY <1>1, <2>1, <2>2, <2>3, ResaveOn
<1>9. CASE SaveStage(w) /\ d # "page"
  <2>1. PICK r \in Races, l \in 1..12 : Saves(r, p) /\ Len(p) = l /\ SaveAt(w, r, l)
    BY <1>9 DEF SaveStage
  <2>2. l \in Nat /\ l \in {2, 3, 4, 6, 7, 12}
    <3>1. /\ d = "page" <=> l = 1
          /\ d = "drop" <=> l = 5
          /\ d = "write" <=> l = 9
          /\ d = "recent" <=> l = 8
          /\ l \in {10, 11} => d = "get"
      BY <1>1, <2>1, SavesDo
    <3> QED
      BY <1>9, <3>1
  <2>3. l > 1
    BY <2>2
  <2>4. /\ SaveAt(w, r, l - 1)' => Stage(w)'
        /\ prog'[w] # <<>> /\ prog'[w][1].do # "store" /\ prog'[w] = Tail(p)
    BY <1>1, <2>1, <2>2, <2>3, SaveOn
  <2>5. CASE l = 12
    <3>1. GotNone(w, Nodes)'
      BY <1>5, <2>1, <2>5 DEF SaveAt
    <3>2. SaveAt(w, r, 11)'
      BY <2>4, <3>1 DEF SaveAt
    <3> QED
      BY <2>4, <2>5, <3>2
  <2>6. CASE l = 7
    <3>1. (AddsTo(w, r, Event) \/ Outdated(w)) /\ got[w][r] = {<<r, 1>>} /\ GotNone(w, Races \ {r})
      BY <2>1, <2>6 DEF SaveAt
    <3>2. AddsTo(w, r, Event)' \/ Outdated(w)'
      BY <1>3, <1>4, <3>1 DEF AddsTo
    <3>3. got'[w][r] = {<<r, 1>>} /\ GotNone(w, Races \ {r})'
      BY <1>5, <3>1
    <3>4. SaveAt(w, r, 6)'
      BY <2>4, <3>2, <3>3 DEF SaveAt
    <3> QED
      BY <2>4, <2>6, <3>4
  <2>7. CASE l = 6
    <3>1. SaveAt(w, r, 5)'
      BY <2>4 DEF SaveAt
    <3> QED
      BY <2>4, <2>7, <3>1
  <2>8. CASE l \in {2, 3, 4}
    <3>1. GotNone(w, Nodes)'
      BY <1>5, <2>1, <2>8 DEF SaveAt
    <3>2. SaveAt(w, r, 1)' /\ SaveAt(w, r, 2)' /\ SaveAt(w, r, 3)'
      BY <2>4, <3>1 DEF SaveAt
    <3>3. l - 1 = 1 \/ l - 1 = 2 \/ l - 1 = 3
      BY <2>8
    <3> QED
      BY <2>4, <3>2, <3>3
  <2> QED
    BY <2>2, <2>5, <2>6, <2>7, <2>8
<1> HIDE DEF d
<1>10. \/ d = "page" \/ SaveStage(w) \/ ResaveStage(w) \/ PageStage(w)
  BY <1>1, StageOf DEF d
<1> QED
  BY <1>6, <1>7, <1>8, <1>9, <1>10

LEMMA DropStage ==
  ASSUME Structure, StagesHold, NEW w \in Workers, Drop(w)
  PROVE  Stage(w)'
<1> DEFINE p == prog[w]
<1>1. /\ ProgsOK /\ p \in Progs /\ Stage(w) /\ Len(p) \in Nat /\ p # <<>> /\ p[1].do = "drop"
      /\ prog' = [prog EXCEPT ![w] = Tail(p)] /\ got' = [got EXCEPT ![w] = [n \in Nodes |-> {}]]
      /\ GotOK
  BY TypeParts, OnFacts DEF Structure, StagesHold, ProgsOK, Progs, Drop, Continue, Proceed
<1>2. GotNone(w, Nodes)'
  BY <1>1 DEF GotNone, GotOK
<1>3. CASE Reads(p)
  BY <1>1, <1>2, <1>3, ReadOn
<1>4. CASE ResaveStage(w)
  <2>1. PICK r \in Races, l \in 1..17 : Resaves(r, p) /\ Len(p) = l
    BY <1>4 DEF ResaveStage
  <2>2. l \in Nat /\ l \in {15, 3}
    BY <1>1, <2>1, ResavesDo
  <2>3. l > 1
    BY <2>2
  <2> QED
    BY <1>1, <1>2, <2>1, <2>2, <2>3, ResaveOn
<1>5. CASE SaveStage(w)
  <2>1. PICK r \in Races, l \in 1..12 : Saves(r, p) /\ Len(p) = l
    BY <1>5 DEF SaveStage
  <2>2. l \in Nat /\ l = 5
    BY <1>1, <2>1, SavesDo
  <2>3. l > 1
    BY <2>2
  <2>4. SaveAt(w, r, l - 1)' => Stage(w)'
    BY <1>1, <2>1, <2>2, <2>3, SaveOn
  <2>5. prog'[w][1].do # "store"
    BY <1>1, <2>1, <2>2, <2>3, SaveOn
  <2>6. SaveAt(w, r, 4)'
    BY <1>2, <2>5 DEF SaveAt
  <2>7. l - 1 = 4
    BY <2>2
  <2> QED
    BY <2>4, <2>6, <2>7
<1> QED
  BY <1>1, <1>3, <1>4, <1>5, StageOf

\* What do_save_actions does with what it fetched.
LEMMA TakeStage ==
  ASSUME Structure, TimeHolds, StagesHold, BuildsCurrent, CopiesCurrent, DbCurrent, NEW w \in Workers,
         Step(w), TakeResult(w)
  PROVE  Stage(w)'
<1> DEFINE p == prog[w]
<1>1. /\ ProgsOK /\ p \in Progs /\ Stage(w) /\ p # <<>> /\ p[1].do = "recent" /\ Arg(w) = p[1].on
      /\ GotOK /\ got[w] \in [Nodes -> Contents]
  BY TypeParts, OnFacts DEF Structure, StagesHold, ProgsOK, Progs, TakeResult, GotOK
<1>2. laps' = laps /\ (Outdated(w) => Outdated(w)')
  <2>1. ~WriteRace(w) /\ ~RewriteLaps(w) /\ token' = token
    BY <1>1, ClearIs DEF TakeResult
  <2> QED
    BY <2>1, LapsKept, OutdatedKept
<1>3. \A m : Current(m)' = Current(m)
  BY <1>2, SameLaps
<1>4. PICK r \in Races, l \in 1..12 : Saves(r, p) /\ Len(p) = l /\ SaveAt(w, r, l)
  BY <1>1, StageOf DEF SaveStage
<1>5. l \in Nat /\ l = 8 /\ p[1].on = r
  BY <1>1, <1>4, SavesDo
<1>6. l > 1
  BY <1>5
<1>7. prog' = [prog EXCEPT ![w] = Tail(p)] /\ got' = [got EXCEPT ![w][r] = {<<r, 1>>}]
  BY <1>1, <1>5 DEF TakeResult, Proceed
<1>8. (SaveAt(w, r, l - 1)' => Stage(w)') /\ prog'[w][1].do # "store"
  BY <1>1, <1>4, <1>5, <1>6, <1>7, SaveOn
<1> DEFINE h == HeatOf[r]
<1>9. h \in Nodes /\ Event \in Nodes /\ r \in Nodes /\ h \notin Races /\ Event \notin Races /\ Races \subseteq Nodes
  BY ModelTypes
<1>10. GotNone(w, Nodes \ {h, Event}) /\ AddsTo(w, r, h) /\ (AddsTo(w, r, Event) \/ Outdated(w))
  BY <1>4, <1>5 DEF SaveAt
<1> HIDE DEF h
<1>11. got'[w][r] = {<<r, 1>>} /\ \A m \in Nodes \ {r} : got'[w][m] = got[w][m]
  BY <1>1, <1>7, <1>9 DEF GotOK
<1>12. AddsTo(w, r, h)' /\ (AddsTo(w, r, Event)' \/ Outdated(w)')
  BY <1>2, <1>3, <1>9, <1>10, <1>11 DEF AddsTo
<1>13. GotNone(w, Races \ {r})'
  BY <1>9, <1>10, <1>11 DEF GotNone
<1>14. SaveAt(w, r, 7)'
  BY <1>8, <1>11, <1>12, <1>13 DEF SaveAt, h
<1> QED
  BY <1>5, <1>8, <1>14

LEMMA PutStage ==
  ASSUME Structure, TimeHolds, StagesHold, BuildsCurrent, CopiesCurrent, DbCurrent, NEW w \in Workers,
         Step(w), PutResult(w)
  PROVE  Stage(w)'
<1> DEFINE p == prog[w]
           n == p[1].on
           i == IF got[w][n] = {} THEN "get" ELSE "store"
           q == <<Do(i, n)>> \o Tail(p)
<1>1. /\ ProgsOK /\ p \in Progs /\ Stage(w) /\ p # <<>> /\ p[1].do = "put" /\ Arg(w) = n
  BY TypeParts, OnFacts DEF Structure, StagesHold, ProgsOK, Progs, PutResult
<1>2. laps' = laps /\ (Outdated(w) => Outdated(w)')
  <2>1. ~WriteRace(w) /\ ~RewriteLaps(w) /\ token' = token
    BY <1>1, ClearIs DEF PutResult
  <2> QED
    BY <2>1, LapsKept, OutdatedKept
<1>3. PICK r \in Races, l \in 1..12 : Saves(r, p) /\ Len(p) = l /\ SaveAt(w, r, l)
  BY <1>1, StageOf DEF SaveStage
<1>4. l \in Nat /\ l \in {6, 7}
  BY <1>1, <1>3, SavesDo
<1>5. prog' = [prog EXCEPT ![w] = q] /\ got' = got
  BY <1>1 DEF PutResult, Proceed
<1>6. i \in {"get", "store"} /\ (i = "store" => got[w][n] # {})
  OBVIOUS
<1> HIDE DEF i
<1>7. Saves(r, q) /\ Len(q) = l /\ q[1] = Do(i, n)
  BY <1>1, <1>3, <1>4, <1>6, SavesPut
<1> HIDE DEF q
<1>8. prog'[w] = q /\ q[1].do = i /\ q[1].on = n
  BY <1>1, <1>5, <1>7, DoTypes DEF ProgsOK
<1>9. SaveAt(w, r, l)'
  <2>1. l \notin {8, 9} /\ (prog'[w][1].do = "store" => got[w][prog'[w][1].on] # {})
    BY <1>4, <1>6, <1>8
  <2> QED
    BY <1>2, <1>3, <1>5, <2>1, SaveAtKept
<1>10. SaveStage(w)'
  BY <1>7, <1>8, <1>9 DEF SaveStage
<1> QED
  BY <1>10 DEF Stage

LEMMA WriteStage ==
  ASSUME Structure, StagesHold, NEW w \in Workers, Step(w), WriteRace(w)
  PROVE  Stage(w)'
<1> DEFINE p == prog[w]
<1>1. /\ ProgsOK /\ FormsHold /\ StoredOK /\ p \in Progs /\ Stage(w) /\ p # <<>> /\ p[1].do = "write"
      /\ Arg(w) = p[1].on
  BY TypeParts, OnFacts DEF Structure, StagesHold, ProgsOK, Progs, WriteRace
<1>2. prog' = [prog EXCEPT ![w] = Tail(p)] /\ got' = got
  BY <1>1, WriteRaceFacts
<1>3. cpu' = IF Tail(p) = <<>> THEN Free ELSE w
  BY DEF WriteRace, Continue, Proceed
<1>4. PICK r \in Races, l \in 1..12 : Saves(r, p) /\ Len(p) = l /\ SaveAt(w, r, l)
  BY <1>1, StageOf DEF SaveStage
<1>5. l \in Nat /\ l = 9 /\ Arg(w) = r
  BY <1>1, <1>4, SavesDo
<1>6. l > 1 /\ l - 1 = 8
  BY <1>5
<1>7. (SaveAt(w, r, l - 1)' => Stage(w)') /\ prog'[w] # <<>> /\ prog'[w][1].do # "store" /\ prog'[w] = Tail(p)
  BY <1>1, <1>2, <1>4, <1>5, <1>6, SaveOn
<1> DEFINE h == HeatOf[r]
<1>8. /\ GotNone(w, Nodes \ {h, Event}) /\ IsNow(w, h) /\ (IsNow(w, Event) \/ ClearComes)
  BY <1>4, <1>5 DEF SaveAt
<1>9. /\ Current(h)' = Current(h) \cup {<<r, 1>>}
      /\ Current(Event)' = Current(Event) \cup {<<r, 1>>}
  <2>1. PICK k \in 1..MaxVersion : laps' = [laps EXCEPT ![r] = k] /\ laps[r] = 0 /\ k = 1
    BY <1>5, WritersLaps
  <2> QED
    BY <1>1, <2>1, LapsWritten
<1>10. ClearComes => ClearComes'
  BY <1>1, ClearIs, DueKept
<1> HIDE DEF h
<1>11. AddsTo(w, r, h)' /\ (AddsTo(w, r, Event)' \/ ClearComes')
  BY <1>2, <1>8, <1>9, <1>10 DEF AddsTo, IsNow
<1>12. cpu' = w /\ GotNone(w, Nodes \ {h, Event})'
  BY <1>2, <1>3, <1>7, <1>8 DEF GotNone
<1>13. SaveAt(w, r, 8)'
  BY <1>7, <1>11, <1>12 DEF SaveAt, Outdated, h
<1> QED
  BY <1>6, <1>7, <1>13

LEMMA RewriteStage ==
  ASSUME Structure, StagesHold, NEW w \in Workers, RewriteLaps(w)
  PROVE  Stage(w)'
<1> DEFINE p == prog[w]
<1>1. /\ ProgsOK /\ FormsHold /\ p \in Progs /\ Stage(w) /\ p # <<>> /\ p[1].do = "rewrite"
      /\ prog' = [prog EXCEPT ![w] = Tail(p)]
  BY TypeParts, OnFacts DEF Structure, StagesHold, ProgsOK, Progs, RewriteLaps, Continue, Proceed
<1>2. PICK r \in Races, l \in 1..17 : Resaves(r, p) /\ Len(p) = l
  BY <1>1, StageOf DEF ResaveStage
<1>3. l \in Nat /\ l \in {16, 17}
  BY <1>1, <1>2, ResavesDo
<1>4. l > 1 /\ ~(l \in {2, 3})
  BY <1>3
<1> QED
  BY <1>1, <1>2, <1>3, <1>4, ResaveOn

\* One that starts to build the page holds every heat and is to fetch every result.
LEMMA BuildPageStage ==
  ASSUME Structure, TimeHolds, StagesHold, NEW w \in Workers, BuildPage(w)
  PROVE  Stage(w)'
<1>1. /\ ProgsOK /\ FormsHold /\ CopiesOK /\ prog[w] # <<>> /\ prog[w][1].do = "page" /\ Stage(w)
      /\ calls[w] = <<>>
  BY TypeParts, OnFacts DEF Structure, StagesHold, BuildPage
<1>2. calls' = calls /\ got' = got /\ laps' = laps /\ copies' = Loaded(w, Heats)
  BY DEF BuildPage, stored
<1>3. GotNone(w, Nodes)
  BY <1>1, StageOf
<1>4. PICK q : prog' = [prog EXCEPT ![w] = q] /\ Pages(q) /\ \A h \in Heats : Has(q, "pageHeat", h)
  BY <1>1, BuildPageProg
<1>5. prog'[w] = q
  BY <1>1, <1>4 DEF ProgsOK
<1>6. \A h \in Heats : h \in Rows /\ copies'[w][h] # NoRow
  <2>1. \A h \in Heats : h \in Rows /\ copies'[w][h] = View(w, h)
    BY <1>1, <1>2, ModelTypes, LoadedIs
  <2>2. \A h \in Heats : View(w, h).ver # 0
    BY <2>1, ViewIs DEF TimeHolds
  <2>3. NoRow.ver = 0
    BY DEF NoRow
  <2> QED
    BY <2>1, <2>2, <2>3
<1>7. Heats \subseteq Holds(w)'
  BY <1>6 DEF Holds
<1>8. \A k \in 1..Len(calls'[w]) : calls'[w][k].held \subseteq Races
  <2>1. calls'[w] = <<>>
    BY <1>1, <1>2
  <2>2. Len(<<>>) = 0
    OBVIOUS
  <2> QED
    BY <2>1, <2>2
<1>9. \A n \in Rows : got'[w][n] = {} /\ Awaits(q, n)
  <2>1. \A n \in Rows : n \in Nodes /\ (IF n \in Races THEN HeatOf[n] ELSE n) \in Heats
    BY ModelTypes DEF Rows
  <2> QED
    BY <1>2, <1>3, <1>4, <2>1 DEF GotNone, Awaits
<1>10. PageHolds(w)'
  BY <1>5, <1>7, <1>8, <1>9 DEF PageHolds
<1>11. PageStage(w)'
  BY <1>4, <1>5, <1>10 DEF PageStage
<1> QED
  BY <1>11 DEF Stage

\* The results of the races of a heat are to be fetched, or the heat has none.
LEMMA PageHeatStage ==
  ASSUME Structure, TimeHolds, StagesHold, NEW w \in Workers, Step(w), PageHeat(w)
  PROVE  Stage(w)'
<1> DEFINE p == prog[w]
<1>1. /\ ProgsOK /\ FormsHold /\ StoredOK /\ p \in Progs /\ p # <<>> /\ p[1].do = "pageHeat" /\ Stage(w)
      /\ Arg(w) = p[1].on
  BY TypeParts, OnFacts DEF Structure, StagesHold, PageHeat
<1>2. got' = got /\ laps' = laps
  BY DEF PageHeat, stored
<1>3. PageStage(w) /\ ~ShowPage(w)
  BY <1>1, StageOf, ClearIs
<1>4. /\ Heats \subseteq Holds(w)'
      /\ \A k \in 1..Len(calls'[w]) : calls'[w][k].held \subseteq Races
  BY <1>3, PageKept
<1>5. PICK h \in Heats : h = Arg(w)
  BY PageHeatProg, <1>1
<1>6. PICK q : /\ prog' = [prog EXCEPT ![w] = q] /\ Pages(q)
               /\ \A i, n : Has(Tail(p), i, n) => Has(q, i, n)
               /\ \A r \in RacesOf(h) : Has(q, "get", r)
               /\ RacesOf(h) # {} => Has(q, "get", h)
  BY <1>1, <1>5, PageHeatProg
<1>7. prog'[w] = q
  BY <1>1, <1>6 DEF ProgsOK
<1>8. \A n : Current(n)' = Current(n)
  BY <1>2, SameLaps
<1>9. /\ \A n : Has(p, "get", n) => Has(q, "get", n)
      /\ \A n : Has(p, "pageHeat", n) /\ n # h => Has(q, "pageHeat", n)
  <2>1. \A n : p[1] # Do("get", n) /\ (n # h => p[1] # Do("pageHeat", n))
    BY <1>1, <1>5, DoTypes
  <2>2. \A i, n : Has(p, i, n) /\ p[1] # Do(i, n) => Has(Tail(p), i, n)
    BY <1>1, RangeCut DEF Has
  <2> QED
    BY <1>6, <2>1, <2>2
<1>10. ASSUME NEW n \in Rows
       PROVE  got'[w][n] = Current(n)' \/ (got'[w][n] = {} /\ Awaits(q, n))
  <2>1. got[w][n] = Current(n) \/ (got[w][n] = {} /\ Awaits(p, n))
    BY <1>3 DEF PageStage, PageHolds
  <2>2. CASE got[w][n] = {} /\ n \in Races /\ HeatOf[n] = h
    <3>1. n \in RacesOf(h) => Awaits(q, n)
      BY <1>6 DEF Awaits
    <3>2. n \notin RacesOf(h) => Current(n) = {}
      BY <1>1, <2>2, CurrentFacts
    <3> QED
      BY <1>2, <1>8, <2>2, <3>1, <3>2
  <2>3. CASE got[w][n] = {} /\ n = h
    <3>1. RacesOf(h) # {} => Awaits(q, n)
      BY <1>6, <2>3 DEF Awaits
    <3>2. RacesOf(h) = {} => Current(n) = {}
      BY <1>1, <2>3, CurrentFacts
    <3> QED
      BY <1>2, <1>8, <2>3, <3>1, <3>2
  <2>4. CASE got[w][n] = {} /\ Awaits(p, n) /\ n # h /\ ~(n \in Races /\ HeatOf[n] = h)
    <3>1. Awaits(q, n)
      BY <1>9, <2>4 DEF Awaits
    <3> QED
      BY <1>2, <2>4, <3>1
  <2> QED
    BY <1>2, <1>8, <2>1, <2>2, <2>3, <2>4
<1>11. PageHolds(w)'
  BY <1>4, <1>7, <1>10 DEF PageHolds
<1>12. PageStage(w)'
  BY <1>6, <1>7, <1>11 DEF PageStage
<1> QED
  BY <1>12 DEF Stage

LEMMA ShowStage ==
  ASSUME Structure, StagesHold, NEW w \in Workers, ShowPage(w)
  PROVE  Stage(w)'
<1> DEFINE p == prog[w]
<1>1. /\ ProgsOK /\ p \in Progs /\ Stage(w) /\ Len(p) \in Nat /\ p # <<>> /\ p[1].do = "show"
      /\ prog' = [prog EXCEPT ![w] = Tail(p)] /\ got' = [got EXCEPT ![w] = [n \in Nodes |-> {}]]
      /\ GotOK
  BY TypeParts, OnFacts DEF Structure, StagesHold, ProgsOK, Progs, ShowPage, Continue, Proceed
<1>2. GotNone(w, Nodes)'
  BY <1>1 DEF GotNone, GotOK
<1>3. Pages(p)
  BY <1>1, StageOf DEF PageStage
<1>4. Tail(p) = <<>>
  <2> DEFINE l == Len(p)
  <2>1. l \in Nat /\ Len(p) = l
    BY <1>1
  <2> HIDE DEF l
  <2>2. l = 1
    BY <1>1, <1>3, <2>1, PagesDo
  <2> QED
    BY <1>1, <1>3, <2>1, <2>2, PagesTail
<1>5. prog'[w] = <<>>
  BY <1>1, <1>4 DEF ProgsOK
<1>6. Rests(w)'
  BY <1>2, <1>5 DEF Rests
<1> QED
  BY <1>6 DEF Stage

\* A call returns: to the request, or to the build that asked for it.
LEMMA ReturnStage ==
  ASSUME Structure, TimeHolds, StagesHold, BuildsCurrent, CopiesCurrent, DbCurrent, NEW w \in Workers,
         Step(w), Hit(w) \/ Finish(w), NEW stack \in Seq(Builds), NEW n \in Nodes, NEW v,
         prog[w] # <<>>, prog[w][1].do = "get", Return(w, stack, n, v),
         stack = <<>> => prog[w][1].on = n, n \in Rows \/ ~ClearComes => v = Current(n)
  PROVE  Stage(w)'
<1>1. /\ ProgsOK /\ CallsOK /\ GotOK
      /\ ~WriteRace(w) /\ ~RewriteLaps(w) /\ ~ShowPage(w)
  BY TypeParts, ClearIs DEF Structure
<1>2. token' = token
  BY DEF Hit, Finish
<1>3. \/ /\ stack = <<>> /\ got' = [got EXCEPT ![w][n] = v]
         /\ prog' = [prog EXCEPT ![w] = Tail(prog[w])]
         /\ cpu' = IF Tail(prog[w]) = <<>> THEN Free ELSE w
      \/ got' = got /\ prog' = prog
  BY <1>1, ReturnIs
<1>4. CASE got' = got /\ prog' = prog
  BY <1>1, <1>2, <1>4, SelfSame
<1>5. CASE /\ stack = <<>> /\ got' = [got EXCEPT ![w][n] = v]
           /\ prog' = [prog EXCEPT ![w] = Tail(prog[w])]
           /\ cpu' = IF Tail(prog[w]) = <<>> THEN Free ELSE w
  BY <1>2, <1>5, FetchedStage
<1> QED
  BY <1>3, <1>4, <1>5

LEMMA SelfStage ==
  ASSUME Structure, TimeHolds, StagesHold, BuildsCurrent, AskersHold, CopiesCurrent, DbCurrent,
         NEW w \in Workers, Step(w)
  PROVE  Stage(w)'
<1>1. /\ TypeOK /\ StoredOK /\ ProgsOK /\ CallsOK /\ GotOK /\ CallsHold /\ StackHolds(w)
      /\ Stacked(calls[w]) /\ calls[w] \in Seq(Builds)
  BY TypeParts DEF Structure, CallsHold, StackHolds, CallsOK
<1> DEFINE d == prog[w][1].do
<1>2. CASE Hit(w)
  <2> DEFINE n == Asked(w)
             v == IF NoRaces(n) THEN {} ELSE View(w, n).res
  <2>1. /\ n \in Nodes /\ Return(w, calls[w], n, v)
        /\ prog[w] # <<>> /\ d = "get" /\ (calls[w] = <<>> => prog[w][1].on = n)
    BY <1>1, <1>2, HitFacts
  <2>2. n \in Rows \/ ~ClearComes => v = Current(n)
    BY <1>2, HitCurrent
  <2>3. \E stack \in Seq(Builds), m \in Nodes : \E c :
          /\ Return(w, stack, m, c) /\ (stack = <<>> => prog[w][1].on = m)
          /\ m \in Rows \/ ~ClearComes => c = Current(m)
    BY <1>1, <2>1, <2>2
  <2> QED
    BY <1>2, <2>1, <2>3, ReturnStage
<1>3. CASE Finish(w)
  <2> DEFINE b == calls[w][1]
             t == Tail(calls[w])
  <2>1. /\ b \in Builds /\ CallHolds(b) /\ b.at \in {"read", "rank"} /\ calls[w] # <<>>
        /\ Return(w, t, b.node, b.acc) /\ t \in Seq(Builds) /\ b.node \in Nodes
        /\ prog[w] # <<>> /\ d = "get"
    BY <1>1, <1>3, FinishFacts
  <2>2. BuildCurrent(b)
    <3>1. Len(calls[w]) \in Nat \ {0}
      BY <1>1, <2>1, CallsCut
    <3>2. 1 \in 1..Len(calls[w])
      BY <3>1
    <3> QED
      BY <3>2 DEF BuildsCurrent, BuildsAre
  <2>3. b.acc = Current(b.node)
    BY <2>1, <2>2, FinishedCurrent
  <2>4. t = <<>> => prog[w][1].on = b.node
    BY <1>1, <2>1, OutermostIs DEF AskersHold
  <2>5. \E stack \in Seq(Builds), m \in Nodes : \E c :
          /\ Return(w, stack, m, c) /\ (stack = <<>> => prog[w][1].on = m)
          /\ m \in Rows \/ ~ClearComes => c = Current(m)
    BY <2>1, <2>3, <2>4
  <2> QED
    BY <1>3, <2>1, <2>5, ReturnStage
<1>4. CASE Miss(w) \/ StartCalc(w) \/ WaitForCalc(w) \/ ReadLaps(w) \/ Rank(w) \/ WaitForPage(w)
  <2>1. prog' = prog /\ got' = got /\ token' = token
    BY <1>4 DEF Miss, StartCalc, WaitForCalc, ReadLaps, Rank, BuildOn, WaitForPage, local
  <2>2. d \in {"get", "page"}
    <3>1. Miss(w) => d = "get"
      BY <1>1, AskedFacts DEF Miss
    <3>2. WaitForPage(w) => d = "page"
      BY <1>1, ClearIs
    <3>3. StartCalc(w) \/ WaitForCalc(w) \/ ReadLaps(w) \/ Rank(w) => d = "get"
      BY <1>1 DEF StartCalc, WaitForCalc, ReadLaps, Rank, Building, StackHolds
    <3> QED
      BY <1>4, <3>1, <3>2, <3>3
  <2>3. ~WriteRace(w) /\ ~RewriteLaps(w) /\ ~ShowPage(w)
    BY <1>1, <2>2, ClearIs
  <2> QED
    BY <2>1, <2>2, <2>3, SelfSame
<1>5. CASE \/ Sleep(w) \/ Hold(w) \/ StoreResult(w) \/ ClearEvent(w) \/ Invalidate(w)
           \/ Keep(w) \/ GetPage(w)
  <2>1. /\ prog[w] # <<>> /\ d \in {"sleep", "hold", "store", "clearEvent", "invalidate", "keep", "page"}
    BY <1>1, <1>5, OnFacts DEF Sleep, Hold, StoreResult, ClearEvent, Invalidate, Keep, GetPage
  <2>2. got' = got /\ prog' = [prog EXCEPT ![w] = Tail(prog[w])] /\ token' = token
    BY <1>5 DEF Sleep, Hold, StoreResult, ClearEvent, Invalidate, Keep, GetPage, Continue, Proceed
  <2> QED
    BY <2>1, <2>2, PlainStage
<1>6. CASE Drop(w)
  BY <1>6, DropStage
<1>7. CASE TakeResult(w)
  BY <1>7, TakeStage
<1>8. CASE PutResult(w)
  BY <1>8, PutStage
<1>9. CASE WriteRace(w)
  BY <1>9, WriteStage
<1>10. CASE RewriteLaps(w)
  BY <1>10, RewriteStage
<1>11. CASE BuildPage(w)
  BY <1>11, BuildPageStage
<1>12. CASE PageHeat(w)
  BY <1>12, PageHeatStage
<1>13. CASE ShowPage(w)
  BY <1>13, ShowStage
<1> QED
  BY Zenon, <1>2, <1>3, <1>4, <1>5, <1>6, <1>7, <1>8, <1>9, <1>10, <1>11, <1>12, <1>13 DEF Step

-----------------------------------------------------------------------------
(* Every step keeps results current.                                       *)

LEMMA CleanStep ==
  ASSUME NEW w \in Workers, Step(w), clean'
  PROVE  clean /\ (WriteRace(w) \/ RewriteLaps(w) => Alone(w))
BY DEF Step, Hit, Miss, StartCalc, WaitForCalc, ReadLaps, Rank, Finish, BuildOn,
      Sleep, Hold, Drop, WriteRace, RewriteLaps, TakeResult, PutResult, StoreResult,
      ClearEvent, Invalidate, GetPage, WaitForPage, BuildPage, PageHeat, Keep, ShowPage

LEMMA TruthStep ==
  ASSUME Structure, Truth, NEW w \in Workers, Step(w), clean'
  PROVE  Truth'
<1>1. /\ TimeHolds /\ StagesHold /\ BuildsCurrent /\ AskersHold
      /\ CopiesCurrent /\ DbCurrent /\ ShownCurrent
  BY DEF Truth
<1>2. TimeHolds' /\ AskersHold' /\ Stage(w)'
  BY <1>1, TimeStep, AskersStep, SelfStage
<1>3. CASE ~WriteRace(w) /\ ~RewriteLaps(w)
  <2>1. laps' = laps
    BY <1>3, LapsKept
  <2>2. \A v \in Workers : v # w => Stage(v)'
    BY <1>1, <1>3, OthersStage
  <2>3. StagesHold'
    BY <1>2, <2>2 DEF StagesHold
  <2>4. CopiesCurrent' /\ DbCurrent'
    BY <1>1, <1>3, RowsStep
  <2>5. BuildsCurrent' /\ ShownCurrent'
    BY <1>1, <2>1, BuildsStep, ShownStep
  <2> QED
    BY <1>2, <2>3, <2>4, <2>5 DEF Truth
<1>4. CASE WriteRace(w) \/ RewriteLaps(w)
  <2>1. Alone(w)
    BY <1>4, CleanStep
  <2>2. \A v \in Workers : v # w => Stage(v)'
    BY <1>1, <1>4, <2>1, OthersWritten
  <2>3. StagesHold'
    BY <1>2, <2>2 DEF StagesHold
  <2>4. CopiesCurrent' /\ DbCurrent' /\ BuildsCurrent' /\ ShownCurrent'
    BY <1>1, <1>4, <2>1, WritersTruth
  <2> QED
    BY <1>2, <2>3, <2>4 DEF Truth
<1> QED
  BY <1>3, <1>4

\* What depends on the results alone stays as it is while none is written or fetched.
LEMMA ResultsKept ==
  ASSUME Truth, UNCHANGED <<laps, db, now, page, copies, calls, token>>,
         ClearComes => ClearComes', PageComes => PageComes'
  PROVE  TimeHolds' /\ BuildsCurrent' /\ CopiesCurrent' /\ DbCurrent' /\ ShownCurrent'
<1>1. /\ \A n : Current(n)' = Current(n)
      /\ \A b : BuildCurrent(b)' <=> BuildCurrent(b)
  BY SameLaps
<1>2. TimeHolds'
  BY DEF Truth, TimeHolds
<1>3. BuildsCurrent'
  BY <1>1 DEF Truth, BuildsCurrent, BuildsAre
<1>4. \A v \in Workers : Holds(v)' = Holds(v)
  BY DEF Holds
<1>5. \A v \in Workers : CopiesAre(v)'
  BY <1>1, <1>4 DEF Truth, CopiesCurrent, CopiesAre
<1>6. \A n : Shows(n)' <=> Shows(n)
  BY <1>1 DEF Shows
<1>7. DbCurrent'
  BY <1>6 DEF Truth, DbCurrent
<1>8. ShownCurrent'
  BY <1>1 DEF Truth, ShownCurrent
<1> QED
  BY <1>2, <1>3, <1>5, <1>7, <1>8 DEF CopiesCurrent

\* The first step of what a request starts has fetched nothing.
LEMMA StartStage ==
  ASSUME ProgsOK, NEW w \in Workers, NEW p \in Progs, Starts(w, p), prog' = [prog EXCEPT ![w] = p],
         GotNone(w, Nodes)'
  PROVE  Stage(w)'
<1>1. prog'[w] = p /\ Len(p) \in Nat
  BY DEF ProgsOK, Progs
<1>2. CASE Reads(p)
  BY <1>1, <1>2 DEF Stage
<1>3. CASE p = <<Do("page", Event)>>
  BY <1>1, <1>3 DEF Stage, Rests
<1>4. ASSUME NEW r \in Races, Saves(r, p), Len(p) = 12
      PROVE  Stage(w)'
  <2>1. p[1] = Do("hold", HeatOf[r])
    BY <1>1, <1>4, SavesHead
  <2>2. p[1].do # "store"
    BY <2>1, DoTypes
  <2>3. SaveAt(w, r, 12)'
    BY <1>1, <2>2 DEF SaveAt
  <2>4. SaveStage(w)'
    BY <1>1, <1>4, <2>3 DEF SaveStage
  <2> QED
    BY <2>4 DEF Stage
<1>5. ASSUME NEW r \in Races, Resaves(r, p), Len(p) \in {16, 17}
      PROVE  Stage(w)'
  <2>1. PICK l \in {16, 17} : Len(p) = l
    BY <1>5
  <2>2. l \in 1..17 /\ ~(l <= 2)
    BY <2>1
  <2>3. ResaveStage(w)'
    BY <1>1, <1>5, <2>1, <2>2 DEF ResaveStage
  <2> QED
    BY <2>3 DEF Stage
<1> QED
  BY <1>2, <1>3, <1>4, <1>5 DEF Starts

LEMMA NothingStaged ==
  ASSUME NEW w \in Workers, Stage(w), prog[w] = <<>>
  PROVE  GotNone(w, Nodes)
<1>1. <<>> \in Progs /\ Len(<<>>) = 0
  BY DEF Progs
<1>2. ~Reads(<<>>) /\ ~Pages(<<>>) /\ \A r \in Races : ~Saves(r, <<>>) /\ ~Resaves(r, <<>>)
  BY <1>1, ReadsFacts DEF Pages, Saves, Resaves
<1> QED
  BY <1>2 DEF Stage, Rests, SaveStage, ResaveStage, PageStage

LEMMA TruthRequest ==
  ASSUME Structure, Truth, NEW w \in Workers, Request(w)
  PROVE  Truth'
<1>1. /\ ProgsOK /\ CallsHold /\ ProgsOK' /\ \A v \in Workers : Stage(v)
      /\ AskersHold
  BY TypeParts, RequestStructure DEF Structure, Truth, StagesHold
<1>2. PICK p \in Progs :
        /\ prog' = [prog EXCEPT ![w] = p] /\ cpu = Free /\ ~Busy(w) /\ Starts(w, p)
        /\ UNCHANGED <<stored, flags, copies, calls, got, token, clean>>
  BY RequestFacts
<1>3. prog[w] = <<>> /\ calls[w] = <<>>
  BY <1>1, <1>2 DEF Busy, CallsHold, StackHolds
<1>4. \A v \in Workers : v # w => prog'[v] = prog[v]
  BY <1>1, <1>2 DEF ProgsOK
<1>5. UNCHANGED <<laps, db, now, page, copies, calls, token, got>>
  BY <1>2 DEF stored, flags
<1>6. \A r \in Races : ~Saves(r, prog[w]) /\ ~Resaves(r, prog[w])
  <2>1. Len(<<>>) = 0
    OBVIOUS
  <2> QED
    BY <1>3, <2>1 DEF Saves, Resaves
<1>7. (ClearComes => ClearComes') /\ (PageComes => PageComes')
  <2>1. ~ClearDue(w) /\ ~PageDue(w)
    BY <1>6 DEF ClearDue, PageDue
  <2>2. \A v \in Workers : v # w => (ClearDue(v) => ClearDue(v)') /\ (PageDue(v) => PageDue(v)')
    BY <1>4 DEF ClearDue, PageDue
  <2> QED
    BY <2>1, <2>2 DEF ClearComes, PageComes
<1>8. TimeHolds' /\ BuildsCurrent' /\ CopiesCurrent' /\ DbCurrent' /\ ShownCurrent'
  BY <1>5, <1>7, ResultsKept
<1>9. ASSUME NEW v \in Workers, v # w
      PROVE  Stage(v)'
  <2>1. Outdated(v) => Outdated(v)'
    BY <1>5, <1>7 DEF Outdated
  <2>2. cpu # v
    BY <1>2, ModelTypes
  <2>3. PageStage(v) => /\ Heats \subseteq Holds(v)'
                        /\ \A k \in 1..Len(calls'[v]) : calls'[v][k].held \subseteq Races
    BY <1>5 DEF PageStage, PageHolds, Holds
  <2> QED
    BY <1>1, <1>4, <1>5, <1>9, <2>1, <2>2, <2>3, StageKept
<1>10. Stage(w)'
  <2>1. GotNone(w, Nodes)
    BY <1>1, <1>3, NothingStaged
  <2>2. GotNone(w, Nodes)'
    BY <1>5, <2>1 DEF GotNone
  <2> QED
    BY <1>1, <1>2, <2>2, StartStage
<1>11. StagesHold'
  BY <1>9, <1>10 DEF StagesHold
<1>12. AskersHold'
  BY <1>1, <1>3, <1>4, <1>5 DEF AskersHold
<1> QED
  BY <1>8, <1>11, <1>12 DEF Truth

LEMMA TruthUnmoved ==
  ASSUME Truth, ProgsOK, UNCHANGED vars
  PROVE  Truth'
<1>1. UNCHANGED <<laps, db, now, page, copies, calls, token, got, prog, cpu>>
  BY DEF vars, stored, flags, local
<1>2. (ClearComes => ClearComes') /\ (PageComes => PageComes')
  BY <1>1 DEF ClearComes, PageComes, ClearDue, PageDue
<1>3. TimeHolds' /\ BuildsCurrent' /\ CopiesCurrent' /\ DbCurrent' /\ ShownCurrent'
  BY <1>1, <1>2, ResultsKept
<1>4. AskersHold'
  BY <1>1 DEF Truth, AskersHold
<1>5. StagesHold'
  <2>1. \A v \in Workers : GotNone(v, Nodes)' <=> GotNone(v, Nodes)
    BY <1>1 DEF GotNone
  <2>2. \A v, r, l : SaveAt(v, r, l)' <=> SaveAt(v, r, l)
    BY <1>1 DEF SaveAt, GotNone, IsNow, AddsTo, Outdated, Current, Saved, RacesOf, ClearComes, ClearDue
  <2>3. \A v : PageHolds(v)' <=> PageHolds(v)
    BY <1>1 DEF PageHolds, Holds, Current, Saved, RacesOf
  <2> QED
    BY <1>1, <2>1, <2>2, <2>3 DEF Truth, StagesHold, Stage, Rests, SaveStage, ResaveStage, PageStage
<1> QED
  BY <1>3, <1>4, <1>5 DEF Truth

LEMMA InitTruth ==
  ASSUME Init
  PROVE  Truth
<1>1. /\ \A w \in Workers : /\ prog[w] = <<>> /\ calls[w] = <<>> /\ token[w] = 0
                            /\ \A n \in Nodes : got[w][n] = {}
                            /\ \A n \in Rows : copies[w][n] = NoRow
      /\ now = 1 /\ laps = [r \in Races |-> IF r \in SavedAtStart THEN 1 ELSE 0]
  BY DEF Init
<1>2. PICK warm \in BOOLEAN :
         /\ \A n \in Nodes :
              db[n] = IF n \in Races \ SavedAtStart THEN NoRow
                      ELSE IF warm THEN Valued(1, Current(n)) ELSE Cleared(1)
         /\ \A n \in Nodes : page.shown[n] = Current(n)
  BY DEF Init, Valued
<1>3. /\ Cleared(1).ver = 1 /\ Cleared(1).built = 0 /\ NoRow.ver = 0 /\ NoRow.built = 0 /\ NoRow.res = {}
      /\ \A c : Valued(1, c).ver = 1 /\ Valued(1, c).res = c
  BY DEF Cleared, NoRow, Valued
<1>4. \A n \in Races \ SavedAtStart : Current(n) = {}
  <2>1. \A n \in Races \ SavedAtStart : n \notin Saved
    BY <1>1 DEF Saved
  <2> QED
    BY <2>1, ModelTypes DEF Current
<1>5. TimeHolds
  <2>1. \A h \in Heats : h \in Nodes /\ h \in Rows /\ h \notin Races
    BY ModelTypes
  <2>2. \A h \in Heats : db[h].ver = 1
    BY <1>2, <1>3, <2>1
  <2> QED
    BY <1>1, <2>1, <2>2 DEF TimeHolds
<1>6. StagesHold
  BY <1>1 DEF StagesHold, Stage, Rests, GotNone
<1>7. BuildsCurrent
  <2>1. Len(<<>>) = 0
    OBVIOUS
  <2>2. ASSUME NEW w \in Workers PROVE BuildsAre(w)
    BY <1>1, <2>1 DEF BuildsAre
  <2> QED
    BY <2>2 DEF BuildsCurrent
<1>8. AskersHold
  BY <1>1 DEF AskersHold
<1>9. CopiesCurrent
  BY <1>1 DEF CopiesCurrent, CopiesAre, Holds
<1>10. ASSUME NEW n \in Nodes PROVE Shows(n)
  <2>1. CASE n \in Races \ SavedAtStart
    BY <1>2, <1>3, <1>4, <2>1 DEF Shows
  <2>2. CASE n \notin Races \ SavedAtStart
    <3>1. db[n] = Valued(1, Current(n)) \/ db[n] = Cleared(1)
      BY <1>2, <2>2
    <3>2. ~Valid(Cleared(1))
      BY <1>3 DEF Valid
    <3> QED
      BY <1>3, <3>1, <3>2 DEF Shows
  <2> QED
    BY <2>1, <2>2
<1>11. DbCurrent /\ ShownCurrent
  BY <1>2, <1>10, ModelTypes DEF DbCurrent, ShownCurrent
<1> QED
  BY <1>5, <1>6, <1>7, <1>8, <1>9, <1>11 DEF Truth

\* Results are current for as long as laps are only written while no other greenlet
\* is in the middle of reading.
Kept == Structure /\ (clean => Truth)

LEMMA KeptInit == Init => Kept
BY InitStructure, InitTruth DEF Kept

LEMMA KeptStep == Kept /\ [Next]_vars => Kept'
<1> SUFFICES ASSUME Structure, clean => Truth, [Next]_vars
             PROVE  Structure' /\ (clean' => Truth')
  BY DEF Kept
<1>1. Structure'
  BY StructureNext
<1>2. ASSUME clean' PROVE Truth'
  <2>1. CASE UNCHANGED vars
    <3>1. ProgsOK
      BY TypeParts DEF Structure
    <3>2. clean
      BY <1>2, <2>1 DEF vars
    <3> QED
      BY <2>1, <3>1, <3>2, TruthUnmoved
  <2>2. ASSUME NEW w \in Workers, Request(w) PROVE Truth'
    <3>1. clean' = clean
      BY <2>2, RequestFacts
    <3> QED
      BY <1>2, <2>2, <3>1, TruthRequest
  <2>3. ASSUME NEW w \in Workers, Step(w) PROVE Truth'
    BY <1>2, <2>3, CleanStep, TruthStep
  <2> QED
    BY <2>1, <2>2, <2>3 DEF Next
<1> QED
  BY <1>1, <1>2

\* As long as laps are only written while nothing else reads, a valid result of a saved
\* race or a heat was computed from the laps as they are now, and so is the event's once
\* the thread that on_resave_laps spawns has cleared it: what the token comparison of
\* set_results_heat, set_results_savedRaceMeta and set_results_event is there for.
THEOREM StoredSafe == Spec => []StoredCurrent
<1>1. Kept => StoredCurrent
  <2> SUFFICES ASSUME Structure, Truth
               PROVE  /\ \A n \in Saved \cup Heats : Shows(n)
                      /\ (\A w \in Workers : Do("clearEvent", Event) \notin Range(prog[w])) => Shows(Event)
    BY DEF Kept, StoredCurrent
  <2>1. \A n \in Saved \cup Heats : Shows(n)
    BY DEF Truth, DbCurrent, Rows, Saved
  <2>2. ASSUME NEW w \in Workers, ClearDue(w) PROVE Do("clearEvent", Event) \in Range(prog[w])
    <3>1. prog[w] \in Progs /\ Len(prog[w]) \in Nat
      BY TypeParts DEF Structure, ProgsOK, Progs
    <3> DEFINE p == prog[w]
               l == Len(p)
    <3>2. PICK r \in Races : Resaves(r, p) /\ l >= 7
      BY <2>2 DEF ClearDue
    <3>3. l \in Nat /\ Len(p) = l
      BY <3>1
    <3> HIDE DEF l
    <3> DEFINE i == l - 6
    <3>4. i \in 1..l /\ l - i < 15 /\ (15 - l) + i = 9
      BY <3>2, <3>3
    <3>5. p[i] = RebuildSteps(r)[(15 - l) + i]
      BY <3>1, <3>2, <3>3, <3>4, ResavesAt
    <3>6. p[i] = Do("clearEvent", Event)
      BY <3>4, <3>5, RebuildStepsAre
    <3> QED
      BY <3>1, <3>3, <3>4, <3>6, InRange
  <2>3. (\A w \in Workers : Do("clearEvent", Event) \notin Range(prog[w])) => Shows(Event)
    BY <2>2 DEF Truth, DbCurrent, ClearComes
  <2> QED
    BY <2>1, <2>3
<1> QED
  BY <1>1, KeptInit, KeptStep, PTL DEF Spec

\* Under the same condition a page that PageCache serves again without a build shows
\* the current results of every race and heat when the server is at rest.
THEOREM PageSafe == Spec => []PageCurrent
<1>1. Kept => PageCurrent
  <2> SUFFICES ASSUME Truth, AtRest, page.valid
               PROVE  \A n \in Rows : page.shown[n] = Current(n)
    BY DEF Kept, PageCurrent
  <2>1. ASSUME NEW w \in Workers PROVE ~PageDue(w)
    <3>1. prog[w] = <<>> /\ Len(<<>>) = 0
      BY DEF AtRest, Busy
    <3>2. \A r \in Races : ~Saves(r, <<>>) /\ ~Resaves(r, <<>>)
      BY <3>1 DEF Saves, Resaves
    <3> QED
      BY <3>1, <3>2 DEF PageDue
  <2> QED
    BY <2>1 DEF Truth, ShownCurrent, PageComes
<1> QED
  BY <1>1, KeptInit, KeptStep, PTL DEF Spec
=============================================================================
