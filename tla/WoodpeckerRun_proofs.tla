------------------------- MODULE WoodpeckerRun_proofs -------------------------
(***************************************************************************)
(* Proofs about the pipelines of a commit in Woodpecker, for any number of *)
(* pipelines and any services, targets, webhooks and faults.               *)
(*                                                                         *)
(* The concurrency groups keep the volume of a target to one rollout       *)
(* between its plan and its apply; what a flow needs has passed before it  *)
(* starts, and what a flow that passed has changed stays.                  *)
(***************************************************************************)
EXTENDS WoodpeckerRun, NaturalLemmas, FiniteSetTheorems, SequenceTheorems, TLAPS

-----------------------------------------------------------------------------
(* Sequences of sequences. *)

\* FlattenSeq appends the sequences one after the other.
LEMMA Flattening ==
  ASSUME NEW S, NEW ss \in Seq(Seq(S)), Len(ss) # 0
  PROVE  \E f : /\ f[1] = ss[1]
                /\ \A i \in 2..Len(ss) : f[i] = f[i - 1] \o ss[i]
                /\ \A i \in 1..Len(ss) : f[i] \in Seq(S)
                /\ FlattenSeq(ss) = f[Len(ss)]
<1> DEFINE Body(g, i) == IF i = 1 THEN ss[i] ELSE g[i - 1] \o ss[i]
           Fits(m, g) == g = [i \in 1..m |-> Body(g, i)]
           Unfit == {m \in Nat : ~\E g : Fits(m, g)}
<1>1. \A m \in Nat : \E g : Fits(m, g)
  <2> SUFFICES ASSUME Unfit # {} PROVE FALSE
    OBVIOUS
  <2>1. PICK m \in Unfit : \A k \in Unfit : m <= k
    BY Least
  <2>2. CASE m = 0
    <3>1. Fits(0, [i \in 1..0 |-> 0])
      OBVIOUS
    <3>. QED
      BY <2>1, <2>2, <3>1
  <2>3. CASE m # 0
    <3>1. m - 1 \in Nat /\ m - 1 \notin Unfit
      <4>1. m \in Nat /\ m - 1 \in Nat /\ ~(m <= m - 1)
        BY <2>3
      <4> HIDE DEF Unfit
      <4>. QED
        BY <2>1, <4>1
    <3>2. PICK g : Fits(m - 1, g)
      BY <3>1
    <3> DEFINE h == [i \in 1..m |-> IF i = m THEN Body(g, i) ELSE g[i]]
    <3>3. \A i \in 1..(m - 1) : g[i] = Body(g, i)
      BY <3>2
    <3>4. \A i \in 1..m : h[i] = Body(h, i)
      <4> SUFFICES ASSUME NEW i \in 1..m PROVE h[i] = Body(h, i)
        OBVIOUS
      <4>1. i # 1 => i - 1 \in 1..m /\ i - 1 # m /\ h[i - 1] = g[i - 1]
        BY <3>1
      <4>2. h[i] = Body(g, i)
        BY <3>1, <3>3
      <4>. QED
        BY <4>1, <4>2
    <3>5. h = [i \in 1..m |-> Body(h, i)]
      <4>1. h = [i \in 1..m |-> h[i]]
        OBVIOUS
      <4> HIDE DEF h
      <4>. QED
        BY <3>4, <4>1
    <3>. QED
      BY <2>1, <3>5
  <2>. QED
    BY <2>2, <2>3
<1> DEFINE f == CHOOSE g : Fits(Len(ss), g)
<1>2. Fits(Len(ss), f)
  <2>1. Len(ss) \in Nat
    OBVIOUS
  <2> HIDE DEF Fits
  <2>. QED
    BY <1>1, <2>1
<1>3. FlattenSeq(ss) = f[Len(ss)]
  BY DEF FlattenSeq
<1> HIDE DEF f
<1>4. \A i \in 1..Len(ss) : f[i] = Body(f, i)
  BY <1>2
<1>5. \A i \in 1..Len(ss) : f[i] \in Seq(S)
  <2> DEFINE Bad == {i \in 1..Len(ss) : f[i] \notin Seq(S)}
  <2> SUFFICES ASSUME Bad # {} PROVE FALSE
    OBVIOUS
  <2>1. Bad \in SUBSET Nat
    OBVIOUS
  <2>2. PICK i \in Bad : \A k \in Bad : i <= k
    <3> HIDE DEF Bad
    <3>. QED
      BY <2>1, Least
  <2>3. ss[i] \in Seq(S) /\ i \in 1..Len(ss)
    OBVIOUS
  <2>4. i # 1 => i - 1 \in 1..Len(ss) /\ f[i - 1] \in Seq(S)
    BY <2>2
  <2>5. CASE i = 1
    BY <1>4, <2>3, <2>5
  <2>6. CASE i # 1
    <3>1. f[i] = f[i - 1] \o ss[i]
      BY <1>4, <2>3, <2>6
    <3>2. \A a, b \in Seq(S) : a \o b \in Seq(S)
      OBVIOUS
    <3>3. f[i] \in Seq(S)
      BY <2>3, <2>4, <2>6, <3>1, <3>2
    <3>. QED
      BY <3>3
  <2>. QED
    BY <2>5, <2>6
<1>6. Len(ss) \in Nat
  OBVIOUS
<1>7. f[1] = ss[1]
  <2>1. 1 \in 1..Len(ss)
    BY <1>6
  <2>. QED
    BY <1>4, <2>1
<1>8. ASSUME NEW i \in 2..Len(ss) PROVE f[i] = f[i - 1] \o ss[i]
  <2>1. i \in 1..Len(ss) /\ i # 1
    BY <1>6
  <2>. QED
    BY <1>4, <2>1
<1>. QED
  BY <1>3, <1>5, <1>7, <1>8

\* What it returns has the elements of its parts.
LEMMA FlattenType ==
  ASSUME NEW S, NEW ss \in Seq(Seq(S))
  PROVE  FlattenSeq(ss) \in Seq(S)
<1>1. CASE Len(ss) = 0
  <2>1. ss = <<>>
    BY <1>1, EmptySeq
  <2>. QED
    BY <1>1, <2>1 DEF FlattenSeq
<1>2. CASE Len(ss) # 0
  <2>1. PICK f : /\ \A i \in 1..Len(ss) : f[i] \in Seq(S)
                 /\ FlattenSeq(ss) = f[Len(ss)]
    BY <1>2, Flattening
  <2>2. Len(ss) \in 1..Len(ss)
    BY <1>2, LenProperties
  <2>. QED
    BY <2>1, <2>2
<1>. QED
  BY <1>1, <1>2

-----------------------------------------------------------------------------
(* The commands of the platform. *)

\* The commands that do one of D.
Commands(D) == [do : D, on : Phase \cup Range(Components) \cup {Nobody}]

\* What comes before the foundation is applied, and what with it and after it.
Early == {"check", "host", "flush", "kolla", "names", "plan-foundation"}
Late  == {"check", "plan-foundation", "foundation"}

LEMMA PhaseNames ==
  Phase = {"validate-platform", "host-preflight", "host-apply", "kolla-prechecks",
           "kolla-deploy", "foundation-plan", "foundation-apply", "smoke"}
<1>1. DOMAIN Phases = 1..8
  BY DEF Phases
<1>2. Phase = {Phases[1], Phases[2], Phases[3], Phases[4], Phases[5], Phases[6], Phases[7],
               Phases[8]}
  BY <1>1 DEF Phase
<1>. QED
  BY <1>2 DEF Phases

LEMMA ComponentType ==
  /\ Len(Components) \in Nat /\ DOMAIN Components = 1..Len(Components)
  /\ \A i \in DOMAIN Components : Components[i] \in Range(Components)
BY ComponentsAssumption, LenProperties DEF Range

LEMMA PlannedType == \A D : "plan-foundation" \in D => Planned \in Seq(Commands(D))
<1> SUFFICES ASSUME NEW D, "plan-foundation" \in D PROVE Planned \in Seq(Commands(D))
  OBVIOUS
<1>1. \A i \in DOMAIN Components : Do("plan-foundation", Components[i]) \in Commands(D)
  BY ComponentType DEF Do, Commands
<1>2. Planned \in [1..Len(Components) -> Commands(D)]
  BY <1>1, ComponentType DEF Planned
<1>. QED
  BY <1>2, ComponentType, SeqDef

LEMMA AppliedType == Applied \in Seq(Commands(Late))
<1> DEFINE pair(i) == <<Do("plan-foundation", Components[i]), Do("foundation", Components[i])>>
           pairs == [i \in DOMAIN Components |-> pair(i)]
<1>1. \A i \in DOMAIN Components : pair(i) \in Seq(Commands(Late))
  <2> SUFFICES ASSUME NEW i \in DOMAIN Components PROVE pair(i) \in Seq(Commands(Late))
    OBVIOUS
  <2>1. /\ Do("plan-foundation", Components[i]) \in Commands(Late)
        /\ Do("foundation", Components[i]) \in Commands(Late)
    BY ComponentType DEF Do, Commands, Late
  <2>. QED
    BY <2>1
<1>2. pairs \in [1..Len(Components) -> Seq(Commands(Late))]
  <2> HIDE DEF pair
  <2>. QED
    BY <1>1, ComponentType
<1>3. pairs \in Seq(Seq(Commands(Late)))
  <2> HIDE DEF pairs
  <2>. QED
    BY <1>2, ComponentType, SeqDef
<1>4. FlattenSeq(pairs) \in Seq(Commands(Late))
  <2> HIDE DEF pairs
  <2>. QED
    BY <1>3, FlattenType
<1>. QED
  BY <1>4 DEF Applied

LEMMA Shorter ==
  \A D, E : D \subseteq E => \A s \in Seq(Commands(D)) : s \in Seq(Commands(E))
<1> SUFFICES ASSUME NEW D, NEW E, D \subseteq E, NEW s \in Seq(Commands(D))
             PROVE  s \in Seq(Commands(E))
  OBVIOUS
<1>1. Commands(D) \subseteq Commands(E)
  BY DEF Commands
<1>. QED
  BY <1>1, SeqMonotonic

\* The commands of every phase but one come early.
LEMMA PhaseCommands ==
  /\ \A ph \in Phase : CommandsOf(ph) \in Seq(Commands(Early \cup Late)) /\ CommandsOf(ph) # <<>>
  /\ \A ph \in Phase \ {"foundation-apply"} : CommandsOf(ph) \in Seq(Commands(Early))
  /\ CommandsOf("foundation-apply") = <<Names>> \o Applied
  /\ CommandsOf("smoke") \in Seq(Commands(Late))
<1>1. Host \in Commands(Early) /\ Flush \in Commands(Early) /\ Kolla \in Commands(Early)
      /\ Names \in Commands(Early)
  BY DEF Host, Flush, Kolla, Names, Do, Commands, Early
<1>2. \A ph \in Phase : Check(ph) \in Commands(Early) /\ Check(ph) \in Commands(Late)
  BY DEF Check, Do, Commands, Early, Late
<1>3. Planned \in Seq(Commands(Early))
  BY PlannedType DEF Early
<1>4. <<Names>> \o Planned \in Seq(Commands(Early)) /\ <<Names>> \o Planned # <<>>
  <2>1. <<Names>> \in Seq(Commands(Early)) /\ <<Names>> # <<>>
    BY <1>1
  <2>. QED
    BY <1>3, <2>1, ConcatProperties, ConcatEqualIffEmpty
<1>5. \A ph \in Phase \ {"foundation-apply"} :
        CommandsOf(ph) \in Seq(Commands(Early)) /\ CommandsOf(ph) # <<>>
  <2> SUFFICES ASSUME NEW ph \in Phase \ {"foundation-apply"}
               PROVE  CommandsOf(ph) \in Seq(Commands(Early)) /\ CommandsOf(ph) # <<>>
    OBVIOUS
  <2>1. CASE ph = "host-apply"
    BY <1>1, <2>1 DEF CommandsOf
  <2>2. CASE ph = "kolla-deploy"
    BY <1>1, <2>2 DEF CommandsOf
  <2>3. CASE ph = "foundation-plan"
    BY <1>4, <2>3 DEF CommandsOf
  <2>4. CASE ph \notin {"host-apply", "kolla-deploy", "foundation-plan"}
    <3>1. CommandsOf(ph) = <<Check(ph)>>
      BY <2>4 DEF CommandsOf
    <3>. QED
      BY <1>2, <3>1
  <2>. QED
    BY <2>1, <2>2, <2>3, <2>4
<1>6. CommandsOf("foundation-apply") = <<Names>> \o Applied
  BY DEF CommandsOf
<1>7. /\ <<Names>> \o Applied \in Seq(Commands(Early \cup Late))
      /\ <<Names>> \o Applied # <<>>
  <2>1. <<Names>> \in Seq(Commands(Early \cup Late)) /\ <<Names>> # <<>>
    BY <1>1 DEF Commands
  <2>2. Applied \in Seq(Commands(Early \cup Late))
    BY AppliedType, Shorter
  <2>. QED
    BY <2>1, <2>2, ConcatProperties, ConcatEqualIffEmpty
<1>8. CommandsOf("smoke") \in Seq(Commands(Late))
  BY <1>2, PhaseNames DEF CommandsOf
<1>9. \A s \in Seq(Commands(Early)) : s \in Seq(Commands(Early \cup Late))
  BY Shorter
<1>. QED
  BY <1>5, <1>6, <1>7, <1>8, <1>9, PhaseNames

\* The commands of all phases, as FlattenSeq appends them.
PartOf(phases, i) == IF Phases[i] \in phases THEN CommandsOf(Phases[i]) ELSE <<>>

LEMMA PartTypes ==
  ASSUME NEW phases
  PROVE  /\ \A i \in 1..8 : PartOf(phases, i) \in Seq(Commands(Early \cup Late))
         /\ \A i \in 1..6 : PartOf(phases, i) \in Seq(Commands(Early))
         /\ PartOf(phases, 7) = <<>> \/ PartOf(phases, 7) = <<Names>> \o Applied
         /\ PartOf(phases, 8) \in Seq(Commands(Late))
<1>1. \A i \in 1..8 : Phases[i] \in Phase
  BY DEF Phases, Phase
<1>2. /\ \A i \in 1..6 : Phases[i] # "foundation-apply"
      /\ Phases[7] = "foundation-apply" /\ Phases[8] = "smoke"
  BY DEF Phases
<1>3. \A S : <<>> \in Seq(S)
  BY EmptySeq
<1>4. ASSUME NEW i \in 1..8 PROVE PartOf(phases, i) \in Seq(Commands(Early \cup Late))
  <2>1. CommandsOf(Phases[i]) \in Seq(Commands(Early \cup Late))
    BY <1>1, PhaseCommands
  <2>2. <<>> \in Seq(Commands(Early \cup Late))
    BY <1>3
  <2>. QED
    BY <2>1, <2>2 DEF PartOf
<1>5. ASSUME NEW i \in 1..6 PROVE PartOf(phases, i) \in Seq(Commands(Early))
  <2>1. Phases[i] \in Phase \ {"foundation-apply"}
    BY <1>1, <1>2
  <2>2. CommandsOf(Phases[i]) \in Seq(Commands(Early))
    BY <2>1, PhaseCommands
  <2>3. <<>> \in Seq(Commands(Early))
    BY <1>3
  <2>. QED
    BY <2>2, <2>3 DEF PartOf
<1>6. PartOf(phases, 7) = <<>> \/ PartOf(phases, 7) = <<Names>> \o Applied
  BY <1>2, PhaseCommands DEF PartOf
<1>7. PartOf(phases, 8) \in Seq(Commands(Late))
  <2>1. CommandsOf("smoke") \in Seq(Commands(Late)) /\ <<>> \in Seq(Commands(Late))
    BY <1>3, PhaseCommands
  <2>. QED
    BY <1>2, <2>1 DEF PartOf
<1>. QED
  BY <1>4, <1>5, <1>6, <1>7

LEMMA PlatformUnfolds ==
  ASSUME NEW phases
  PROVE  \E f : /\ f[1] = PartOf(phases, 1)
                /\ \A i \in 2..8 : f[i] = f[i - 1] \o PartOf(phases, i)
                /\ \A i \in 1..8 : f[i] \in Seq(Commands(Early \cup Late))
                /\ PlatformCommands(phases) = f[8]
<1> DEFINE S == Seq(Commands(Early \cup Late))
           part(i) == PartOf(phases, i)
           n == Len(Phases)
           ss == [i \in 1..n |-> part(i)]
<1>1. n = 8
  BY DEF Phases
<1>2. PlatformCommands(phases) = FlattenSeq(ss)
  BY DEF PlatformCommands, PartOf
<1>3. \A i \in 1..8 : part(i) \in S
  BY PartTypes
<1>4. \A i \in 1..n : ss[i] = part(i)
  OBVIOUS
<1> HIDE DEF n, part, S
<1>5. ss \in Seq(S) /\ Len(ss) = n
  BY <1>1, <1>3
<1> HIDE DEF ss
<1>6. \E f : /\ f[1] = ss[1]
             /\ \A i \in 2..Len(ss) : f[i] = f[i - 1] \o ss[i]
             /\ \A i \in 1..Len(ss) : f[i] \in S
             /\ FlattenSeq(ss) = f[Len(ss)]
  <2>1. ss \in Seq(Seq(Commands(Early \cup Late))) /\ Len(ss) # 0
    BY <1>1, <1>5 DEF S
  <2>. QED
    BY <2>1, Flattening DEF S
<1>7. PICK f : /\ f[1] = ss[1]
               /\ \A i \in 2..8 : f[i] = f[i - 1] \o ss[i]
               /\ \A i \in 1..8 : f[i] \in S
               /\ FlattenSeq(ss) = f[8]
  BY <1>1, <1>5, <1>6
<1>8. f[1] = part(1)
  BY <1>1, <1>4, <1>7
<1>9. ASSUME NEW i \in 2..8 PROVE f[i] = f[i - 1] \o part(i)
  <2>1. ss[i] = part(i)
    BY <1>1, <1>4
  <2>. QED
    BY <1>7, <2>1
<1>10. PlatformCommands(phases) = f[8]
  BY <1>2, <1>7
<1>11. \A i \in 1..8 : f[i] \in S
  BY <1>7
<1>. QED
  BY <1>8, <1>9, <1>10, <1>11 DEF S, part

\* Everything else of the platform comes before the foundation is applied.
LEMMA PlatformParts ==
  ASSUME NEW phases
  PROVE  \E a \in Seq(Commands(Early)), b \in Seq(Commands(Late)) :
           PlatformCommands(phases) = a \o b
<1> DEFINE part(i) == PartOf(phases, i)
           E == Seq(Commands(Early))
           L == Seq(Commands(Late))
           All == Seq(Commands(Early \cup Late))
<1>1. PICK f : /\ f[1] = part(1)
               /\ \A i \in 2..8 : f[i] = f[i - 1] \o part(i)
               /\ PlatformCommands(phases) = f[8]
  BY PlatformUnfolds
<1>2. \A s, t \in E : s \o t \in E
  BY ConcatProperties
<1>3. \A i \in 1..6 : part(i) \in E
  BY PartTypes
<1>4. \A s, t \in L : s \o t \in L
  BY ConcatProperties
<1>5. \A s, t, u \in All : (s \o t) \o u = s \o (t \o u)
  BY ConcatAssociative
<1>6. part(7) = <<>> \/ part(7) = <<Names>> \o Applied
  BY PartTypes
<1>7. part(8) \in L
  BY PartTypes
<1>8. Applied \in L
  BY AppliedType
<1>9. <<Names>> \in E
  BY DEF Names, Do, Commands, Early
<1>10. \A s \in E : s \o <<>> = s /\ s \in All
  BY ConcatEmptySeq, Shorter
<1>11. \A s \in L : s \in All
  BY Shorter
<1>12. \A s, t \in All : s \o t \in All
  BY ConcatProperties
<1> HIDE DEF part, E, L, All
<1>13. f[6] \in E
  <2> DEFINE Bad == {i \in 1..6 : f[i] \notin E}
  <2> SUFFICES ASSUME Bad # {} PROVE FALSE
    OBVIOUS
  <2>1. PICK i \in Bad : \A k \in Bad : i <= k
    <3>1. Bad \in SUBSET Nat
      OBVIOUS
    <3> HIDE DEF Bad
    <3>. QED
      BY <3>1, Least
  <2>2. i # 1
    BY <1>1, <1>3
  <2>3. i \in 2..8 /\ i - 1 \in 1..6 /\ i \in 1..6 /\ ~(i <= i - 1)
    BY <2>2
  <2>4. f[i - 1] \in E
    BY <2>1, <2>3
  <2>5. f[i] = f[i - 1] \o part(i)
    BY <1>1, <2>3
  <2>6. f[i] \in E
    BY <1>2, <1>3, <2>3, <2>4, <2>5
  <2>. QED
    BY <2>6
<1>14. f[7] = f[6] \o part(7)
  BY <1>1
<1>15. f[8] = f[7] \o part(8)
  BY <1>1
<1>16. \E a \in E, b \in L : f[8] = a \o b
  <2>1. CASE part(7) = <<>>
    <3>1. f[7] = f[6]
      BY <1>10, <1>13, <1>14, <2>1
    <3>. QED
      BY <1>7, <1>13, <1>15, <3>1
  <2>2. CASE part(7) = <<Names>> \o Applied
    <3>1. /\ f[6] \in All /\ <<Names>> \in All /\ Applied \in All /\ part(8) \in All
      BY <1>7, <1>8, <1>9, <1>10, <1>11, <1>13
    <3> DEFINE a == f[6] \o <<Names>>
    <3>2. a \in E /\ a \in All
      BY <1>2, <1>9, <1>10, <1>13
    <3>3. f[7] = a \o Applied
      <4>1. (f[6] \o <<Names>>) \o Applied = f[6] \o (<<Names>> \o Applied)
        BY <1>5, <3>1
      <4>2. f[7] = f[6] \o (<<Names>> \o Applied)
        BY <1>14, <2>2
      <4>. QED
        BY <4>1, <4>2
    <3> HIDE DEF a
    <3>4. f[8] = a \o (Applied \o part(8))
      BY <1>5, <1>15, <3>1, <3>2, <3>3
    <3>5. Applied \o part(8) \in L
      BY <1>4, <1>7, <1>8
    <3>. QED
      BY <3>2, <3>4, <3>5
  <2>. QED
    BY <1>6, <2>1, <2>2
<1>. QED
  BY <1>1, <1>16 DEF E, L

LEMMA PlatformOrder ==
  ASSUME NEW phases,
         NEW k \in 1..Len(PlatformCommands(phases)),
         NEW m \in 1..Len(PlatformCommands(phases)),
         PlatformCommands(phases)[k].do = "foundation",
         PlatformCommands(phases)[m].do \in Changing \ {"foundation"}
  PROVE  m < k
<1> DEFINE cs == PlatformCommands(phases)
<1>1. PICK a \in Seq(Commands(Early)), b \in Seq(Commands(Late)) : cs = a \o b
  BY PlatformParts
<1>2. a \in Seq(Commands(Early \cup Late)) /\ b \in Seq(Commands(Early \cup Late))
  BY Shorter
<1>3. /\ Len(a) \in Nat /\ Len(b) \in Nat /\ Len(cs) = Len(a) + Len(b)
      /\ \A i \in 1..(Len(a) + Len(b)) : cs[i] = IF i <= Len(a) THEN a[i] ELSE b[i - Len(a)]
  <2>1. Len(a) \in Nat /\ Len(b) \in Nat
    BY LenProperties
  <2> HIDE DEF cs
  <2>. QED
    BY <1>1, <1>2, <2>1, ConcatProperties
<1>4. \A i \in 1..Len(a) : a[i].do # "foundation"
  <2>1. \A i \in 1..Len(a) : a[i] \in Commands(Early)
    BY ElementOfSeq
  <2>. QED
    BY <2>1 DEF Commands, Early
<1>5. \A i \in 1..Len(b) : b[i].do \notin Changing \ {"foundation"}
  <2>1. \A i \in 1..Len(b) : b[i] \in Commands(Late)
    BY ElementOfSeq
  <2>. QED
    BY <2>1 DEF Commands, Late, Changing
<1> HIDE DEF cs
<1>6. k \in 1..Len(cs) /\ m \in 1..Len(cs)
      /\ cs[k].do = "foundation" /\ cs[m].do \in Changing \ {"foundation"}
  BY DEF cs
<1>7. ~(k <= Len(a))
  BY <1>3, <1>4, <1>6
<1>8. m <= Len(a)
  <2> SUFFICES ASSUME ~(m <= Len(a)) PROVE FALSE
    BY <1>3, <1>6
  <2>1. cs[m] = b[m - Len(a)] /\ m - Len(a) \in 1..Len(b)
    BY <1>3, <1>6
  <2>. QED
    BY <1>5, <1>6, <2>1
<1>. QED
  BY <1>3, <1>6, <1>7, <1>8

LEMMA PlatformType ==
  ASSUME NEW phases
  PROVE  /\ PlatformCommands(phases) \in Seq(Commands(Early \cup Late))
         /\ phases \cap Phase # {} => Len(PlatformCommands(phases)) >= 1
<1> DEFINE All == Seq(Commands(Early \cup Late))
           part(i) == PartOf(phases, i)
<1>1. PICK f : /\ f[1] = part(1)
               /\ \A i \in 2..8 : f[i] = f[i - 1] \o part(i)
               /\ \A i \in 1..8 : f[i] \in All
               /\ PlatformCommands(phases) = f[8]
  BY PlatformUnfolds
<1>2. \A i \in 1..8 : part(i) \in All
  BY PartTypes
<1>3. \A s, t \in All : Len(s \o t) = Len(s) + Len(t)
  BY ConcatProperties
<1>4. \A s \in All : Len(s) \in Nat /\ (s # <<>> => Len(s) >= 1)
  <2> SUFFICES ASSUME NEW s \in All PROVE Len(s) \in Nat /\ (s # <<>> => Len(s) >= 1)
    OBVIOUS
  <2>1. Len(s) \in Nat
    BY LenProperties
  <2>2. Len(s) = 0 => s = <<>>
    BY EmptySeq
  <2>. QED
    BY <2>1, <2>2
<1> HIDE DEF All
<1>5. ASSUME phases \cap Phase # {} PROVE \E i \in 1..8 : part(i) # <<>>
  <2>1. PICK ph \in Phase : ph \in phases
    BY <1>5
  <2>2. PICK i \in 1..8 : Phases[i] = ph
    BY DEF Phase, Phases
  <2>3. part(i) = CommandsOf(ph) /\ CommandsOf(ph) # <<>>
    BY <2>1, <2>2, PhaseCommands DEF PartOf
  <2>. QED
    BY <2>3
<1> HIDE DEF part
<1>6. ASSUME NEW i \in 2..8 PROVE Len(f[i]) = Len(f[i - 1]) + Len(part(i))
  <2>1. f[i - 1] \in All /\ part(i) \in All
    BY <1>1, <1>2
  <2>2. f[i] = f[i - 1] \o part(i)
    BY <1>1
  <2>. QED
    BY <1>3, <2>1, <2>2
<1>7. ASSUME NEW i \in 1..8, part(i) # <<>> PROVE Len(f[i]) >= 1
  <2>1. Len(part(i)) >= 1 /\ Len(part(i)) \in Nat
    BY <1>2, <1>4, <1>7
  <2>2. CASE i = 1
    BY <1>1, <2>1, <2>2
  <2>3. CASE i # 1
    <3>1. i \in 2..8 /\ i - 1 \in 1..8
      BY <2>3
    <3>2. Len(f[i - 1]) \in Nat
      BY <1>1, <1>4, <3>1
    <3>3. Len(f[i]) = Len(f[i - 1]) + Len(part(i))
      BY <1>6, <3>1
    <3>. QED
      BY <2>1, <3>2, <3>3
  <2>. QED
    BY <2>2, <2>3
<1>8. ASSUME NEW j \in 1..8, part(j) # <<>> PROVE Len(f[8]) >= 1
  <2> DEFINE Bad == {i \in j..8 : ~(Len(f[i]) >= 1)}
  <2> SUFFICES ASSUME Bad # {} PROVE FALSE
    OBVIOUS
  <2>1. PICK i \in Bad : \A k \in Bad : i <= k
    <3>1. Bad \in SUBSET Nat
      OBVIOUS
    <3> HIDE DEF Bad
    <3>. QED
      BY <3>1, Least
  <2>2. i # j
    BY <1>7, <1>8
  <2>3. i \in 2..8 /\ i - 1 \in j..8 /\ i - 1 \in 1..8 /\ i \in 1..8 /\ ~(i <= i - 1)
    BY <2>2
  <2>4. Len(f[i - 1]) >= 1
    BY <2>1, <2>3
  <2>5. Len(f[i - 1]) \in Nat /\ Len(part(i)) \in Nat
    BY <1>1, <1>2, <1>4, <2>3
  <2>6. Len(f[i]) = Len(f[i - 1]) + Len(part(i))
    BY <1>6, <2>3
  <2>7. Len(f[i]) >= 1
    BY <2>4, <2>5, <2>6
  <2>. QED
    BY <2>7
<1>9. PlatformCommands(phases) \in Seq(Commands(Early \cup Late))
  BY <1>1 DEF All
<1>. QED
  BY <1>1, <1>5, <1>8, <1>9

-----------------------------------------------------------------------------
(* The flows of a workflow, their steps and what they wait for. *)

LEMMA Kinds ==
  /\ Validate.kind = "validate" /\ Platform.kind = "platform" /\ Post.kind = "post"
  /\ \A t : Flow("rollout", t).kind = "rollout" /\ Flow("rollout", t).at = t
  /\ \A k, t : Flow(k, t).kind = k /\ Flow(k, t).at = t
  /\ \A what, on : Do(what, on).do = what /\ Do(what, on).on = on
BY DEF Validate, Platform, Post, Flow, Do

LEMMA FlowCases ==
  ASSUME NEW e, NEW f \in Flows(e)
  PROVE  \/ f = Validate
         \/ f = Platform /\ PhasesRun(e) # {}
         \/ f = Post /\ PostSteps(e) # <<>>
         \/ f.kind = "rollout" /\ f.at \in Rollouts(e) /\ f = Flow("rollout", f.at)
<1>1. \A t : Flow("rollout", t).kind = "rollout" /\ Flow("rollout", t).at = t
  BY Kinds
<1>. QED
  BY <1>1 DEF Flows, Generated

LEMMA FlowsOf ==
  ASSUME NEW e
  PROVE  /\ Validate \in Flows(e)
         /\ PhasesRun(e) # {} => Platform \in Flows(e)
         /\ \A t \in Rollouts(e) : Flow("rollout", t) \in Flows(e)
BY DEF Flows, Generated

LEMMA RolloutTypes ==
  ASSUME NEW e
  PROVE  /\ Rollouts(e) \subseteq AllTargets
         /\ Deployment(e) => \A t \in Rollouts(e) : t = e.target
BY DEF Rollouts, AffectedTargets, FirstTargets

LEMMA PhasesTypes ==
  ASSUME NEW e
  PROVE  PhasesRun(e) \subseteq Phase
<1>1. \A kind : AreaPhases(kind) \subseteq Phase
  BY PhaseNames DEF AreaPhases
<1>2. ASSUME NEW files PROVE PhasesOf(files) \subseteq Phase
  <2> DEFINE own == UNION {AreaPhases(f.in) : f \in files}
  <2>1. own \subseteq Phase
    BY <1>1
  <2>2. {"validate-platform", "smoke"} \subseteq Phase
    BY PhaseNames
  <2>3. PhasesOf(files) = IF Touches(files, {"platform.yaml", "generator"}) THEN Phase
                          ELSE IF own = {} THEN {} ELSE own \cup {"validate-platform", "smoke"}
    BY DEF PhasesOf
  <2> HIDE DEF own
  <2>. QED
    BY <2>1, <2>2, <2>3
<1>. QED
  BY <1>2 DEF PhasesRun

LEMMA StepsOf ==
  ASSUME NEW e
  PROVE  /\ Steps(e, Validate) = ValidateSteps(e)
         /\ Steps(e, Platform) = PlatformCommands(PhasesRun(e))
         /\ Steps(e, Post) = PostSteps(e)
         /\ \A f : f.kind = "rollout" =>
              Steps(e, f) = IF Applies(e) THEN <<Just("plan"), Just("apply")>> ELSE <<Just("plan")>>
BY Kinds DEF Steps

\* The work after a rollout.
PostCommands ==
  [do : {"ha-sync", "traefik-preview", "traefik-apply", "dns-ingress"}, on : {Nobody}]

LEMMA PostType == ASSUME NEW e PROVE PostSteps(e) \in Seq(PostCommands)
<1> DEFINE S == Seq(PostCommands)
<1>1. \A s, t \in S : s \o t \in S
  BY ConcatProperties
<1>2. \A test : /\ StepIf(test, "ha-sync") \in S /\ StepIf(test, "traefik-preview") \in S
                /\ StepIf(test, "traefik-apply") \in S /\ StepIf(test, "dns-ingress") \in S
  <2>1. /\ Just("ha-sync") \in PostCommands /\ Just("traefik-preview") \in PostCommands
        /\ Just("traefik-apply") \in PostCommands /\ Just("dns-ingress") \in PostCommands
    BY DEF Just, Do, PostCommands
  <2>2. <<>> \in S
    BY EmptySeq
  <2>. QED
    BY <2>1, <2>2 DEF StepIf
<1> HIDE DEF S
<1>3. PostSteps(e) \in S
  BY <1>1, <1>2 DEF PostSteps
<1>. QED
  BY <1>3 DEF S

\* Every flow has a step; a step of the platform does one of Early and Late, one of
\* a rollout plans or applies.
LEMMA StepsType ==
  ASSUME NEW e, NEW f \in Flows(e)
  PROVE  /\ Len(Steps(e, f)) \in Nat \ {0}
         /\ f = Validate => \A k \in 1..Len(Steps(e, f)) : Steps(e, f)[k].do \in {"validate", "clone"}
         /\ f = Platform => \A k \in 1..Len(Steps(e, f)) :
                              Steps(e, f)[k].do \in Early \cup Late
         /\ f = Post => \A k \in 1..Len(Steps(e, f)) : Steps(e, f)[k] \in PostCommands
         /\ f.kind = "rollout" =>
              /\ Steps(e, f)[1].do = "plan"
              /\ Len(Steps(e, f)) = IF Applies(e) THEN 2 ELSE 1
              /\ Applies(e) => Steps(e, f)[2].do = "apply"
<1>1. CASE f = Validate
  <2>1. \E name \in {"validate", "clone"} :
          Steps(e, f) = <<Just(name)>> /\ Just(name).do = name
    BY <1>1, StepsOf, Kinds DEF Just, ValidateSteps
  <2>2. f # Platform /\ f # Post /\ f.kind # "rollout"
    BY <1>1, Kinds
  <2>. QED
    BY <2>1, <2>2
<1>2. CASE f = Platform /\ PhasesRun(e) # {}
  <2>1. PhasesRun(e) \cap Phase # {}
    BY <1>2, PhasesTypes
  <2>2. /\ Steps(e, f) \in Seq(Commands(Early \cup Late))
        /\ Len(Steps(e, f)) >= 1
    BY <1>2, <2>1, StepsOf, PlatformType
  <2>3. f # Validate /\ f # Post /\ f.kind # "rollout"
    BY <1>2, Kinds
  <2>4. \A k \in 1..Len(Steps(e, f)) : Steps(e, f)[k] \in Commands(Early \cup Late)
    BY <2>2, ElementOfSeq
  <2>5. \A k \in 1..Len(Steps(e, f)) : Steps(e, f)[k].do \in Early \cup Late
    BY <2>4 DEF Commands
  <2>6. Len(Steps(e, f)) \in Nat
    BY <2>2, LenProperties
  <2>. QED
    BY <2>2, <2>3, <2>5, <2>6
<1>3. CASE f = Post /\ PostSteps(e) # <<>>
  <2>1. Steps(e, f) \in Seq(PostCommands) /\ Steps(e, f) # <<>>
    BY <1>3, StepsOf, PostType
  <2>2. Len(Steps(e, f)) \in Nat /\ Len(Steps(e, f)) # 0
    BY <2>1, EmptySeq, LenProperties
  <2>3. f # Validate /\ f # Platform /\ f.kind # "rollout"
    BY <1>3, Kinds
  <2>4. \A k \in 1..Len(Steps(e, f)) : Steps(e, f)[k] \in PostCommands
    BY <2>1, ElementOfSeq
  <2>. QED
    BY <2>2, <2>3, <2>4
<1>4. CASE f.kind = "rollout"
  <2>1. f # Validate /\ f # Platform /\ f # Post
    BY <1>4, Kinds
  <2>2. Just("plan").do = "plan" /\ Just("apply").do = "apply"
    BY Kinds DEF Just
  <2>3. Steps(e, f) = IF Applies(e) THEN <<Just("plan"), Just("apply")>> ELSE <<Just("plan")>>
    BY <1>4, StepsOf
  <2>. QED
    BY <1>4, <2>1, <2>2, <2>3
<1>. QED
  BY <1>1, <1>2, <1>3, <1>4, FlowCases

LEMMA NeedsOf ==
  ASSUME NEW e
  PROVE  /\ FlowNeeds(e, Validate) = {}
         /\ FlowNeeds(e, Platform) = {Validate}
         /\ Platform \in Flows(e) => \A f : f.kind = "rollout" => FlowNeeds(e, f) = {Platform}
         /\ Rollouts(e) # {} =>
              FlowNeeds(e, Post) = {Flow("rollout", t) : t \in Rollouts(e)}
         /\ Rollouts(e) = {} /\ Platform \in Flows(e) => FlowNeeds(e, Post) = {Platform}
<1> DEFINE rollouts == {g \in Flows(e) : g.kind = "rollout"}
           platform == {Platform} \cap Flows(e)
           first    == IF platform # {} THEN platform ELSE {Validate}
<1>1. rollouts = {Flow("rollout", t) : t \in Rollouts(e)}
  <2>1. ASSUME NEW g \in rollouts PROVE g \in {Flow("rollout", t) : t \in Rollouts(e)}
    <3>1. g # Validate /\ g # Platform /\ g # Post
      BY Kinds
    <3>. QED
      BY <3>1, FlowCases
  <2>2. ASSUME NEW t \in Rollouts(e) PROVE Flow("rollout", t) \in rollouts
    BY FlowsOf, Kinds
  <2>. QED
    BY <2>1, <2>2
<1>2. \A f : FlowNeeds(e, f) =
        CASE f = Validate       -> {}
          [] f = Platform       -> {Validate}
          [] f.kind = "rollout" -> first
          [] f = Post           -> IF rollouts # {} THEN rollouts ELSE first
  BY DEF FlowNeeds
<1>3. /\ Validate # Platform /\ Post # Validate /\ Post # Platform
      /\ Post.kind # "rollout" /\ Platform.kind # "rollout" /\ Validate.kind # "rollout"
  BY Kinds
<1>4. \A f : f.kind = "rollout" => f # Validate /\ f # Platform /\ f # Post
  BY Kinds
<1>5. Platform \in Flows(e) => first = {Platform}
  OBVIOUS
<1>6. rollouts # {} <=> Rollouts(e) # {}
  BY <1>1
<1> HIDE DEF rollouts, first
<1>7. FlowNeeds(e, Validate) = {}
  BY <1>2, <1>3
<1>8. FlowNeeds(e, Platform) = {Validate}
  BY <1>2, <1>3
<1>9. \A f : f.kind = "rollout" => FlowNeeds(e, f) = first
  BY <1>2, <1>4
<1>10. FlowNeeds(e, Post) = IF rollouts # {} THEN rollouts ELSE first
  BY <1>2, <1>3
<1>. QED
  BY <1>1, <1>5, <1>6, <1>7, <1>8, <1>9, <1>10

\* A flow needs flows of its own workflow.
LEMMA NeedsInside ==
  ASSUME NEW e, NEW f \in Flows(e)
  PROVE  FlowNeeds(e, f) \subseteq Flows(e)
<1>1. Validate \in Flows(e)
  BY FlowsOf
<1>2. CASE f = Validate
  BY <1>2, NeedsOf
<1>3. CASE f = Platform
  BY <1>1, <1>3, NeedsOf
<1>4. CASE f.kind = "rollout"
  <2>1. f # Validate /\ f # Platform
    BY <1>4, Kinds
  <2>. QED
    BY <1>1, <1>4, <2>1 DEF FlowNeeds
<1>5. CASE f = Post
  <2>1. Post # Validate /\ Post # Platform /\ Post.kind # "rollout"
    BY Kinds
  <2>. QED
    BY <1>1, <1>5, <2>1 DEF FlowNeeds
<1>. QED
  BY <1>2, <1>3, <1>4, <1>5, FlowCases

-----------------------------------------------------------------------------
(* What a step changes. *)

\* The services' playbooks, run for the targets ts.
Configured(p, ts) ==
  {Effect(p, "configure", t, Nobody) :
     t \in {u \in ts : u[1] \in Jobs(env[p]) /\ ConfigureNeeded(u[1], Known(env[p]))}}

LEMMA EffectFields ==
  ASSUME NEW p, NEW what, NEW at, NEW plan
  PROVE  /\ Effect(p, what, at, plan).by = p /\ Effect(p, what, at, plan).what = what
         /\ Effect(p, what, at, plan).at = at /\ Effect(p, what, at, plan).plan = plan
BY DEF Effect

LEMMA EffectsByStep ==
  ASSUME NEW p, NEW f, NEW step
  PROVE  /\ step.do \in Changing => EffectsOf(p, f, step) = {Effect(p, step.do, step.on, Nobody)}
         /\ step.do = "apply" =>
              EffectsOf(p, f, step) =
                {Effect(p, "apply", t, volume[t]) : t \in {u \in {f.at} : Plans(env[p], u)}}
                  \cup Configured(p, {f.at})
         /\ step.do = "ha-sync" =>
              EffectsOf(p, f, step) = {Effect(p, "sync", FinalTarget(s), Nobody) : s \in Synced(env[p])}
         /\ step.do \in {"traefik-preview", "traefik-apply"} =>
              EffectsOf(p, f, step) = {Effect(p, "routes", Nowhere, Nobody)}
         /\ step.do = "dns-ingress" => EffectsOf(p, f, step) = Configured(p, Published(env[p]))
         /\ step.do \in {"validate", "clone", "check", "plan-foundation", "plan"} =>
              EffectsOf(p, f, step) = {}
<1>1. /\ "apply" \notin Changing /\ "ha-sync" \notin Changing /\ "traefik-preview" \notin Changing
      /\ "traefik-apply" \notin Changing /\ "dns-ingress" \notin Changing
      /\ "validate" \notin Changing /\ "clone" \notin Changing /\ "check" \notin Changing /\ "plan" \notin Changing
      /\ "plan-foundation" \notin Changing
  BY DEF Changing
<1>2. CASE step.do \in Changing
  BY <1>1, <1>2 DEF EffectsOf
<1>3. CASE step.do = "apply"
  BY <1>1, <1>3 DEF EffectsOf, Configured
<1>4. CASE step.do = "ha-sync"
  BY <1>1, <1>4 DEF EffectsOf
<1>5. CASE step.do \in {"traefik-preview", "traefik-apply"}
  BY <1>1, <1>5 DEF EffectsOf
<1>6. CASE step.do = "dns-ingress"
  BY <1>1, <1>6 DEF EffectsOf, Configured
<1>7. CASE step.do \in {"validate", "clone", "check", "plan-foundation", "plan"}
  BY <1>1, <1>7 DEF EffectsOf
<1>. QED
  BY <1>1, <1>2, <1>3, <1>4, <1>5, <1>6, <1>7

LEMMA ConfiguredFields ==
  ASSUME NEW p, NEW ts, NEW x \in Configured(p, ts)
  PROVE  x.by = p /\ x.what = "configure" /\ x.at \in ts
BY EffectFields DEF Configured

\* Who changes what: the platform's steps what they do, a rollout's apply the root
\* and the machines of its target, the work after it the routes, the DNS records
\* and the services to resynchronise.
LEMMA EffectsFrom ==
  ASSUME NEW p, NEW f \in Flows(env[p]), NEW k \in 1..Len(Steps(env[p], f)),
         NEW x \in EffectsOf(p, f, Steps(env[p], f)[k])
  PROVE  /\ x.by = p
         /\ x.what = "apply" => /\ f.kind = "rollout" /\ k = 2 /\ Plans(env[p], f.at)
                                /\ x.plan = volume[f.at]
         /\ Deployment(env[p]) /\ x.what \in {"apply", "configure", "sync"}
              => x.at = env[p].target
         /\ \/ f = Platform /\ x.what \in Changing /\ Steps(env[p], f)[k].do = x.what
            \/ f.kind = "rollout" /\ x.what \in {"apply", "configure"}
            \/ f = Post /\ x.what \in {"configure", "sync", "routes"}
<1> DEFINE e == env[p]
           step == Steps(e, f)[k]
<1>a. x \in EffectsOf(p, f, step)
  OBVIOUS
<1>b. /\ step.do \in Changing => EffectsOf(p, f, step) = {Effect(p, step.do, step.on, Nobody)}
      /\ step.do = "ha-sync" =>
           EffectsOf(p, f, step) = {Effect(p, "sync", FinalTarget(s), Nobody) : s \in Synced(e)}
      /\ step.do \in {"traefik-preview", "traefik-apply"} =>
           EffectsOf(p, f, step) = {Effect(p, "routes", Nowhere, Nobody)}
      /\ step.do = "dns-ingress" => EffectsOf(p, f, step) = Configured(p, Published(e))
  BY EffectsByStep
<1>1. CASE f = Validate
  <2>1. step.do \in {"validate", "clone"}
    BY <1>1, StepsType
  <2>. QED
    BY <2>1, EffectsByStep
<1>2. CASE f = Platform
  <2>1. step.do \in Early \cup Late
    BY <1>2, StepsType
  <2>2. step.do \in Changing \/ step.do \in {"check", "plan-foundation"}
    BY <2>1 DEF Early, Late, Changing
  <2>3. step.do \in Changing
    BY <2>2, EffectsByStep
  <2>4. x.by = p /\ x.what = step.do
    <3>1. x = Effect(p, step.do, step.on, Nobody)
      <4> HIDE DEF step
      <4>. QED
        BY <1>a, <1>b, <2>3
    <3>. QED
      BY <3>1, EffectFields
  <2>5. x.what \notin {"apply", "configure", "sync"}
    BY <2>3, <2>4 DEF Changing
  <2>. QED
    BY <1>2, <2>3, <2>4, <2>5
<1>3. CASE f.kind = "rollout"
  <2>1. f.at \in Rollouts(e)
    BY <1>3, FlowCases, Kinds
  <2>2. Deployment(e) => f.at = e.target
    BY <2>1, RolloutTypes
  <2>3. step.do \in {"plan", "apply"} /\ (step.do = "apply" => k = 2)
    BY <1>3, StepsType
  <2>4. step.do = "apply" /\ k = 2
    BY <2>3, EffectsByStep
  <2>5. EffectsOf(p, f, step) =
          {Effect(p, "apply", t, volume[t]) : t \in {u \in {f.at} : Plans(env[p], u)}}
            \cup Configured(p, {f.at})
    BY <2>4, EffectsByStep
  <2>6. CASE x \in {Effect(p, "apply", t, volume[t]) : t \in {u \in {f.at} : Plans(env[p], u)}}
    <3>1. x = Effect(p, "apply", f.at, volume[f.at]) /\ Plans(env[p], f.at)
      BY <2>6
    <3>. QED
      BY <1>3, <2>2, <2>4, <3>1, EffectFields
  <2>7. CASE x \in Configured(p, {f.at})
    <3>1. x.by = p /\ x.what = "configure" /\ x.at = f.at
      BY <2>7, ConfiguredFields
    <3>. QED
      BY <1>3, <2>2, <3>1
  <2>. QED
    BY <2>5, <2>6, <2>7
<1>4. CASE f = Post
  <2>1. step.do \in {"ha-sync", "traefik-preview", "traefik-apply", "dns-ingress"}
    BY <1>4, StepsType DEF PostCommands
  <2>2. CASE step.do = "ha-sync"
    <3>1. PICK s \in Synced(e) : x = Effect(p, "sync", FinalTarget(s), Nobody)
      <4> HIDE DEF step, e
      <4>. QED
        BY <1>a, <1>b, <2>2
    <3>2. Deployment(e) => e.target = FinalTarget(s)
      BY DEF Synced
    <3>. QED
      BY <1>4, <3>1, <3>2, EffectFields
  <2>3. CASE step.do \in {"traefik-preview", "traefik-apply"}
    <3>1. x = Effect(p, "routes", Nowhere, Nobody)
      <4> HIDE DEF step
      <4>. QED
        BY <1>a, <1>b, <2>3
    <3>. QED
      BY <1>4, <3>1, EffectFields
  <2>4. CASE step.do = "dns-ingress"
    <3>1. x \in Configured(p, Published(e))
      <4> HIDE DEF step, e
      <4>. QED
        BY <1>a, <1>b, <2>4
    <3>2. \A t \in Published(e) : Deployment(e) => t = e.target
      BY DEF Published
    <3>. QED
      BY <1>4, <3>1, <3>2, ConfiguredFields
  <2>. QED
    BY <2>1, <2>2, <2>3, <2>4
<1>. QED
  BY <1>1, <1>2, <1>3, <1>4, FlowCases

-----------------------------------------------------------------------------
(* The invariant. *)

WorkflowOf(e) == [f \in Flows(e) |-> [needs |-> FlowNeeds(e, f), steps |-> Steps(e, f)]]

FlowStatus == {"waiting", "running", "passed", "failed"}

\* A configured pipeline has the workflow of what its webhook said; a running one a
\* status and a step for each of its flows.
StageInv ==
  /\ stage \in [Pipeline -> {"none", "submitted", "configured", "running", "refused"}]
  /\ DOMAIN hook = Pipeline /\ DOMAIN env = Pipeline /\ DOMAIN workflow = Pipeline
  /\ DOMAIN status = Pipeline /\ DOMAIN next = Pipeline
  /\ volume \in [AllTargets -> Pipeline \cup {Nobody}]
  /\ faults \in 0..MaxFaults
  /\ \A p \in Pipeline :
       /\ stage[p] # "none" => hook[p] \in Webhooks
       /\ stage[p] \in {"configured", "running"} =>
            env[p] = EnvironmentOf(hook[p]) /\ workflow[p] = WorkflowOf(env[p])
       /\ ~Running(p) => DOMAIN status[p] = {}
       /\ Running(p) => /\ status[p] \in [Flows(env[p]) -> FlowStatus]
                        /\ next[p] \in [Flows(env[p]) -> Nat]

\* How far a flow has come, and that what it needed has passed.
FlowInv ==
  \A p \in Pipeline : Running(p) => \A f \in Flows(env[p]) :
    /\ status[p][f] = "waiting" => next[p][f] = 1
    /\ status[p][f] # "passed" => next[p][f] \in 1..Len(Steps(env[p], f))
    /\ status[p][f] = "passed" => next[p][f] = Len(Steps(env[p], f)) + 1
    /\ status[p][f] # "waiting" => \A g \in FlowNeeds(env[p], f) : status[p][g] = "passed"

\* One flow of a concurrency group runs at a time, in all pipelines.
GroupInv ==
  \A p, q \in Pipeline : \A f \in DOMAIN status[p], g \in DOMAIN status[q] :
    (/\ status[p][f] = "running" /\ status[q][g] = "running"
     /\ Group(f) = Group(g) /\ f # Validate)
      => p = q /\ f = g

\* From a flow's plan to its apply, the volume of its target holds that plan.
VolumeInv ==
  \A p \in Pipeline : \A f \in DOMAIN status[p] :
    (/\ f.kind = "rollout" /\ status[p][f] = "running" /\ next[p][f] = 2
     /\ Plans(env[p], f.at)) => volume[f.at] = p

\* Where an effect comes from.
Origin(x, f) ==
  \/ /\ f = Platform /\ x.what \in Changing
     /\ \E k \in 1..Len(Steps(env[x.by], f)) :
          k <= next[x.by][f] /\ Steps(env[x.by], f)[k].do = x.what
  \/ f.kind = "rollout" /\ x.what \in {"apply", "configure"}
  \/ f = Post /\ x.what \in {"configure", "sync", "routes"}

EffectInv ==
  \A x \in effects :
    /\ x.by \in Pipeline /\ Running(x.by)
    /\ x.what = "apply" => x.plan = x.by
    /\ Deployment(env[x.by]) /\ x.what \in {"apply", "configure", "sync"}
         => x.at = env[x.by].target
    /\ \E f \in DOMAIN status[x.by] : status[x.by][f] # "waiting" /\ Origin(x, f)

\* What the steps of the platform and the rollouts leave behind.
LeftInv ==
  \A p \in Pipeline : Running(p) =>
    /\ Platform \in Flows(env[p]) =>
         \A k \in 1..(next[p][Platform] - 1) :
           LET c == Steps(env[p], Platform)[k]
           IN c.do \in Changing => Effect(p, c.do, c.on, Nobody) \in effects
    /\ \A t \in Rollouts(env[p]) :
         (/\ Applies(env[p]) /\ status[p][Flow("rollout", t)] = "passed"
          /\ t[1] \in Jobs(env[p]) /\ ConfigureNeeded(t[1], Known(env[p])))
            => \E x \in By(p) : x.what = "configure" /\ x.at = t

\* A pipeline that runs has the flows, steps and needs of its environment.
LEMMA Unfolds ==
  ASSUME StageInv, NEW p \in Pipeline, NEW f \in DOMAIN status[p]
  PROVE  /\ Running(p) /\ f \in Flows(env[p]) /\ DOMAIN status[p] = Flows(env[p])
         /\ workflow[p][f].steps = Steps(env[p], f)
         /\ workflow[p][f].needs = FlowNeeds(env[p], f)
         /\ next[p][f] \in Nat /\ status[p][f] \in FlowStatus
<1>1. Running(p)
  BY DEF StageInv
<1>2. DOMAIN status[p] = Flows(env[p]) /\ workflow[p] = WorkflowOf(env[p])
  BY <1>1 DEF StageInv, Running
<1>3. /\ workflow[p][f].steps = Steps(env[p], f)
      /\ workflow[p][f].needs = FlowNeeds(env[p], f)
  BY <1>2 DEF WorkflowOf
<1>. QED
  BY <1>1, <1>2, <1>3 DEF StageInv

-----------------------------------------------------------------------------
(* The steps of the configuration extension. *)

\* What they leave alone: the pipelines that run go on, one that starts to run has
\* all its flows before it.
GoesOn(q) ==
  /\ Running(q) => /\ stage'[q] = "running" /\ hook'[q] = hook[q] /\ env'[q] = env[q]
                   /\ status'[q] = status[q] /\ next'[q] = next[q]
  /\ stage'[q] = "running" /\ ~Running(q) =>
       \A f \in Flows(env'[q]) : status'[q][f] = "waiting" /\ next'[q][f] = 1

LEMMA SubmitFrame ==
  ASSUME StageInv, NEW p \in Pipeline, Submit(p)
  PROVE  StageInv' /\ UNCHANGED <<volume, effects>> /\ \A q \in Pipeline : GoesOn(q)
<1>1. PICK h \in Webhooks : hook' = [hook EXCEPT ![p] = h]
  BY DEF Submit
<1>2. /\ stage[p] = "none" /\ stage' = [stage EXCEPT ![p] = "submitted"]
      /\ UNCHANGED <<env, workflow, status, next, volume, effects, faults>>
  BY DEF Submit, Becomes
<1>3. /\ stage' \in [Pipeline -> {"none", "submitted", "configured", "running", "refused"}]
      /\ DOMAIN hook' = Pipeline /\ AllTargets' = AllTargets
  BY <1>1, <1>2 DEF StageInv, AllTargets
<1>4. ASSUME NEW q \in Pipeline
      PROVE  /\ q # p => stage'[q] = stage[q] /\ hook'[q] = hook[q]
             /\ q = p => stage'[q] = "submitted" /\ hook'[q] \in Webhooks
  BY <1>1, <1>2 DEF StageInv
<1>5. ASSUME NEW q \in Pipeline
      PROVE  /\ stage'[q] # "none" => hook'[q] \in Webhooks
             /\ stage'[q] \in {"configured", "running"} =>
                  env'[q] = EnvironmentOf(hook'[q]) /\ workflow'[q] = WorkflowOf(env'[q])
             /\ stage'[q] # "running" => DOMAIN status'[q] = {}
             /\ stage'[q] = "running" => /\ status'[q] \in [Flows(env'[q]) -> FlowStatus]
                                         /\ next'[q] \in [Flows(env'[q]) -> Nat]
  BY <1>2, <1>4 DEF StageInv, Running
<1>6. StageInv'
  BY <1>2, <1>3, <1>5 DEF StageInv, Running
<1>7. ASSUME NEW q \in Pipeline PROVE GoesOn(q)
  BY <1>2, <1>4 DEF GoesOn, Running
<1>. QED
  BY <1>2, <1>6, <1>7

LEMMA ConfigureFrame ==
  ASSUME StageInv, NEW p \in Pipeline, Configure(p)
  PROVE  StageInv' /\ UNCHANGED <<volume, effects>> /\ \A q \in Pipeline : GoesOn(q)
<1> DEFINE e == EnvironmentOf(hook[p])
<1>1. /\ stage[p] = "submitted" /\ stage' = [stage EXCEPT ![p] = "configured"]
      /\ env' = [env EXCEPT ![p] = e]
      /\ UNCHANGED <<hook, status, next, volume, effects, faults>>
  BY DEF Configure, Becomes
<1>2. workflow' = [workflow EXCEPT ![p] = WorkflowOf(e)]
  BY DEF Configure, WorkflowOf
<1> HIDE DEF e
<1>3. /\ stage' \in [Pipeline -> {"none", "submitted", "configured", "running", "refused"}]
      /\ DOMAIN env' = Pipeline /\ DOMAIN workflow' = Pipeline /\ AllTargets' = AllTargets
  BY <1>1, <1>2 DEF StageInv, AllTargets
<1>4. ASSUME NEW q \in Pipeline
      PROVE  /\ q # p => stage'[q] = stage[q] /\ env'[q] = env[q] /\ workflow'[q] = workflow[q]
             /\ q = p => stage'[q] = "configured" /\ env'[q] = e /\ workflow'[q] = WorkflowOf(e)
  BY <1>1, <1>2 DEF StageInv
<1>5. ASSUME NEW q \in Pipeline
      PROVE  /\ stage'[q] # "none" => hook'[q] \in Webhooks
             /\ stage'[q] \in {"configured", "running"} =>
                  env'[q] = EnvironmentOf(hook'[q]) /\ workflow'[q] = WorkflowOf(env'[q])
             /\ stage'[q] # "running" => DOMAIN status'[q] = {}
             /\ stage'[q] = "running" => /\ status'[q] \in [Flows(env'[q]) -> FlowStatus]
                                         /\ next'[q] \in [Flows(env'[q]) -> Nat]
  <2>1. CASE q = p
    <3>1. stage'[q] = "configured" /\ env'[q] = e /\ workflow'[q] = WorkflowOf(e)
      BY <1>4, <2>1
    <3>2. hook'[q] \in Webhooks /\ DOMAIN status'[q] = {}
      BY <1>1, <2>1 DEF StageInv, Running
    <3>3. e = EnvironmentOf(hook'[q])
      BY <1>1, <2>1 DEF e
    <3>. QED
      BY <3>1, <3>2, <3>3
  <2>2. CASE q # p
    BY <1>1, <1>4, <2>2 DEF StageInv, Running
  <2>. QED
    BY <2>1, <2>2
<1>6. StageInv'
  BY <1>1, <1>3, <1>5 DEF StageInv, Running
<1>7. ASSUME NEW q \in Pipeline PROVE GoesOn(q)
  BY <1>1, <1>4 DEF GoesOn, Running
<1>. QED
  BY <1>1, <1>6, <1>7

LEMMA RunFrame ==
  ASSUME StageInv, NEW p \in Pipeline, Run(p)
  PROVE  StageInv' /\ UNCHANGED <<volume, effects>> /\ \A q \in Pipeline : GoesOn(q)
<1>1. /\ stage[p] = "configured" /\ stage' = [stage EXCEPT ![p] = "running"]
      /\ status' = [status EXCEPT ![p] = [f \in DOMAIN workflow[p] |-> "waiting"]]
      /\ next' = [next EXCEPT ![p] = [f \in DOMAIN workflow[p] |-> 1]]
      /\ UNCHANGED <<hook, env, workflow, volume, effects, faults>>
  BY DEF Run, Becomes
<1>2. DOMAIN workflow[p] = Flows(env[p])
  BY <1>1 DEF StageInv, WorkflowOf
<1>3. /\ stage' \in [Pipeline -> {"none", "submitted", "configured", "running", "refused"}]
      /\ DOMAIN status' = Pipeline /\ DOMAIN next' = Pipeline /\ AllTargets' = AllTargets
  BY <1>1 DEF StageInv, AllTargets
<1>4. ASSUME NEW q \in Pipeline
      PROVE  /\ q # p => stage'[q] = stage[q] /\ status'[q] = status[q] /\ next'[q] = next[q]
             /\ q = p => /\ stage'[q] = "running"
                         /\ status'[q] = [f \in Flows(env[p]) |-> "waiting"]
                         /\ next'[q] = [f \in Flows(env[p]) |-> 1]
  BY <1>1, <1>2 DEF StageInv
<1>5. ASSUME NEW q \in Pipeline
      PROVE  /\ stage'[q] # "none" => hook'[q] \in Webhooks
             /\ stage'[q] \in {"configured", "running"} =>
                  env'[q] = EnvironmentOf(hook'[q]) /\ workflow'[q] = WorkflowOf(env'[q])
             /\ stage'[q] # "running" => DOMAIN status'[q] = {}
             /\ stage'[q] = "running" => /\ status'[q] \in [Flows(env'[q]) -> FlowStatus]
                                         /\ next'[q] \in [Flows(env'[q]) -> Nat]
  <2>1. CASE q = p
    <3>1. /\ stage'[q] = "running"
          /\ status'[q] \in [Flows(env'[q]) -> FlowStatus]
          /\ next'[q] \in [Flows(env'[q]) -> Nat]
      BY <1>1, <1>4, <2>1 DEF FlowStatus
    <3>2. /\ hook'[q] \in Webhooks
          /\ env'[q] = EnvironmentOf(hook'[q]) /\ workflow'[q] = WorkflowOf(env'[q])
      BY <1>1, <2>1 DEF StageInv
    <3>. QED
      BY <3>1, <3>2
  <2>2. CASE q # p
    BY <1>1, <1>4, <2>2 DEF StageInv, Running
  <2>. QED
    BY <2>1, <2>2
<1>6. StageInv'
  BY <1>1, <1>3, <1>5 DEF StageInv, Running
<1>7. ASSUME NEW q \in Pipeline PROVE GoesOn(q)
  BY <1>1, <1>4 DEF GoesOn, Running
<1>. QED
  BY <1>1, <1>6, <1>7

\* A pipeline that is refused, by the extension or by a fault.
LEMMA RefuseFrame ==
  ASSUME StageInv, NEW p \in Pipeline,
         Reject(p) \/ CloneFails(p) \/ RefuseSecrets(p) \/ LoginFails(p)
  PROVE  StageInv' /\ UNCHANGED <<volume, effects>> /\ \A q \in Pipeline : GoesOn(q)
<1>1. /\ stage[p] \in {"submitted", "configured"} /\ stage' = [stage EXCEPT ![p] = "refused"]
      /\ UNCHANGED <<hook, env, workflow, status, next, volume, effects>>
  BY DEF Reject, CloneFails, RefuseSecrets, LoginFails, Becomes
<1>2. faults' \in 0..MaxFaults
  BY FaultAssumption DEF StageInv, Reject, CloneFails, RefuseSecrets, LoginFails
<1>3. /\ stage' \in [Pipeline -> {"none", "submitted", "configured", "running", "refused"}]
      /\ AllTargets' = AllTargets
  BY <1>1 DEF StageInv, AllTargets
<1>4. ASSUME NEW q \in Pipeline
      PROVE  /\ q # p => stage'[q] = stage[q]
             /\ q = p => stage'[q] = "refused" /\ hook[q] \in Webhooks
  BY <1>1 DEF StageInv
<1>5. ASSUME NEW q \in Pipeline
      PROVE  /\ stage'[q] # "none" => hook'[q] \in Webhooks
             /\ stage'[q] \in {"configured", "running"} =>
                  env'[q] = EnvironmentOf(hook'[q]) /\ workflow'[q] = WorkflowOf(env'[q])
             /\ stage'[q] # "running" => DOMAIN status'[q] = {}
             /\ stage'[q] = "running" => /\ status'[q] \in [Flows(env'[q]) -> FlowStatus]
                                         /\ next'[q] \in [Flows(env'[q]) -> Nat]
  <2>1. CASE q = p
    <3>1. stage'[q] = "refused" /\ hook'[q] \in Webhooks
      BY <1>1, <1>4, <2>1
    <3>2. DOMAIN status'[q] = {}
      BY <1>1, <2>1 DEF StageInv, Running
    <3>. QED
      BY <3>1, <3>2
  <2>2. CASE q # p
    BY <1>1, <1>4, <2>2 DEF StageInv, Running
  <2>. QED
    BY <2>1, <2>2
<1>6. StageInv'
  BY <1>1, <1>2, <1>3, <1>5 DEF StageInv, Running
<1>7. ASSUME NEW q \in Pipeline PROVE GoesOn(q)
  BY <1>1, <1>4 DEF GoesOn, Running
<1>. QED
  BY <1>1, <1>6, <1>7

\* All of them together.
LEMMA PipelineFrame ==
  ASSUME StageInv, NEW p \in Pipeline, Submit(p) \/ PipelineStep(p)
  PROVE  StageInv' /\ UNCHANGED <<volume, effects>> /\ \A q \in Pipeline : GoesOn(q)
<1>1. CASE Submit(p)
  BY <1>1, SubmitFrame
<1>2. CASE Configure(p)
  BY <1>2, ConfigureFrame
<1>3. CASE Run(p)
  BY <1>3, RunFrame
<1>4. CASE Reject(p) \/ CloneFails(p) \/ RefuseSecrets(p) \/ LoginFails(p)
  BY <1>4, RefuseFrame
<1>. QED
  BY <1>1, <1>2, <1>3, <1>4 DEF PipelineStep

LEMMA PipelineKeeps ==
  ASSUME StageInv, FlowInv, GroupInv, VolumeInv, EffectInv, LeftInv,
         NEW p \in Pipeline, Submit(p) \/ PipelineStep(p)
  PROVE  FlowInv' /\ GroupInv' /\ VolumeInv' /\ EffectInv' /\ LeftInv'
<1>1. StageInv' /\ UNCHANGED <<volume, effects>> /\ \A q \in Pipeline : GoesOn(q)
  BY PipelineFrame
<1>2. ASSUME NEW q \in Pipeline, Running(q)
      PROVE  /\ stage'[q] = "running" /\ hook'[q] = hook[q] /\ env'[q] = env[q]
             /\ status'[q] = status[q] /\ next'[q] = next[q]
  BY <1>1, <1>2 DEF GoesOn
<1>3. ASSUME NEW q \in Pipeline, stage'[q] = "running", ~Running(q), NEW f \in Flows(env'[q])
      PROVE  status'[q][f] = "waiting" /\ next'[q][f] = 1
  BY <1>1, <1>3 DEF GoesOn
<1>4. ASSUME NEW q \in Pipeline, NEW f \in DOMAIN status'[q]
      PROVE  stage'[q] = "running" /\ f \in Flows(env'[q])
  BY <1>1, <1>4 DEF StageInv, Running
<1>5. ASSUME NEW q \in Pipeline, NEW f \in DOMAIN status'[q], status'[q][f] # "waiting"
      PROVE  Running(q) /\ f \in DOMAIN status[q] /\ status[q][f] = status'[q][f]
             /\ next'[q][f] = next[q][f] /\ env'[q] = env[q]
  BY <1>2, <1>3, <1>4, <1>5
<1>6. FlowInv'
  <2> SUFFICES ASSUME NEW q \in Pipeline, stage'[q] = "running", NEW f \in Flows(env'[q])
               PROVE  /\ status'[q][f] = "waiting" => next'[q][f] = 1
                      /\ status'[q][f] # "passed" => next'[q][f] \in 1..Len(Steps(env'[q], f))
                      /\ status'[q][f] = "passed" => next'[q][f] = Len(Steps(env'[q], f)) + 1
                      /\ status'[q][f] # "waiting" =>
                           \A g \in FlowNeeds(env'[q], f) : status'[q][g] = "passed"
    BY DEF FlowInv, Running
  <2>1. CASE Running(q)
    BY <1>2, <2>1 DEF FlowInv
  <2>2. CASE ~Running(q)
    <3>1. status'[q][f] = "waiting" /\ next'[q][f] = 1
      BY <1>3, <2>2
    <3>2. Len(Steps(env'[q], f)) \in Nat \ {0}
      BY StepsType
    <3>. QED
      BY <3>1, <3>2
  <2>. QED
    BY <2>1, <2>2
<1>7. GroupInv'
  <2> SUFFICES ASSUME NEW q \in Pipeline, NEW r \in Pipeline,
                      NEW f \in DOMAIN status'[q], NEW g \in DOMAIN status'[r],
                      status'[q][f] = "running", status'[r][g] = "running",
                      Group(f) = Group(g), f # Validate
               PROVE  q = r /\ f = g
    BY DEF GroupInv
  <2>. QED
    BY <1>5 DEF GroupInv
<1>8. VolumeInv'
  <2> SUFFICES ASSUME NEW q \in Pipeline, NEW f \in DOMAIN status'[q],
                      f.kind = "rollout", status'[q][f] = "running", next'[q][f] = 2,
                      Plans(env'[q], f.at)
               PROVE  volume'[f.at] = q
    BY DEF VolumeInv
  <2>. QED
    BY <1>1, <1>5 DEF VolumeInv
<1>9. EffectInv'
  <2> SUFFICES ASSUME NEW x \in effects
               PROVE  /\ x.by \in Pipeline /\ stage'[x.by] = "running"
                      /\ x.what = "apply" => x.plan = x.by
                      /\ Deployment(env'[x.by]) /\ x.what \in {"apply", "configure", "sync"}
                           => x.at = env'[x.by].target
                      /\ \E f \in DOMAIN status'[x.by] :
                           status'[x.by][f] # "waiting" /\ Origin(x, f)'
    BY <1>1 DEF EffectInv, Running
  <2>1. x.by \in Pipeline /\ Running(x.by)
    BY DEF EffectInv
  <2>2. PICK f \in DOMAIN status[x.by] : status[x.by][f] # "waiting" /\ Origin(x, f)
    BY DEF EffectInv
  <2>3. /\ stage'[x.by] = "running" /\ env'[x.by] = env[x.by]
        /\ status'[x.by] = status[x.by] /\ next'[x.by] = next[x.by]
    BY <1>2, <2>1
  <2>4. Origin(x, f)'
    BY <2>2, <2>3 DEF Origin
  <2>. QED
    BY <2>1, <2>2, <2>3, <2>4 DEF EffectInv
<1>10. LeftInv'
  <2> SUFFICES ASSUME NEW q \in Pipeline, stage'[q] = "running"
               PROVE  /\ Platform \in Flows(env'[q]) =>
                           \A k \in 1..(next'[q][Platform] - 1) :
                             Steps(env'[q], Platform)[k].do \in Changing =>
                               Effect(q, Steps(env'[q], Platform)[k].do,
                                      Steps(env'[q], Platform)[k].on, Nobody) \in effects'
                      /\ \A t \in Rollouts(env'[q]) :
                           (/\ Applies(env'[q]) /\ status'[q][Flow("rollout", t)] = "passed"
                            /\ t[1] \in Jobs(env'[q]) /\ ConfigureNeeded(t[1], Known(env'[q])))
                              => \E x \in {y \in effects' : y.by = q} :
                                   x.what = "configure" /\ x.at = t
    BY DEF LeftInv, Running, By
  <2>1. CASE Running(q)
    BY <1>1, <1>2, <2>1 DEF LeftInv, By
  <2>2. CASE ~Running(q)
    <3>1. ASSUME Platform \in Flows(env'[q]) PROVE 1..(next'[q][Platform] - 1) = {}
      BY <1>3, <2>2, <3>1
    <3>2. ASSUME NEW t \in Rollouts(env'[q]) PROVE status'[q][Flow("rollout", t)] # "passed"
      <4>1. Flow("rollout", t) \in Flows(env'[q])
        BY FlowsOf
      <4>. QED
        BY <1>3, <2>2, <4>1
    <3>. QED
      BY <3>1, <3>2
  <2>. QED
    BY <2>1, <2>2
<1>. QED
  BY <1>6, <1>7, <1>8, <1>9, <1>10

-----------------------------------------------------------------------------
(* The steps of the flows. *)

\* A flow's status and step become st and n; all else of the pipelines stays.
Moved(p, f, st, n) ==
  /\ UNCHANGED <<stage, hook, env, workflow>>
  /\ DOMAIN status' = Pipeline /\ DOMAIN next' = Pipeline
  /\ \A q \in Pipeline \ {p} : status'[q] = status[q] /\ next'[q] = next[q]
  /\ status'[p] = [status[p] EXCEPT ![f] = st]
  /\ next'[p] = [next[p] EXCEPT ![f] = n]

\* What FinishStep makes of a flow's status.
StatusAfter(p, f) == IF next[p][f] = Len(Steps(env[p], f)) THEN "passed" ELSE "running"

LEMMA StartMoves ==
  ASSUME StageInv, NEW p \in Pipeline, NEW f \in DOMAIN status[p], StartFlow(p, f)
  PROVE  Moved(p, f, "running", next[p][f])
<1>1. /\ status' = [status EXCEPT ![p][f] = "running"]
      /\ UNCHANGED <<stage, hook, env, workflow, next>>
  BY DEF StartFlow, Set
<1>2. next[p] \in [Flows(env[p]) -> Nat] /\ DOMAIN status = Pipeline /\ DOMAIN next = Pipeline
  BY Unfolds DEF StageInv
<1>3. next[p] = [next[p] EXCEPT ![f] = next[p][f]]
  BY <1>2
<1>. QED
  BY <1>1, <1>2, <1>3 DEF Moved

LEMMA FinishMoves ==
  ASSUME StageInv, NEW p \in Pipeline, NEW f \in DOMAIN status[p], FinishStep(p, f)
  PROVE  Moved(p, f, StatusAfter(p, f), next[p][f] + 1)
<1>1. /\ status[p][f] = "running"
      /\ next' = [next EXCEPT ![p][f] = next[p][f] + 1]
      /\ IF next[p][f] = Len(workflow[p][f].steps)
         THEN status' = [status EXCEPT ![p][f] = "passed"] ELSE status' = status
      /\ UNCHANGED <<stage, hook, env, workflow>>
  BY DEF FinishStep, Advance, Set
<1>2. /\ status[p] \in [Flows(env[p]) -> FlowStatus] /\ next[p] \in [Flows(env[p]) -> Nat]
      /\ DOMAIN status = Pipeline /\ DOMAIN next = Pipeline
      /\ workflow[p][f].steps = Steps(env[p], f)
  BY Unfolds DEF StageInv
<1>3. /\ DOMAIN status' = Pipeline /\ \A q \in Pipeline \ {p} : status'[q] = status[q]
      /\ status'[p] = [status[p] EXCEPT ![f] = StatusAfter(p, f)]
  <2>1. CASE next[p][f] = Len(Steps(env[p], f))
    BY <1>1, <1>2, <2>1 DEF StatusAfter
  <2>2. CASE next[p][f] # Len(Steps(env[p], f))
    <3>1. status' = status /\ StatusAfter(p, f) = status[p][f]
      BY <1>1, <1>2, <2>2 DEF StatusAfter
    <3>2. status[p] = [status[p] EXCEPT ![f] = status[p][f]]
      BY <1>2
    <3>. QED
      BY <1>2, <3>1, <3>2
  <2>. QED
    BY <2>1, <2>2
<1>4. /\ DOMAIN next' = Pipeline /\ \A q \in Pipeline \ {p} : next'[q] = next[q]
      /\ next'[p] = [next[p] EXCEPT ![f] = next[p][f] + 1]
  BY <1>1, <1>2
<1>. QED
  BY <1>1, <1>3, <1>4 DEF Moved

LEMMA FailMoves ==
  ASSUME StageInv, NEW p \in Pipeline, NEW f \in DOMAIN status[p], FailStep(p, f)
  PROVE  Moved(p, f, "failed", next[p][f])
<1>1. /\ status' = [status EXCEPT ![p][f] = "failed"]
      /\ UNCHANGED <<stage, hook, env, workflow, next>>
  BY DEF FailStep, Set
<1>2. next[p] \in [Flows(env[p]) -> Nat] /\ DOMAIN status = Pipeline /\ DOMAIN next = Pipeline
  BY Unfolds DEF StageInv
<1>3. next[p] = [next[p] EXCEPT ![f] = next[p][f]]
  BY <1>2
<1>. QED
  BY <1>1, <1>2, <1>3 DEF Moved

\* Flow by flow.
LEMMA MovedFlows ==
  ASSUME StageInv, NEW p \in Pipeline, NEW f \in DOMAIN status[p], NEW st, NEW n,
         Moved(p, f, st, n), NEW q \in Pipeline
  PROVE  /\ DOMAIN status'[q] = DOMAIN status[q]
         /\ \A g \in DOMAIN status[q] :
              /\ status'[q][g] = IF q = p /\ g = f THEN st ELSE status[q][g]
              /\ next'[q][g] = IF q = p /\ g = f THEN n ELSE next[q][g]
<1>1. CASE q # p
  BY <1>1 DEF Moved
<1>2. CASE q = p
  <2>1. status[p] \in [Flows(env[p]) -> FlowStatus] /\ next[p] \in [Flows(env[p]) -> Nat]
    BY Unfolds DEF StageInv
  <2>. QED
    BY <1>2, <2>1 DEF Moved
<1>. QED
  BY <1>1, <1>2

LEMMA MovedType ==
  ASSUME StageInv, NEW p \in Pipeline, NEW f \in DOMAIN status[p],
         NEW st \in FlowStatus, NEW n \in Nat, Moved(p, f, st, n),
         volume' \in [AllTargets -> Pipeline \cup {Nobody}], faults' \in 0..MaxFaults
  PROVE  StageInv'
<1>1. AllTargets' = AllTargets
  BY DEF AllTargets
<1>2. UNCHANGED <<stage, hook, env, workflow>> /\ DOMAIN status' = Pipeline /\ DOMAIN next' = Pipeline
  BY DEF Moved
<1>3. ASSUME NEW q \in Pipeline
      PROVE  /\ ~Running(q) => DOMAIN status'[q] = {}
             /\ Running(q) => /\ status'[q] \in [Flows(env[q]) -> FlowStatus]
                              /\ next'[q] \in [Flows(env[q]) -> Nat]
  <2>1. CASE q = p
    <3>1. /\ Running(p) /\ f \in Flows(env[p])
          /\ status[p] \in [Flows(env[p]) -> FlowStatus] /\ next[p] \in [Flows(env[p]) -> Nat]
      BY Unfolds DEF StageInv
    <3>. QED
      BY <2>1, <3>1 DEF Moved
  <2>2. CASE q # p
    BY <2>2 DEF Moved, StageInv
  <2>. QED
    BY <2>1, <2>2
<1>. QED
  BY <1>1, <1>2, <1>3 DEF StageInv, Running

\* FlowInv is about the flow that moved alone: what it was needed for has not
\* started before.
LEMMA MovedInOrder ==
  ASSUME StageInv, FlowInv, NEW p \in Pipeline, NEW f \in DOMAIN status[p], NEW st, NEW n,
         Moved(p, f, st, n), status[p][f] # "passed",
         st = "waiting" => n = 1,
         st # "passed" => n \in 1..Len(Steps(env[p], f)),
         st = "passed" => n = Len(Steps(env[p], f)) + 1,
         st # "waiting" => \A g \in FlowNeeds(env[p], f) : status[p][g] = "passed"
  PROVE  FlowInv'
<1> SUFFICES ASSUME NEW q \in Pipeline, Running(q), NEW g \in Flows(env[q])
             PROVE  /\ status'[q][g] = "waiting" => next'[q][g] = 1
                    /\ status'[q][g] # "passed" => next'[q][g] \in 1..Len(Steps(env[q], g))
                    /\ status'[q][g] = "passed" => next'[q][g] = Len(Steps(env[q], g)) + 1
                    /\ status'[q][g] # "waiting" =>
                         \A h \in FlowNeeds(env[q], g) : status'[q][h] = "passed"
  <2>1. UNCHANGED <<stage, env>>
    BY DEF Moved
  <2>. QED
    BY <2>1 DEF FlowInv, Running
<1>1. DOMAIN status[q] = Flows(env[q])
  BY DEF StageInv
<1>2. \A h \in DOMAIN status[q] :
        /\ status'[q][h] = IF q = p /\ h = f THEN st ELSE status[q][h]
        /\ next'[q][h] = IF q = p /\ h = f THEN n ELSE next[q][h]
  BY MovedFlows
<1>3. \A h \in FlowNeeds(env[q], g) : h \in Flows(env[q])
  BY NeedsInside
<1>4. \A h \in Flows(env[q]) : status[q][h] = "passed" => status'[q][h] = "passed"
  BY <1>1, <1>2
<1>5. CASE q = p /\ g = f
  <2>1. status'[q][g] = st /\ next'[q][g] = n
    BY <1>1, <1>2, <1>5
  <2>2. st # "waiting" => \A h \in FlowNeeds(env[q], g) : status'[q][h] = "passed"
    BY <1>3, <1>4, <1>5
  <2>. QED
    BY <1>5, <2>1, <2>2
<1>6. CASE ~(q = p /\ g = f)
  <2>1. status'[q][g] = status[q][g] /\ next'[q][g] = next[q][g]
    BY <1>1, <1>2, <1>6
  <2>2. /\ status[q][g] = "waiting" => next[q][g] = 1
        /\ status[q][g] # "passed" => next[q][g] \in 1..Len(Steps(env[q], g))
        /\ status[q][g] = "passed" => next[q][g] = Len(Steps(env[q], g)) + 1
        /\ status[q][g] # "waiting" => \A h \in FlowNeeds(env[q], g) : status[q][h] = "passed"
    BY DEF FlowInv
  <2>3. status[q][g] # "waiting" => \A h \in FlowNeeds(env[q], g) : status'[q][h] = "passed"
    BY <1>3, <1>4, <2>2
  <2>. QED
    BY <2>1, <2>2, <2>3
<1>. QED
  BY <1>5, <1>6

\* What was changed before keeps its origin.
LEMMA MovedEffects ==
  ASSUME StageInv, EffectInv, NEW p \in Pipeline, NEW f \in DOMAIN status[p], NEW st, NEW n \in Nat,
         Moved(p, f, st, n), st # "waiting", next[p][f] <= n,
         NEW x \in effects
  PROVE  /\ x.by \in Pipeline /\ stage'[x.by] = "running"
         /\ x.what = "apply" => x.plan = x.by
         /\ Deployment(env'[x.by]) /\ x.what \in {"apply", "configure", "sync"}
              => x.at = env'[x.by].target
         /\ \E g \in DOMAIN status'[x.by] : status'[x.by][g] # "waiting" /\ Origin(x, g)'
<1>1. UNCHANGED <<stage, env>>
  BY DEF Moved
<1>2. x.by \in Pipeline /\ Running(x.by)
  BY DEF EffectInv
<1>3. PICK g \in DOMAIN status[x.by] : status[x.by][g] # "waiting" /\ Origin(x, g)
  BY DEF EffectInv
<1>4. /\ DOMAIN status'[x.by] = DOMAIN status[x.by]
      /\ status'[x.by][g] = IF x.by = p /\ g = f THEN st ELSE status[x.by][g]
      /\ next'[x.by][g] = IF x.by = p /\ g = f THEN n ELSE next[x.by][g]
  BY <1>2, <1>3, MovedFlows
<1>5. next[x.by][g] \in Nat /\ next'[x.by][g] \in Nat /\ next[x.by][g] <= next'[x.by][g]
  BY <1>2, <1>3, <1>4, Unfolds
<1>6. Origin(x, g)'
  <2>1. CASE /\ g = Platform /\ x.what \in Changing
             /\ \E k \in 1..Len(Steps(env[x.by], g)) :
                  k <= next[x.by][g] /\ Steps(env[x.by], g)[k].do = x.what
    <3>1. PICK k \in 1..Len(Steps(env[x.by], g)) :
            k <= next[x.by][g] /\ Steps(env[x.by], g)[k].do = x.what
      BY <2>1
    <3>2. k <= next'[x.by][g]
      BY <1>5, <3>1
    <3>. QED
      BY <1>1, <2>1, <3>1, <3>2 DEF Origin
  <2>2. CASE \/ g.kind = "rollout" /\ x.what \in {"apply", "configure"}
             \/ g = Post /\ x.what \in {"configure", "sync", "routes"}
    BY <2>2 DEF Origin
  <2>. QED
    BY <1>3, <2>1, <2>2 DEF Origin
<1>7. status'[x.by][g] # "waiting"
  BY <1>3, <1>4
<1>. QED
  BY <1>1, <1>2, <1>3, <1>4, <1>6, <1>7 DEF EffectInv, Running

\* What a step changes has its origin in the flow that moved; what it applies is the
\* plan of its own pipeline.
LEMMA StepEffects ==
  ASSUME StageInv, FlowInv, VolumeInv,
         NEW p \in Pipeline, NEW f \in DOMAIN status[p], NEW st, NEW n \in Nat,
         Moved(p, f, st, n), st # "waiting", next[p][f] <= n, status[p][f] = "running",
         NEW x \in EffectsOf(p, f, Step(p, f))
  PROVE  /\ x.by \in Pipeline /\ stage'[x.by] = "running"
         /\ x.what = "apply" => x.plan = x.by
         /\ Deployment(env'[x.by]) /\ x.what \in {"apply", "configure", "sync"}
              => x.at = env'[x.by].target
         /\ \E g \in DOMAIN status'[x.by] : status'[x.by][g] # "waiting" /\ Origin(x, g)'
<1> DEFINE k == next[p][f]
<1>1. UNCHANGED <<stage, env>>
  BY DEF Moved
<1>2. /\ Running(p) /\ f \in Flows(env[p]) /\ workflow[p][f].steps = Steps(env[p], f)
  BY Unfolds
<1>3. k \in 1..Len(Steps(env[p], f)) /\ k \in Nat
  BY <1>2, Unfolds DEF FlowInv
<1>4. x \in EffectsOf(p, f, Steps(env[p], f)[k])
  BY <1>2 DEF Step
<1>5. /\ x.by = p
      /\ x.what = "apply" => /\ f.kind = "rollout" /\ k = 2 /\ Plans(env[p], f.at)
                             /\ x.plan = volume[f.at]
      /\ Deployment(env[p]) /\ x.what \in {"apply", "configure", "sync"}
           => x.at = env[p].target
      /\ \/ f = Platform /\ x.what \in Changing /\ Steps(env[p], f)[k].do = x.what
         \/ f.kind = "rollout" /\ x.what \in {"apply", "configure"}
         \/ f = Post /\ x.what \in {"configure", "sync", "routes"}
  <2>1. f \in Flows(env[p]) /\ k \in 1..Len(Steps(env[p], f))
    BY <1>2, <1>3
  <2> HIDE DEF k
  <2>. QED
    BY <1>4, <2>1, EffectsFrom
<1>6. x.what = "apply" => x.plan = p
  BY <1>5 DEF VolumeInv
<1>7. f \in DOMAIN status'[p] /\ status'[p][f] = st /\ next'[p][f] = n
  BY MovedFlows
<1>8. k <= next'[p][f]
  BY <1>7
<1> HIDE DEF k
<1>9. Origin(x, f)'
  BY <1>1, <1>3, <1>5, <1>8 DEF Origin
<1>. QED
  BY <1>1, <1>2, <1>5, <1>6, <1>7, <1>9 DEF Running

\* What the flow that moved has to leave is there; what the others left stays.
LEMMA MovedLeaves ==
  ASSUME StageInv, LeftInv, NEW p \in Pipeline, NEW f \in DOMAIN status[p], NEW st, NEW n \in Nat,
         Moved(p, f, st, n), effects \subseteq effects',
         n = next[p][f] \/ n = next[p][f] + 1,
         f = Platform /\ n # next[p][f] =>
           LET c == Steps(env[p], Platform)[next[p][f]]
           IN c.do \in Changing => Effect(p, c.do, c.on, Nobody) \in effects',
         \A t \in Rollouts(env[p]) :
           (/\ f = Flow("rollout", t) /\ Applies(env[p]) /\ st = "passed"
            /\ t[1] \in Jobs(env[p]) /\ ConfigureNeeded(t[1], Known(env[p])))
              => \E x \in effects' : x.by = p /\ x.what = "configure" /\ x.at = t
  PROVE  LeftInv'
<1>1. UNCHANGED <<stage, env>>
  BY DEF Moved
<1> SUFFICES ASSUME NEW q \in Pipeline, Running(q)
             PROVE  /\ Platform \in Flows(env[q]) =>
                         \A k \in 1..(next'[q][Platform] - 1) :
                           LET c == Steps(env[q], Platform)[k]
                           IN c.do \in Changing => Effect(q, c.do, c.on, Nobody) \in effects'
                    /\ \A t \in Rollouts(env[q]) :
                         (/\ Applies(env[q]) /\ status'[q][Flow("rollout", t)] = "passed"
                          /\ t[1] \in Jobs(env[q]) /\ ConfigureNeeded(t[1], Known(env[q])))
                            => \E x \in effects' :
                                 x.by = q /\ x.what = "configure" /\ x.at = t
  BY <1>1 DEF LeftInv, Running, By
<1>2. DOMAIN status[q] = Flows(env[q])
  BY DEF StageInv
<1>3. \A g \in Flows(env[q]) :
        /\ status'[q][g] = IF q = p /\ g = f THEN st ELSE status[q][g]
        /\ next'[q][g] = IF q = p /\ g = f THEN n ELSE next[q][g]
  BY <1>2, MovedFlows
<1>4. ASSUME Platform \in Flows(env[q]), NEW k \in 1..(next'[q][Platform] - 1),
             Steps(env[q], Platform)[k].do \in Changing
      PROVE  Effect(q, Steps(env[q], Platform)[k].do, Steps(env[q], Platform)[k].on, Nobody)
               \in effects'
  <2>1. next[q][Platform] \in Nat
    BY <1>2, <1>4, Unfolds
  <2>2. CASE k \in 1..(next[q][Platform] - 1)
    BY <1>4, <2>2 DEF LeftInv
  <2>3. CASE k \notin 1..(next[q][Platform] - 1)
    <3>1. next'[q][Platform] # next[q][Platform]
      BY <2>3
    <3>2. q = p /\ f = Platform /\ next'[q][Platform] = n
      BY <1>3, <1>4, <3>1
    <3>3. k = next[p][f] /\ n # next[p][f]
      BY <2>1, <2>3, <3>1, <3>2
    <3>. QED
      BY <1>4, <3>2, <3>3
  <2>. QED
    BY <2>2, <2>3
<1>5. ASSUME NEW t \in Rollouts(env[q]), Applies(env[q]),
             status'[q][Flow("rollout", t)] = "passed",
             t[1] \in Jobs(env[q]), ConfigureNeeded(t[1], Known(env[q]))
      PROVE  \E x \in effects' : x.by = q /\ x.what = "configure" /\ x.at = t
  <2>1. Flow("rollout", t) \in Flows(env[q])
    BY FlowsOf
  <2>2. CASE q = p /\ f = Flow("rollout", t)
    BY <1>3, <1>5, <2>1, <2>2
  <2>3. CASE ~(q = p /\ f = Flow("rollout", t))
    <3>1. status[q][Flow("rollout", t)] = "passed"
      BY <1>3, <1>5, <2>1, <2>3
    <3>. QED
      BY <1>5, <3>1 DEF LeftInv, By
  <2>. QED
    BY <2>2, <2>3
<1>. QED
  BY <1>4, <1>5

\* A flow that runs on or stops running takes nobody's place.
LEMMA MovedInGroup ==
  ASSUME StageInv, GroupInv, NEW p \in Pipeline, NEW f \in DOMAIN status[p], NEW st, NEW n,
         Moved(p, f, st, n), status[p][f] = "running"
  PROVE  GroupInv'
<1> SUFFICES ASSUME NEW q \in Pipeline, NEW r \in Pipeline,
                    NEW g \in DOMAIN status'[q], NEW h \in DOMAIN status'[r],
                    status'[q][g] = "running", status'[r][h] = "running",
                    Group(g) = Group(h), g # Validate
             PROVE  q = r /\ g = h
  BY DEF GroupInv
<1>1. g \in DOMAIN status[q] /\ status[q][g] = "running"
  BY MovedFlows
<1>2. h \in DOMAIN status[r] /\ status[r][h] = "running"
  BY MovedFlows
<1>. QED
  BY <1>1, <1>2 DEF GroupInv

\* A flow leaves the volumes of the other targets alone, and of its own target
\* unless it plans.
LEMMA PlanLeft ==
  ASSUME StageInv, FlowInv, NEW p \in Pipeline, NEW f \in DOMAIN status[p],
         status[p][f] = "running", LeavePlan(p, f) \/ UNCHANGED volume
  PROVE  /\ volume' \in [AllTargets -> Pipeline \cup {Nobody}]
         /\ \A t \in AllTargets : volume'[t] # volume[t] => f.kind = "rollout" /\ f.at = t
         /\ (/\ LeavePlan(p, f) /\ f.kind = "rollout" /\ next[p][f] = 1 /\ Plans(env[p], f.at))
              => volume'[f.at] = p
<1>1. /\ Running(p) /\ f \in Flows(env[p]) /\ workflow[p][f].steps = Steps(env[p], f)
  BY Unfolds
<1>2. next[p][f] \in 1..Len(Steps(env[p], f))
  BY <1>1 DEF FlowInv
<1>3. volume \in [AllTargets -> Pipeline \cup {Nobody}]
  BY DEF StageInv
<1>4. Step(p, f).do = "plan" => f.kind = "rollout"
  <2>1. CASE f = Validate
    BY <1>1, <1>2, <2>1, StepsType DEF Step
  <2>2. CASE f = Platform
    <3>1. Step(p, f).do \in Early \cup Late
      BY <1>1, <1>2, <2>2, StepsType DEF Step
    <3>. QED
      BY <3>1 DEF Early, Late
  <2>3. CASE f = Post
    <3>1. Step(p, f) \in PostCommands
      BY <1>1, <1>2, <2>3, StepsType DEF Step
    <3>. QED
      BY <3>1 DEF PostCommands
  <2>. QED
    BY <1>1, <2>1, <2>2, <2>3, FlowCases
<1>5. f.kind = "rollout" => f.at \in AllTargets
  <2>1. f.kind = "rollout" => f.at \in Rollouts(env[p])
    BY <1>1, FlowCases, Kinds
  <2>. QED
    BY <2>1, RolloutTypes
<1>6. f.kind = "rollout" /\ next[p][f] = 1 => Step(p, f).do = "plan"
  BY <1>1, StepsType DEF Step
<1>7. CASE LeavePlan(p, f) /\ Step(p, f).do = "plan" /\ Plans(env[p], f.at)
  <2>1. volume' = [volume EXCEPT ![f.at] = p]
    BY <1>7 DEF LeavePlan
  <2>. QED
    BY <1>3, <1>4, <1>5, <1>7, <2>1
<1>8. CASE ~(LeavePlan(p, f) /\ Step(p, f).do = "plan" /\ Plans(env[p], f.at))
  <2>1. volume' = volume
    BY <1>8 DEF LeavePlan
  <2>. QED
    BY <1>3, <1>6, <1>8, <2>1
<1>. QED
  BY <1>7, <1>8

\* While the flow of a target runs nobody else writes the target's volume.
LEMMA MovedVolume ==
  ASSUME StageInv, FlowInv, GroupInv, VolumeInv,
         NEW p \in Pipeline, NEW f \in DOMAIN status[p], NEW st, NEW n,
         Moved(p, f, st, n), status[p][f] = "running", LeavePlan(p, f) \/ UNCHANGED volume,
         st = "running" => LeavePlan(p, f) /\ n = next[p][f] + 1
  PROVE  VolumeInv'
<1> SUFFICES ASSUME NEW q \in Pipeline, NEW g \in DOMAIN status'[q],
                    g.kind = "rollout", status'[q][g] = "running", next'[q][g] = 2,
                    Plans(env[q], g.at)
             PROVE  volume'[g.at] = q
  BY DEF VolumeInv, Moved
<1>1. /\ g \in DOMAIN status[q]
      /\ status'[q][g] = IF q = p /\ g = f THEN st ELSE status[q][g]
      /\ next'[q][g] = IF q = p /\ g = f THEN n ELSE next[q][g]
  BY MovedFlows
<1>2. CASE q = p /\ g = f
  <2>1. next[p][f] \in Nat
    BY Unfolds
  <2>2. st = "running" /\ next[p][f] = 1
    BY <1>1, <1>2, <2>1
  <2>. QED
    BY <1>2, <2>2, PlanLeft
<1>3. CASE ~(q = p /\ g = f)
  <2>1. status[q][g] = "running" /\ next[q][g] = 2
    BY <1>1, <1>3
  <2>2. volume[g.at] = q
    BY <1>1, <2>1 DEF VolumeInv
  <2>3. g.at \in AllTargets
    <3>1. g \in Flows(env[q])
      BY <1>1, Unfolds
    <3>. QED
      BY <3>1, FlowCases, Kinds, RolloutTypes
  <2>4. volume'[g.at] = volume[g.at]
    <3> SUFFICES ASSUME volume'[g.at] # volume[g.at] PROVE FALSE
      OBVIOUS
    <3>1. f.kind = "rollout" /\ f.at = g.at
      BY <2>3, PlanLeft
    <3>2. Group(f) = Group(g) /\ f # Validate
      BY <3>1, Kinds DEF Group
    <3>. QED
      BY <1>1, <1>3, <2>1, <3>2 DEF GroupInv
  <2>. QED
    BY <2>2, <2>4
<1>. QED
  BY <1>2, <1>3

-----------------------------------------------------------------------------
(* The invariant. *)

RunInv == StageInv /\ FlowInv /\ GroupInv /\ VolumeInv /\ EffectInv /\ LeftInv

LEMMA StartKeeps ==
  ASSUME RunInv, NEW p \in Pipeline, NEW f \in DOMAIN status[p], StartFlow(p, f)
  PROVE  RunInv'
<1>1. StageInv /\ FlowInv /\ GroupInv /\ VolumeInv /\ EffectInv /\ LeftInv
  BY DEF RunInv
<1> DEFINE n == next[p][f]
<1>2. Moved(p, f, "running", n)
  BY <1>1, StartMoves
<1>3. /\ status[p][f] = "waiting" /\ (f # Validate => InGroup(Group(f)) = {})
      /\ \A g \in workflow[p][f].needs : status[p][g] = "passed"
      /\ UNCHANGED <<volume, effects, faults>>
  BY DEF StartFlow
<1>4. /\ Running(p) /\ f \in Flows(env[p]) /\ n \in Nat
      /\ workflow[p][f].needs = FlowNeeds(env[p], f)
  BY <1>1, Unfolds
<1>5. n = 1 /\ n \in 1..Len(Steps(env[p], f))
  BY <1>1, <1>3, <1>4 DEF FlowInv
<1>6. StageInv'
  <2>1. volume' \in [AllTargets -> Pipeline \cup {Nobody}] /\ faults' \in 0..MaxFaults
    BY <1>1, <1>3 DEF StageInv
  <2>2. "running" \in FlowStatus
    BY DEF FlowStatus
  <2>. QED
    BY <1>1, <1>2, <1>4, <2>1, <2>2, MovedType
<1>7. FlowInv'
  <2>1. status[p][f] # "passed" /\ \A g \in FlowNeeds(env[p], f) : status[p][g] = "passed"
    BY <1>3, <1>4
  <2> HIDE DEF n
  <2>. QED
    BY <1>1, <1>2, <1>5, <2>1, MovedInOrder
<1>8. ASSUME NEW q \in Pipeline, NEW g \in DOMAIN status[q]
      PROVE  /\ DOMAIN status'[q] = DOMAIN status[q]
             /\ status'[q][g] = IF q = p /\ g = f THEN "running" ELSE status[q][g]
             /\ next'[q][g] = next[q][g]
  BY <1>1, <1>2, MovedFlows
<1>9. ASSUME NEW q \in Pipeline, NEW g \in DOMAIN status[q], status[q][g] = "running"
      PROVE  f # Validate => Group(g) # Group(f)
  BY <1>3, <1>9 DEF InGroup
<1>10. GroupInv'
  <2> SUFFICES ASSUME NEW q \in Pipeline, NEW r \in Pipeline,
                      NEW g \in DOMAIN status'[q], NEW h \in DOMAIN status'[r],
                      status'[q][g] = "running", status'[r][h] = "running",
                      Group(g) = Group(h), g # Validate
               PROVE  q = r /\ g = h
    BY DEF GroupInv
  <2>1. g \in DOMAIN status[q] /\ h \in DOMAIN status[r]
    BY <1>1, <1>2, MovedFlows
  <2>2. (q = p /\ g = f) \/ status[q][g] = "running"
    BY <1>8, <2>1
  <2>3. (r = p /\ h = f) \/ status[r][h] = "running"
    BY <1>8, <2>1
  <2>4. h # Validate
    BY Kinds DEF Group
  <2>. QED
    BY <1>1, <1>9, <2>1, <2>2, <2>3, <2>4 DEF GroupInv
<1>11. VolumeInv'
  <2> SUFFICES ASSUME NEW q \in Pipeline, NEW g \in DOMAIN status'[q],
                      g.kind = "rollout", status'[q][g] = "running", next'[q][g] = 2,
                      Plans(env[q], g.at)
               PROVE  volume'[g.at] = q
    BY <1>2 DEF VolumeInv, Moved
  <2>1. g \in DOMAIN status[q]
    BY <1>1, <1>2, MovedFlows
  <2>2. status[q][g] = "running" /\ next[q][g] = 2
    BY <1>5, <1>8, <2>1
  <2>. QED
    BY <1>1, <1>3, <2>1, <2>2 DEF VolumeInv
<1>12. EffectInv'
  <2>1. n <= n
    BY <1>4
  <2> HIDE DEF n
  <2>2. ASSUME NEW x \in effects
        PROVE  /\ x.by \in Pipeline /\ stage'[x.by] = "running"
               /\ x.what = "apply" => x.plan = x.by
               /\ Deployment(env'[x.by]) /\ x.what \in {"apply", "configure", "sync"}
                    => x.at = env'[x.by].target
               /\ \E g \in DOMAIN status'[x.by] : status'[x.by][g] # "waiting" /\ Origin(x, g)'
    BY <1>1, <1>2, <1>4, <2>1, MovedEffects DEF n
  <2>. QED
    BY <1>3, <2>2 DEF EffectInv, Running
<1>13. LeftInv'
  BY <1>1, <1>2, <1>3, <1>4, MovedLeaves
<1>. QED
  BY <1>6, <1>7, <1>10, <1>11, <1>12, <1>13 DEF RunInv

LEMMA FinishKeeps ==
  ASSUME RunInv, NEW p \in Pipeline, NEW f \in DOMAIN status[p], FinishStep(p, f)
  PROVE  RunInv'
<1> DEFINE k == next[p][f]
           n == next[p][f] + 1
           st == StatusAfter(p, f)
<1>1. StageInv /\ FlowInv /\ GroupInv /\ VolumeInv /\ EffectInv /\ LeftInv
  BY DEF RunInv
<1>2. Moved(p, f, st, n)
  BY <1>1, FinishMoves
<1>3. /\ status[p][f] = "running" /\ LeavePlan(p, f) /\ faults' = faults
      /\ effects' = effects \cup EffectsOf(p, f, Step(p, f))
  BY DEF FinishStep
<1>4. /\ Running(p) /\ f \in Flows(env[p]) /\ k \in Nat /\ Step(p, f) = Steps(env[p], f)[k]
  BY <1>1, Unfolds DEF Step
<1>5. /\ k \in 1..Len(Steps(env[p], f)) /\ Len(Steps(env[p], f)) \in Nat
      /\ \A g \in FlowNeeds(env[p], f) : status[p][g] = "passed"
  BY <1>1, <1>3, <1>4, StepsType DEF FlowInv
<1>6. /\ n \in Nat /\ k <= n /\ n # k /\ st \in {"passed", "running"}
      /\ st = "passed" <=> k = Len(Steps(env[p], f))
  BY <1>4 DEF StatusAfter
<1>7. StageInv'
  <2>1. volume' \in [AllTargets -> Pipeline \cup {Nobody}] /\ faults' \in 0..MaxFaults
    BY <1>1, <1>3, PlanLeft DEF StageInv
  <2>2. st \in FlowStatus
    BY <1>6 DEF FlowStatus
  <2>. QED
    BY <1>1, <1>2, <1>6, <2>1, <2>2, MovedType
<1>8. FlowInv'
  <2>1. /\ st # "waiting" /\ (st # "passed" => n \in 1..Len(Steps(env[p], f)))
        /\ st = "passed" => n = Len(Steps(env[p], f)) + 1
    BY <1>5, <1>6
  <2> HIDE DEF n, st
  <2>. QED
    BY <1>1, <1>2, <1>3, <1>5, <2>1, MovedInOrder
<1>9. GroupInv'
  BY <1>1, <1>2, <1>3, MovedInGroup
<1>10. VolumeInv'
  BY <1>1, <1>2, <1>3, MovedVolume
<1>11. EffectInv'
  <2>1. st # "waiting" /\ next[p][f] <= n /\ n \in Nat
    BY <1>6
  <2> HIDE DEF n, st
  <2>2. ASSUME NEW x \in effects'
        PROVE  /\ x.by \in Pipeline /\ stage'[x.by] = "running"
               /\ x.what = "apply" => x.plan = x.by
               /\ Deployment(env'[x.by]) /\ x.what \in {"apply", "configure", "sync"}
                    => x.at = env'[x.by].target
               /\ \E g \in DOMAIN status'[x.by] : status'[x.by][g] # "waiting" /\ Origin(x, g)'
    <3>1. CASE x \in effects
      BY <1>1, <1>2, <2>1, <3>1, MovedEffects
    <3>2. CASE x \in EffectsOf(p, f, Step(p, f))
      BY <1>1, <1>2, <1>3, <2>1, <3>2, StepEffects
    <3>. QED
      BY <1>3, <3>1, <3>2
  <2>. QED
    BY <2>2 DEF EffectInv, Running
<1>12. LeftInv'
  <2>1. ASSUME f = Platform, Steps(env[p], Platform)[k].do \in Changing
        PROVE  Effect(p, Steps(env[p], Platform)[k].do, Steps(env[p], Platform)[k].on, Nobody)
                 \in effects'
    <3> DEFINE c == Steps(env[p], Platform)[k]
    <3>1. Step(p, f) = c /\ c.do \in Changing
      BY <1>4, <2>1
    <3>2. EffectsOf(p, f, c) = {Effect(p, c.do, c.on, Nobody)}
      <4> HIDE DEF c
      <4>. QED
        BY <3>1, EffectsByStep
    <3>. QED
      BY <1>3, <3>1, <3>2
  <2>2. ASSUME NEW t \in Rollouts(env[p]), f = Flow("rollout", t), Applies(env[p]),
               st = "passed", t[1] \in Jobs(env[p]), ConfigureNeeded(t[1], Known(env[p]))
        PROVE  \E x \in effects' : x.by = p /\ x.what = "configure" /\ x.at = t
    <3>1. f.kind = "rollout" /\ f.at = t
      BY <2>2, Kinds
    <3>2. Step(p, f).do = "apply"
      BY <1>4, <1>6, <2>2, <3>1, StepsType
    <3>3. Configured(p, {t}) \subseteq effects'
      <4>1. Configured(p, {f.at}) \subseteq EffectsOf(p, f, Step(p, f))
        BY <3>2, EffectsByStep
      <4>. QED
        BY <1>3, <3>1, <4>1
    <3>4. Effect(p, "configure", t, Nobody) \in Configured(p, {t})
      BY <2>2 DEF Configured
    <3>. QED
      BY <3>3, <3>4, EffectFields
  <2>3. effects \subseteq effects'
    BY <1>3
  <2>4. n = next[p][f] \/ n = next[p][f] + 1
    OBVIOUS
  <2> HIDE DEF n, st
  <2>. QED
    BY <1>1, <1>2, <1>6, <2>1, <2>2, <2>3, <2>4, MovedLeaves
<1>. QED
  BY <1>7, <1>8, <1>9, <1>10, <1>11, <1>12 DEF RunInv

LEMMA FailKeeps ==
  ASSUME RunInv, NEW p \in Pipeline, NEW f \in DOMAIN status[p], FailStep(p, f)
  PROVE  RunInv'
<1> DEFINE n == next[p][f]
<1>1. StageInv /\ FlowInv /\ GroupInv /\ VolumeInv /\ EffectInv /\ LeftInv
  BY DEF RunInv
<1>2. Moved(p, f, "failed", n)
  BY <1>1, FailMoves
<1>3. /\ status[p][f] = "running" /\ (LeavePlan(p, f) \/ UNCHANGED volume)
      /\ faults < MaxFaults /\ faults' = faults + 1
  BY DEF FailStep
<1>4. PICK part \in PartsOf(p, f, Step(p, f)) : effects' = effects \cup part
  BY DEF FailStep
<1>5. part \subseteq EffectsOf(p, f, Step(p, f))
  BY DEF PartsOf
<1>6. Running(p) /\ f \in Flows(env[p]) /\ n \in Nat /\ n <= n
  BY <1>1, Unfolds
<1>7. /\ n \in 1..Len(Steps(env[p], f))
      /\ \A g \in FlowNeeds(env[p], f) : status[p][g] = "passed"
  BY <1>1, <1>3, <1>6 DEF FlowInv
<1>8. StageInv'
  <2>1. volume' \in [AllTargets -> Pipeline \cup {Nobody}] /\ faults' \in 0..MaxFaults
    BY <1>1, <1>3, PlanLeft, FaultAssumption DEF StageInv
  <2>2. "failed" \in FlowStatus
    BY DEF FlowStatus
  <2>. QED
    BY <1>1, <1>2, <1>6, <2>1, <2>2, MovedType
<1>9. FlowInv'
  <2> HIDE DEF n
  <2>. QED
    BY <1>1, <1>2, <1>3, <1>7, MovedInOrder
<1>10. GroupInv'
  BY <1>1, <1>2, <1>3, MovedInGroup
<1>11. VolumeInv'
  BY <1>1, <1>2, <1>3, MovedVolume
<1>12. EffectInv'
  <2>1. next[p][f] <= n
    BY <1>6
  <2> HIDE DEF n
  <2>2. ASSUME NEW x \in effects'
        PROVE  /\ x.by \in Pipeline /\ stage'[x.by] = "running"
               /\ x.what = "apply" => x.plan = x.by
               /\ Deployment(env'[x.by]) /\ x.what \in {"apply", "configure", "sync"}
                    => x.at = env'[x.by].target
               /\ \E g \in DOMAIN status'[x.by] : status'[x.by][g] # "waiting" /\ Origin(x, g)'
    <3>1. CASE x \in effects
      BY <1>1, <1>2, <1>6, <2>1, <3>1, MovedEffects
    <3>2. CASE x \in EffectsOf(p, f, Step(p, f))
      BY <1>1, <1>2, <1>3, <1>6, <2>1, <3>2, StepEffects
    <3>. QED
      BY <1>4, <1>5, <3>1, <3>2
  <2>. QED
    BY <2>2 DEF EffectInv, Running
<1>13. LeftInv'
  <2>1. effects \subseteq effects'
    BY <1>4
  <2>. QED
    BY <1>1, <1>2, <1>6, <2>1, MovedLeaves
<1>. QED
  BY <1>8, <1>9, <1>10, <1>11, <1>12, <1>13 DEF RunInv

LEMMA InitHolds == Init => RunInv
<1> SUFFICES ASSUME Init PROVE RunInv
  OBVIOUS
<1>1. /\ stage = [p \in Pipeline |-> "none"] /\ effects = {} /\ faults = 0
      /\ DOMAIN hook = Pipeline /\ DOMAIN env = Pipeline /\ DOMAIN workflow = Pipeline
      /\ DOMAIN status = Pipeline /\ DOMAIN next = Pipeline
      /\ volume = [t \in AllTargets |-> Nobody]
      /\ \A p \in Pipeline : status[p] = <<>>
  BY DEF Init
<1>2. \A p \in Pipeline : ~Running(p) /\ DOMAIN status[p] = {}
  BY <1>1 DEF Running
<1>3. StageInv
  BY <1>1, <1>2, FaultAssumption DEF StageInv, Running
<1>. QED
  BY <1>1, <1>2, <1>3 DEF RunInv, FlowInv, GroupInv, VolumeInv, EffectInv, LeftInv

LEMMA NextKeeps == RunInv /\ [Next]_vars => RunInv'
<1> SUFFICES ASSUME RunInv, [Next]_vars PROVE RunInv'
  OBVIOUS
<1>1. ASSUME NEW p \in Pipeline, Submit(p) \/ PipelineStep(p) PROVE RunInv'
  BY <1>1, PipelineFrame, PipelineKeeps DEF RunInv
<1>2. ASSUME NEW p \in Pipeline, NEW f \in DOMAIN status[p], StartFlow(p, f) PROVE RunInv'
  BY <1>2, StartKeeps
<1>3. ASSUME NEW p \in Pipeline, NEW f \in DOMAIN status[p], FinishStep(p, f) PROVE RunInv'
  BY <1>3, FinishKeeps
<1>4. ASSUME NEW p \in Pipeline, NEW f \in DOMAIN status[p], FailStep(p, f) PROVE RunInv'
  BY <1>4, FailKeeps
<1>5. CASE UNCHANGED vars
  <2>1. AllTargets' = AllTargets
    BY DEF AllTargets
  <2>2. UNCHANGED <<stage, hook, env, workflow, status, next, volume, effects, faults>>
    BY <1>5 DEF vars
  <2>3. StageInv' /\ FlowInv' /\ GroupInv'
    BY <2>1, <2>2 DEF RunInv, StageInv, FlowInv, GroupInv, Running
  <2>4. VolumeInv' /\ EffectInv' /\ LeftInv'
    BY <2>2 DEF RunInv, VolumeInv, EffectInv, LeftInv, Running, Origin, By
  <2>. QED
    BY <2>3, <2>4 DEF RunInv
<1>6. CASE Next
  <2>1. PICK p \in Pipeline : \/ Submit(p) \/ PipelineStep(p)
                              \/ \E f \in DOMAIN status[p] : FlowStep(p, f)
    BY <1>6 DEF Next
  <2>2. CASE Submit(p) \/ PipelineStep(p)
    BY <1>1, <2>2
  <2>3. CASE \E f \in DOMAIN status[p] : FlowStep(p, f)
    <3>1. PICK f \in DOMAIN status[p] : FlowStep(p, f)
      BY <2>3
    <3>. QED
      BY <1>2, <1>3, <1>4, <3>1 DEF FlowStep
  <2>. QED
    BY <2>1, <2>2, <2>3
<1>. QED
  BY <1>5, <1>6

LEMMA Invariant == Spec => []RunInv
<1>. QED
  BY InitHolds, NextKeeps, PTL DEF Spec

-----------------------------------------------------------------------------
(* The theorems. *)

\* Every pipeline that runs has a status and a step for each of its flows.
THEOREM TypeCorrect == Spec => []TypeOK
<1>1. RunInv => TypeOK
  <2> SUFFICES ASSUME RunInv PROVE TypeOK
    OBVIOUS
  <2>1. StageInv /\ FlowInv
    BY DEF RunInv
  <2>2. ASSUME NEW p \in Pipeline, stage[p] = "running"
        PROVE  /\ status[p] \in [DOMAIN workflow[p] -> {"waiting", "running", "passed", "failed"}]
               /\ \A f \in DOMAIN workflow[p] :
                    next[p][f] \in 1..(Len(workflow[p][f].steps) + 1)
    <3>1. DOMAIN workflow[p] = Flows(env[p]) /\ DOMAIN status[p] = Flows(env[p])
      BY <2>1, <2>2 DEF StageInv, WorkflowOf, Running
    <3>2. status[p] \in [Flows(env[p]) -> {"waiting", "running", "passed", "failed"}]
      BY <2>1, <2>2 DEF StageInv, Running, FlowStatus
    <3>3. ASSUME NEW f \in Flows(env[p])
          PROVE  next[p][f] \in 1..(Len(workflow[p][f].steps) + 1)
      <4>1. workflow[p][f].steps = Steps(env[p], f)
        BY <2>1, <3>1, Unfolds
      <4>2. Len(Steps(env[p], f)) \in Nat
        BY StepsType
      <4>3. \/ next[p][f] \in 1..Len(Steps(env[p], f))
            \/ next[p][f] = Len(Steps(env[p], f)) + 1
        BY <2>1, <2>2 DEF FlowInv, Running
      <4>. QED
        BY <4>1, <4>2, <4>3
    <3>. QED
      BY <3>1, <3>2, <3>3
  <2>. QED
    BY <2>1, <2>2 DEF TypeOK, StageInv
<1>. QED
  BY <1>1, Invariant, PTL

\* The plan a pipeline applies is its own, although every pipeline of the commit
\* writes its plans into the volume of the target: the concurrency group of the
\* service and the cluster keeps the others out between the plan and the apply.
THEOREM PlanIsItsOwn == Spec => []AppliesItsOwnPlan
<1>1. RunInv => AppliesItsOwnPlan
  BY DEF RunInv, EffectInv, AppliesItsOwnPlan
<1>. QED
  BY <1>1, Invariant, PTL

\* A deployment changes no machine but those of its target and resynchronises the
\* service only there.
THEOREM KeepsToTarget == Spec => []TouchesItsTarget
<1>1. RunInv => TouchesItsTarget
  <2> SUFFICES ASSUME RunInv, NEW x \in effects, hook[x.by].event = "deployment",
                      x.what \in {"apply", "configure", "sync"}
               PROVE  x.at = hook[x.by].target
    BY DEF TouchesItsTarget
  <2>1. /\ x.by \in Pipeline /\ Running(x.by)
        /\ Deployment(env[x.by]) => x.at = env[x.by].target
    BY DEF RunInv, EffectInv
  <2>2. env[x.by] = EnvironmentOf(hook[x.by])
    BY <2>1 DEF RunInv, StageInv, Running
  <2>3. env[x.by].event = hook[x.by].event /\ env[x.by].target = hook[x.by].target
    BY <2>2 DEF EnvironmentOf
  <2>. QED
    BY <2>1, <2>3 DEF Deployment
<1>. QED
  BY <1>1, Invariant, PTL

\* No changed file, no flow but the validation.
LEMMA NothingChanged ==
  ASSUME NEW e, e.files = {}, ~Deployment(e)
  PROVE  Flows(e) = {Validate}
<1>1. e.files # Unknown /\ Known(e) = {} /\ Forced = {}
  BY NamesAssumption DEF Known
<1>2. \A s : ~TerraformNeeded(s, {})
  BY <1>1 DEF TerraformNeeded, GlobalImpact, Touches, Edits
<1>3. \A s : ~ConfigureNeeded(s, {})
  BY <1>1, <1>2 DEF ConfigureNeeded, GlobalImpact, Touches, Edits, AnsibleChanged
<1>4. Jobs(e) = {}
  BY <1>1, <1>2, <1>3 DEF Jobs, ServicesOf
<1>5. ~RoutesRendered(e)
  BY <1>1, <1>4 DEF RoutesRendered, Edits
<1>6. ~EditsService(e, FreeIpa)
  BY <1>1 DEF EditsService
<1>7. Affected(e) = {}
  BY <1>1, <1>4, <1>5, <1>6 DEF Affected
<1>8. Rollouts(e) = {}
  BY <1>7 DEF Rollouts, FirstTargets, AffectedTargets
<1>9. PhasesRun(e) = {}
  BY DEF PhasesRun
<1>10. Synced(e) = {} /\ Published(e) = {}
  BY <1>4 DEF Synced, Published
<1>11. PostSteps(e) = <<>>
  BY <1>5, <1>10 DEF PostSteps, StepIf
<1>. QED
  BY <1>8, <1>9, <1>11 DEF Flows, Generated

\* A webhook without a list of changed files starts nothing but the validation:
\* the extension hands an empty list on, and the generator finds nothing to do.
THEOREM FailsClosed == Spec => []MissingListFailsClosed
<1>1. RunInv => MissingListFailsClosed
  <2> SUFFICES ASSUME RunInv, NEW p \in Pipeline, Running(p), hook[p].files = Unknown,
                      hook[p].event # "deployment"
               PROVE  DOMAIN workflow[p] = {Validate}
    BY DEF MissingListFailsClosed
  <2>1. env[p] = EnvironmentOf(hook[p]) /\ workflow[p] = WorkflowOf(env[p])
    BY DEF RunInv, StageInv, Running
  <2>2. FilesOf(hook[p]) = {}
    BY DEF FilesOf
  <2>3. env[p].files = {} /\ ~Deployment(env[p])
    BY <2>1, <2>2 DEF EnvironmentOf, Deployment
  <2>4. Flows(env[p]) = {Validate}
    BY <2>3, NothingChanged
  <2>. QED
    BY <2>1, <2>4 DEF WorkflowOf
<1>. QED
  BY <1>1, Invariant, PTL

\* Without a phase the platform has nothing to do.
LEMMA NoPhase == PlatformCommands({}) = <<>>
<1> DEFINE ss == [i \in 1..Len(Phases) |-> IF Phases[i] \in {} THEN CommandsOf(Phases[i]) ELSE <<>>]
<1>1. Len(Phases) = 8
  BY DEF Phases
<1>2. \A i \in 1..Len(Phases) : ss[i] \in Seq({})
  <2>1. <<>> \in Seq({})
    BY EmptySeq
  <2>. QED
    BY <2>1
<1>3. ss \in Seq(Seq({}))
  BY <1>1, <1>2
<1> HIDE DEF ss
<1>4. FlattenSeq(ss) \in Seq({})
  BY <1>3, FlattenType
<1>5. \A s \in Seq({}) : s = <<>>
  <2> SUFFICES ASSUME NEW s \in Seq({}) PROVE s = <<>>
    OBVIOUS
  <2>1. \A i \in 1..Len(s) : s[i] \in {}
    BY ElementOfSeq
  <2>2. Len(s) = 0
    BY <2>1, LenProperties
  <2>. QED
    BY <2>2, EmptySeq
<1>. QED
  BY <1>4, <1>5 DEF PlatformCommands, ss

\* What the platform has to change, a step of its flow does.
LEMMA ChangeOfStep ==
  ASSUME NEW e, NEW change \in PlatformChanges(e), NEW p
  PROVE  /\ Platform \in Flows(e) /\ change.what \in Changing
         /\ \E k \in 1..Len(Steps(e, Platform)) :
              /\ Steps(e, Platform)[k].do = change.what
              /\ [change EXCEPT !.by = p]
                   = Effect(p, Steps(e, Platform)[k].do, Steps(e, Platform)[k].on, Nobody)
<1> DEFINE cs == PlatformCommands(PhasesRun(e))
<1>1. PICK c \in Range(cs) : c.do \in Changing /\ change = Effect(Nobody, c.do, c.on, Nobody)
  BY DEF PlatformChanges
<1>2. cs \in Seq(Commands(Early \cup Late))
  BY PlatformType
<1>3. PICK k \in DOMAIN cs : c = cs[k]
  BY DEF Range
<1>4. DOMAIN cs = 1..Len(cs)
  BY <1>2, LenProperties
<1>5. PhasesRun(e) # {}
  <2> SUFFICES ASSUME PhasesRun(e) = {} PROVE FALSE
    OBVIOUS
  <2>1. cs = <<>>
    BY NoPhase
  <2> HIDE DEF cs
  <2>. QED
    BY <1>3, <2>1
<1>6. Steps(e, Platform) = cs
  BY StepsOf
<1>7. change.what = c.do /\ [change EXCEPT !.by = p] = Effect(p, c.do, c.on, Nobody)
  BY <1>1 DEF Effect
<1> HIDE DEF cs
<1>. QED
  BY <1>1, <1>3, <1>4, <1>5, <1>6, <1>7, FlowsOf

\* Once its flow passed, all of it is done.
LEMMA PlatformDone ==
  ASSUME RunInv, NEW p \in Pipeline, Running(p), NEW change \in PlatformChanges(env[p]),
         Platform \in Flows(env[p]) => status[p][Platform] = "passed"
  PROVE  Done(p, change)
<1> DEFINE cs == Steps(env[p], Platform)
<1>1. FlowInv /\ LeftInv
  BY DEF RunInv
<1>2. Platform \in Flows(env[p]) /\ change.what \in Changing
  BY ChangeOfStep
<1>3. PICK k \in 1..Len(cs) :
        cs[k].do = change.what /\ [change EXCEPT !.by = p] = Effect(p, cs[k].do, cs[k].on, Nobody)
  BY ChangeOfStep
<1>4. next[p][Platform] = Len(cs) + 1 /\ Len(cs) \in Nat
  BY <1>1, <1>2, StepsType DEF FlowInv
<1>5. k \in 1..(next[p][Platform] - 1)
  BY <1>4
<1>6. Effect(p, cs[k].do, cs[k].on, Nobody) \in effects
  BY <1>1, <1>2, <1>3, <1>5 DEF LeftInv
<1>. QED
  BY <1>3, <1>6 DEF Done

\* A flow that has started has the flows it needs behind it.
LEMMA NeedsPassed ==
  ASSUME RunInv, NEW p \in Pipeline, Running(p), NEW f \in Flows(env[p]),
         status[p][f] # "waiting", f.kind = "rollout" \/ f = Post
  PROVE  /\ Platform \in Flows(env[p]) => status[p][Platform] = "passed"
         /\ f = Post => \A t \in Rollouts(env[p]) : status[p][Flow("rollout", t)] = "passed"
<1>1. \A g \in Flows(env[p]) :
        status[p][g] # "waiting" => \A h \in FlowNeeds(env[p], g) : status[p][h] = "passed"
  BY DEF RunInv, FlowInv
<1>2. CASE f.kind = "rollout"
  <2>1. f # Post
    BY <1>2, Kinds
  <2>. QED
    BY <1>1, <1>2, <2>1, NeedsOf
<1>3. CASE f = Post /\ Rollouts(env[p]) = {}
  BY <1>1, <1>3, NeedsOf
<1>4. CASE f = Post /\ Rollouts(env[p]) # {}
  <2>1. \A t \in Rollouts(env[p]) : status[p][Flow("rollout", t)] = "passed"
    BY <1>1, <1>4, NeedsOf
  <2>2. PICK t \in Rollouts(env[p]) : TRUE
    BY <1>4
  <2>3. /\ Flow("rollout", t) \in Flows(env[p]) /\ Flow("rollout", t).kind = "rollout"
        /\ status[p][Flow("rollout", t)] # "waiting"
    BY <2>1, FlowsOf, Kinds
  <2>4. Platform \in Flows(env[p]) => FlowNeeds(env[p], Flow("rollout", t)) = {Platform}
    BY <2>3, NeedsOf
  <2>. QED
    BY <1>1, <2>1, <2>3, <2>4
<1>. QED
  BY <1>2, <1>3, <1>4

\* The routes are switched and the service resynchronised only after its rollouts,
\* those only after everything the platform has to change, and the foundation is
\* applied only to a cloud that is deployed and named.
THEOREM InOrder == Spec => []ChangesInOrder
<1>1. RunInv => ChangesInOrder
  <2> SUFFICES ASSUME RunInv, NEW p \in Pipeline, Running(p), NEW x \in effects, x.by = p
               PROVE  /\ x.what \in {"routes", "sync"} /\ Applies(env[p]) =>
                           \A t \in Rollouts(env[p]) :
                             ConfigureNeeded(t[1], Known(env[p])) /\ t[1] \in Jobs(env[p])
                               => \E y \in By(p) : y.what = "configure" /\ y.at = t
                      /\ x.what \notin Changing =>
                           \A change \in PlatformChanges(env[p]) : Done(p, change)
                      /\ x.what = "foundation" =>
                           \A change \in PlatformChanges(env[p]) :
                             change.what # "foundation" => Done(p, change)
    BY DEF ChangesInOrder, By
  <2>1. PICK f \in DOMAIN status[p] : status[p][f] # "waiting" /\ Origin(x, f)
    BY DEF RunInv, EffectInv
  <2>2. f \in Flows(env[p])
    BY <2>1, Unfolds DEF RunInv
  <2>3. LeftInv /\ FlowInv
    BY DEF RunInv
  <2>4. ASSUME x.what \in {"routes", "sync"}, Applies(env[p]), NEW t \in Rollouts(env[p]),
               ConfigureNeeded(t[1], Known(env[p])), t[1] \in Jobs(env[p])
        PROVE  \E y \in By(p) : y.what = "configure" /\ y.at = t
    <3>1. f = Post
      BY <2>1, <2>4 DEF Origin, Changing
    <3>2. status[p][Flow("rollout", t)] = "passed"
      BY <2>1, <2>2, <3>1, NeedsPassed
    <3>. QED
      BY <2>3, <2>4, <3>2 DEF LeftInv
  <2>5. ASSUME x.what \notin Changing, NEW change \in PlatformChanges(env[p])
        PROVE  Done(p, change)
    <3>1. f.kind = "rollout" \/ f = Post
      BY <2>1, <2>5 DEF Origin
    <3>2. Platform \in Flows(env[p]) => status[p][Platform] = "passed"
      BY <2>1, <2>2, <3>1, NeedsPassed
    <3>. QED
      BY <3>2, PlatformDone
  <2>6. ASSUME x.what = "foundation", NEW change \in PlatformChanges(env[p]),
               change.what # "foundation"
        PROVE  Done(p, change)
    <3> DEFINE cs == Steps(env[p], Platform)
    <3>1. /\ f = Platform
          /\ \E k \in 1..Len(cs) : k <= next[p][Platform] /\ cs[k].do = "foundation"
      BY <2>1, <2>6 DEF Origin
    <3>2. PICK k \in 1..Len(cs) : k <= next[p][Platform] /\ cs[k].do = "foundation"
      BY <3>1
    <3>3. change.what \in Changing
      BY ChangeOfStep
    <3>4. PICK m \in 1..Len(cs) :
            /\ cs[m].do = change.what
            /\ [change EXCEPT !.by = p] = Effect(p, cs[m].do, cs[m].on, Nobody)
      BY ChangeOfStep
    <3>5. m < k
      <4>1. cs = PlatformCommands(PhasesRun(env[p]))
        BY StepsOf
      <4>2. cs[m].do \in Changing \ {"foundation"}
        BY <2>6, <3>3, <3>4
      <4> HIDE DEF cs
      <4>. QED
        BY <3>2, <4>1, <4>2, PlatformOrder
    <3>6. next[p][Platform] \in Nat
      BY <2>1, <3>1, Unfolds DEF RunInv
    <3>7. m \in 1..(next[p][Platform] - 1)
      BY <3>2, <3>5, <3>6
    <3>8. Effect(p, cs[m].do, cs[m].on, Nobody) \in effects
      BY <2>2, <2>3, <3>1, <3>3, <3>4, <3>7 DEF LeftInv
    <3>. QED
      BY <3>4, <3>8 DEF Done
  <2>. QED
    BY <2>4, <2>5, <2>6
<1>. QED
  BY <1>1, Invariant, PTL
===============================================================================
