--------------------------- MODULE PipelineProofs ---------------------------
(****************************************************************************)
(* What holds of RunPipeline for runs of any size: any number of stages,    *)
(* variables, tags and volumes.                                             *)
(*                                                                          *)
(* The loops of createMessage() and createWorkflow() are recursive          *)
(* functions.  An induction over a loop is an induction over the set of     *)
(* those steps up to which something holds.                                 *)
(****************************************************************************)
EXTENDS RunPipeline, SequenceTheorems, WellFoundedInduction, TLAPS

----------------------------------------------------------------------------
(* Induction.                                                               *)

LEMMA Smallest ==
    ASSUME NEW S \in SUBSET Nat, S # {}
    PROVE  \E x \in S : \A y \in S : x <= y
<1> DEFINE R == OpToRel(<, Nat)
<1>1. \E x \in S : \A y \in S : <<y, x>> \notin R
  <2> HIDE DEF R
  <2>1. IsWellFoundedOn(R, Nat)
    BY NatLessThanWellFounded DEF R
  <2>2. QED  BY <2>1, WFMin
<1>2. PICK x \in S : \A y \in S : <<y, x>> \notin R
  BY <1>1
<1>3. \A y \in S : ~(y < x)
  BY <1>2 DEF OpToRel
<1>4. QED  BY <1>3

\* What holds at first and goes on holding holds at every step up to n.
LEMMA EachStep ==
    ASSUME NEW n \in Nat, NEW T, 0 \in T, \A k \in 1 .. n : k - 1 \in T => k \in T
    PROVE  \A k \in 0 .. n : k \in T
<1> SUFFICES ASSUME (0 .. n) \ T # {}  PROVE FALSE
  OBVIOUS
<1>1. PICK k \in (0 .. n) \ T : \A j \in (0 .. n) \ T : k <= j
  <2>1. (0 .. n) \ T \in SUBSET Nat
    OBVIOUS
  <2>2. QED  BY <2>1, Smallest
<1>2. k # 0 /\ k - 1 \in 0 .. n /\ k \in 1 .. n
  OBVIOUS
<1>3. k - 1 \in T
  BY <1>1, <1>2
<1>4. QED  BY <1>2, <1>3

\* The body of a loop: what the ith step makes of a value.
Body(n, V) == [(1 .. n) \X V -> V]

\* What has been made after each step.
Looped(f, n, V, base, step) ==
    /\ f \in [0 .. n -> V]
    /\ f[0] = base
    /\ \A i \in 1 .. n : f[i] = step[<<i, f[i - 1]>>]

LEMMA Loop ==
    ASSUME NEW n \in Nat, NEW V, NEW base \in V, NEW step \in Body(n, V)
    PROVE  \E f : Looped(f, n, V, base, step)
<1> USE DEF Body
<1> DEFINE Made(f, k) == f[0] = base /\ \A i \in 1 .. k : f[i] = step[<<i, f[i - 1]>>]
           T == {k \in 0 .. n : \E f \in [0 .. k -> V] : Made(f, k)}
<1>1. 0 \in T
  <2> DEFINE g == [i \in 0 .. 0 |-> base]
  <2>1. g \in [0 .. 0 -> V] /\ Made(g, 0)
    OBVIOUS
  <2> HIDE DEF g, Made
  <2>2. QED  BY <2>1
<1>2. ASSUME NEW k \in 1 .. n, k - 1 \in T  PROVE k \in T
  <2>1. PICK f \in [0 .. k - 1 -> V] : Made(f, k - 1)
    BY <1>2
  <2> DEFINE g == [i \in 0 .. k |-> IF i = k THEN step[<<k, f[k - 1]>>] ELSE f[i]]
  <2>2. step[<<k, f[k - 1]>>] \in V
    OBVIOUS
  <2>3. g \in [0 .. k -> V]
    BY <2>2
  <2>4. g[k] = step[<<k, f[k - 1]>>] /\ \A i \in 0 .. k - 1 : g[i] = f[i]
    OBVIOUS
  <2> HIDE DEF g
  <2>5. ASSUME NEW i \in 1 .. k  PROVE g[i] = step[<<i, g[i - 1]>>]
    <3>1. CASE i = k
      <4>1. g[k - 1] = f[k - 1]
        BY <2>4
      <4>2. QED  BY <2>4, <3>1, <4>1
    <3>2. CASE i # k
      <4>1. i \in 1 .. k - 1 /\ i - 1 \in 0 .. k - 1
        BY <3>2
      <4>2. QED  BY <2>1, <2>4, <4>1
    <3>3. QED  BY <3>1, <3>2
  <2>6. g[0] = base
    BY <2>1, <2>4
  <2>7. Made(g, k)
    BY <2>5, <2>6
  <2> HIDE DEF Made
  <2>8. QED  BY <2>3, <2>7
<1>3. n \in T
  <2> HIDE DEF T
  <2>1. \A k \in 0 .. n : k \in T
    BY <1>1, <1>2, EachStep
  <2>2. QED  BY <2>1
<1>4. PICK f \in [0 .. n -> V] : Made(f, n)
  BY <1>3
<1>5. Looped(f, n, V, base, step)
  BY <1>4 DEF Looped
<1>6. QED  BY <1>5

----------------------------------------------------------------------------
(* Objects and texts.                                                       *)

\* The value of a name that is there is that of its first entry.
LEMMA ValueFound ==
    ASSUME NEW S, NEW o \in Seq(S), o # None, NEW n \in Names(o)
    PROVE  \E k \in DOMAIN o : /\ o[k].name = n
                               /\ ValueOf(o, n) = o[k].value
                               /\ \A j \in DOMAIN o : o[j].name = n => k <= j
<1> DEFINE I == {i \in 1 .. Len(o) : o[i].name = n}
<1>1. DOMAIN o = 1 .. Len(o)
  OBVIOUS
<1>2. I # {} /\ I \in SUBSET Nat
  BY <1>1 DEF Names
<1>3. \E x \in I : \A y \in I : x <= y
  BY <1>2, Smallest
<1>4. Min(I) \in I /\ \A y \in I : Min(I) <= y
  BY <1>3 DEF Min
<1>5. Min(I) # 0
  BY <1>4
<1>6. ValueOf(o, n) = o[Min(I)].value
  BY <1>2, <1>5 DEF ValueOf, Entries, SelectInSeq
<1>7. QED  BY <1>1, <1>4, <1>6

\* What is missing is empty.
LEMMA ValueMissing ==
    ASSUME NEW o, NEW n, n \notin Names(Entries(o)), NEW S, o # None => o \in Seq(S)
    PROVE  ValueOf(o, n) = Empty
<1>1. {i \in 1 .. Len(Entries(o)) : Entries(o)[i].name = n} = {}
  BY DEF Names, Entries
<1>2. QED  BY <1>1 DEF ValueOf, SelectInSeq

\* What is absent is no list.
LEMMA NoneIsNoList ==
    None \notin Seq(EntryType) \cup Seq(StageVolumeType) \cup Seq(VolumeMount) \cup Seq(Word)
<1>1. EntryType \subseteq [name : Word \cup {KeyName}, value : TextType \cup Key]
  BY DEF EntryType
<1> HIDE DEF EntryType
<1>2. ASSUME NEW S, NEW T, S \subseteq T  PROVE Seq(S) \subseteq Seq(T)
  BY <1>2
<1>3. Seq(EntryType) \subseteq Seq([name : Word \cup {KeyName}, value : TextType \cup Key])
  BY <1>1, <1>2
<1>4. QED  BY <1>3, RunAssumption

\* An object is a list of entries with a value for each name.
LEMMA ObjectFacts ==
    ASSUME NEW o \in ObjectType
    PROVE  /\ o # None /\ Entries(o) = o
           /\ o \in Seq(EntryType) /\ DOMAIN o = 1 .. Len(o) /\ Len(o) \in Nat
           /\ \A k \in DOMAIN o : /\ o[k] \in EntryType
                                  /\ o[k].name \in Names(o)
                                  /\ ValueOf(o, o[k].name) = o[k].value
<1>1. o # None /\ Entries(o) = o
  BY NoneIsNoList DEF Entries, ObjectType
<1>2. o \in Seq(EntryType) /\ DOMAIN o = 1 .. Len(o) /\ Len(o) \in Nat
  BY DEF ObjectType
<1>3. ASSUME NEW k \in DOMAIN o
      PROVE  o[k] \in EntryType /\ o[k].name \in Names(o) /\ ValueOf(o, o[k].name) = o[k].value
  <2>1. o[k] \in EntryType /\ o[k].name \in Names(o)
    BY <1>2 DEF Names
  <2>2. PICK j \in DOMAIN o : o[j].name = o[k].name /\ ValueOf(o, o[k].name) = o[j].value
    BY <1>1, <1>2, <2>1, ValueFound
  <2>3. j = k
    BY <2>2 DEF ObjectType
  <2>4. QED  BY <2>1, <2>2, <2>3
<1>4. QED  BY <1>1, <1>2, <1>3

\* The value of a name is a text, whether it is there or not.
LEMMA ValueTyped ==
    ASSUME NEW o \in {None} \cup ObjectType, NEW n
    PROVE  ValueOf(o, n) \in TextType
<1>1. Empty \in TextType
  BY RunAssumption DEF Empty, Literal, TextType
<1>2. CASE n \notin Names(Entries(o))
  BY <1>1, <1>2, ValueMissing, ObjectFacts
<1>3. CASE n \in Names(Entries(o))
  <2>1. o \in ObjectType
    BY <1>3 DEF Entries, Names
  <2>2. QED  BY <1>3, <2>1, ObjectFacts, ValueFound DEF EntryType
<1>4. QED  BY <1>2, <1>3

Environments == {None} \cup ObjectType

\* What a text is rendered to is a text.
LEMMA RenderTyped ==
    ASSUME NEW text \in TextType, NEW suite, suite.properties \in {None} \cup ObjectType,
           NEW envs, \A j \in DOMAIN envs : envs[j] \in Environments
    PROVE  render(text, suite, envs) \in TextType
<1>1. Empty \in TextType
  BY RunAssumption DEF Empty, Literal, TextType
<1>2. text.tag \in {"literal", "property", "variable"}
  BY DEF TextType
<1>3. QED  BY <1>1, <1>2, ValueTyped DEF render, Environments

----------------------------------------------------------------------------
(* Lists.                                                                   *)

\* The elements of two lists one after the other.
LEMMA TwoLists ==
    ASSUME NEW S, NEW a \in Seq(S), NEW b \in Seq(S)
    PROVE  a \o b \in Seq(S) /\ ToSet(a \o b) = ToSet(a) \cup ToSet(b)
<1>1. a \o b \in Seq(S) /\ Len(a \o b) = Len(a) + Len(b)
  OBVIOUS
<1>2. \A i \in 1 .. Len(a) : (a \o b)[i] = a[i]
  OBVIOUS
<1>3. \A i \in 1 .. Len(b) : (a \o b)[Len(a) + i] = b[i]
  OBVIOUS
<1>4. \A i \in 1 .. Len(a) + Len(b) : i \in 1 .. Len(a) \/ i - Len(a) \in 1 .. Len(b)
  OBVIOUS
<1>5. ToSet(a \o b) \subseteq ToSet(a) \cup ToSet(b)
  <2> SUFFICES ASSUME NEW i \in 1 .. Len(a) + Len(b)
               PROVE  (a \o b)[i] \in ToSet(a) \cup ToSet(b)
    BY <1>1 DEF ToSet
  <2>1. CASE i \in 1 .. Len(a)
    BY <2>1, <1>2 DEF ToSet
  <2>2. CASE i - Len(a) \in 1 .. Len(b)
    <3>1. i = Len(a) + (i - Len(a))
      OBVIOUS
    <3>2. (a \o b)[i] = b[i - Len(a)]
      BY <2>2, <3>1, <1>3
    <3>3. QED  BY <2>2, <3>2 DEF ToSet
  <2>3. QED  BY <2>1, <2>2, <1>4
<1>6. ToSet(a) \subseteq ToSet(a \o b)
  BY <1>1, <1>2 DEF ToSet
<1>7. ToSet(b) \subseteq ToSet(a \o b)
  <2> SUFFICES ASSUME NEW i \in 1 .. Len(b)  PROVE b[i] \in ToSet(a \o b)
    BY DEF ToSet
  <2>1. Len(a) + i \in 1 .. Len(a \o b) /\ (a \o b)[Len(a) + i] = b[i]
    BY <1>1, <1>3
  <2>2. QED  BY <2>1, <1>1 DEF ToSet
<1>8. QED  BY <1>1, <1>5, <1>6, <1>7

\* The first list, the first two lists, ... joined.
Joined(f, S, n, ss) ==
    /\ f \in [1 .. n -> Seq(S)]
    /\ \A i \in 1 .. n : f[i] = IF i = 1 THEN ss[i] ELSE f[i - 1] \o ss[i]

\* FlattenSeq joins its lists one after the other.
LEMMA FlattenSteps ==
    ASSUME NEW S, NEW n \in Nat \ {0}, NEW ss \in Seq(Seq(S)), Len(ss) = n
    PROVE  \E f : Joined(f, S, n, ss) /\ FlattenSeq(ss) = f[n]
<1> DEFINE step == [p \in (1 .. n) \X Seq(S) |-> p[2] \o ss[p[1]]]
           Joins(f) == f = [i \in 1 .. n |-> IF i = 1 THEN ss[i] ELSE f[i - 1] \o ss[i]]
           F == CHOOSE f : Joins(f)
<1>1. step \in Body(n, Seq(S))
  BY DEF Body
<1>2. <<>> \in Seq(S) /\ \A i \in 1 .. n : ss[i] \in Seq(S)
  OBVIOUS
<1>3. PICK g : Looped(g, n, Seq(S), <<>>, step)
  <2> HIDE DEF step
  <2>1. n \in Nat /\ <<>> \in Seq(S)
    OBVIOUS
  <2>2. QED  BY <1>1, <2>1, Loop
<1> DEFINE h == [i \in 1 .. n |-> g[i]]
<1>4. ASSUME NEW i \in 1 .. n  PROVE g[i] = g[i - 1] \o ss[i]
  <2>1. i - 1 \in 0 .. n
    OBVIOUS
  <2>2. g[i - 1] \in Seq(S)
    BY <2>1, <1>3 DEF Looped
  <2>3. step[<<i, g[i - 1]>>] = g[i - 1] \o ss[i]
    BY <2>2
  <2>4. QED  BY <1>3, <2>3 DEF Looped
<1>5. ASSUME NEW i \in 1 .. n  PROVE h[i] = IF i = 1 THEN ss[i] ELSE h[i - 1] \o ss[i]
  <2>1. CASE i = 1
    <3>1. g[1] = g[0] \o ss[1]
      BY <1>4, <2>1
    <3>2. g[1] = ss[1]
      BY <3>1, <1>2, <1>3 DEF Looped
    <3>3. QED  BY <2>1, <3>2
  <2>2. CASE i # 1
    <3>1. i - 1 \in 1 .. n
      BY <2>2
    <3>2. QED  BY <2>2, <3>1, <1>4
  <2>3. QED  BY <2>1, <2>2
<1>6. Joins(h)
  <2>1. h = [i \in 1 .. n |-> h[i]]
    OBVIOUS
  <2> HIDE DEF h
  <2>2. QED  BY <2>1, <1>5
<1>7. Joins(F)
  BY <1>6
<1>8. \A f : Joins(f) =>
          \A i \in 1 .. n : f[i] = IF i = 1 THEN ss[i] ELSE f[i - 1] \o ss[i]
  OBVIOUS
<1>9. FlattenSeq(ss) = F[n]
  BY DEF FlattenSeq
<1>10. F \in [1 .. n -> Seq(S)]
  <2> DEFINE T == {k \in 0 .. n : k # 0 => F[k] \in Seq(S)}
  <2> HIDE DEF F, Joins
  <2>1. ASSUME NEW k \in 1 .. n, k - 1 \in T  PROVE k \in T
    <3>1. F[k] = IF k = 1 THEN ss[k] ELSE F[k - 1] \o ss[k]
      BY <1>7, <1>8
    <3>2. CASE k = 1
      BY <1>2, <3>1, <3>2
    <3>3. CASE k # 1
      <4>1. F[k - 1] \in Seq(S) /\ ss[k] \in Seq(S)
        BY <1>2, <2>1, <3>3
      <4>2. F[k] \in Seq(S)
        BY <3>1, <3>3, <4>1
      <4>3. QED  BY <4>2
    <3>4. QED  BY <3>2, <3>3
  <2>2. \A k \in 0 .. n : k \in T
    <3>1. 0 \in T
      OBVIOUS
    <3> HIDE DEF T
    <3>2. QED  BY <2>1, <3>1, EachStep
  <2>3. \A k \in 1 .. n : F[k] \in Seq(S)
    BY <2>2
  <2>4. F = [i \in 1 .. n |-> F[i]]
    BY <1>7 DEF Joins
  <2>5. QED  BY <2>3, <2>4
<1> HIDE DEF F, Joins
<1>11. Joined(F, S, n, ss)
  BY <1>7, <1>8, <1>10 DEF Joined
<1>12. QED  BY <1>9, <1>11

\* A flattened list of lists has the elements of all of them.
LEMMA Flattened ==
    ASSUME NEW S, NEW ss \in Seq(Seq(S))
    PROVE  /\ FlattenSeq(ss) \in Seq(S)
           /\ ToSet(FlattenSeq(ss)) = UNION {ToSet(ss[i]) : i \in DOMAIN ss}
<1> DEFINE n == Len(ss)
           Upto(k) == UNION {ToSet(ss[i]) : i \in 1 .. k}
<1>0. n \in Nat /\ DOMAIN ss = 1 .. n /\ \A i \in 1 .. n : ss[i] \in Seq(S)
  OBVIOUS
<1>1. CASE n = 0
  BY <1>0, <1>1 DEF FlattenSeq, ToSet
<1>2. CASE n # 0
  <2>1. PICK f : Joined(f, S, n, ss) /\ FlattenSeq(ss) = f[n]
    <3>1. n \in Nat \ {0} /\ Len(ss) = n
      BY <1>0, <1>2
    <3> HIDE DEF n
    <3>2. QED  BY <3>1, FlattenSteps
  <2> DEFINE T == {k \in 0 .. n : k # 0 => ToSet(f[k]) = Upto(k)}
  <2> HIDE DEF n
  <2>2. ASSUME NEW k \in 1 .. n, k - 1 \in T  PROVE k \in T
    <3>1. CASE k = 1
      <4>1. f[1] = ss[1]
        BY <2>1, <1>0, <1>2 DEF Joined
      <4>2. Upto(1) = ToSet(ss[1])
        OBVIOUS
      <4>3. QED  BY <3>1, <4>1, <4>2
    <3>2. CASE k # 1
      <4>0. k - 1 \in 1 .. n
        BY <1>0, <3>2
      <4>1. f[k] = f[k - 1] \o ss[k] /\ f[k - 1] \in Seq(S) /\ ss[k] \in Seq(S)
        BY <2>1, <3>2, <4>0, <1>0 DEF Joined
      <4>2. ToSet(f[k - 1]) = Upto(k - 1)
        BY <2>2, <3>2, <1>0
      <4>3. Upto(k) = Upto(k - 1) \cup ToSet(ss[k])
        <5>1. 1 .. k = (1 .. k - 1) \cup {k}
          BY <1>0, <3>2
        <5>2. QED  BY <5>1
      <4> HIDE DEF Upto
      <4>4. ToSet(f[k]) = Upto(k)
        BY <4>1, <4>2, <4>3, TwoLists
      <4>5. QED  BY <4>4
    <3>3. QED  BY <3>1, <3>2
  <2>3. 0 \in T
    BY <1>0
  <2>4. n \in T
    <3> HIDE DEF T
    <3>1. \A k \in 0 .. n : k \in T
      BY <1>0, <2>2, <2>3, EachStep
    <3>2. QED  BY <1>0, <3>1
  <2>5. QED  BY <1>0, <1>2, <2>1, <2>4 DEF Joined
<1>3. QED  BY <1>1, <1>2

----------------------------------------------------------------------------
(* Rendering environments.                                                  *)

\* The environments of m stages, and what rendering entry k of stage i makes of them.
OfStages(m) == [1 .. m -> Environments]
EntryRendered(es, i, k, suite) == [es EXCEPT ![i][k].value = render(@, suite, es)]

\* Rendering one entry changes its value only.
LEMMA RenderEntry ==
    ASSUME NEW m \in Nat, NEW es \in OfStages(m), NEW i \in 1 .. m,
           es[i] \in ObjectType, NEW k \in DOMAIN es[i],
           NEW suite, suite.properties \in Environments
    PROVE  LET new == EntryRendered(es, i, k, suite) IN
           /\ new \in OfStages(m)
           /\ new[i] \in ObjectType /\ DOMAIN new[i] = DOMAIN es[i]
           /\ \A j \in (1 .. m) \ {i} : new[j] = es[j]
           /\ \A l \in DOMAIN es[i] : new[i][l].name = es[i][l].name
           /\ \A l \in DOMAIN es[i] \ {k} : new[i][l] = es[i][l]
           /\ new[i][k].value = render(es[i][k].value, suite, es)
<1> USE DEF OfStages
<1> DEFINE value == render(es[i][k].value, suite, es)
           entry == [es[i][k] EXCEPT !.value = value]
           env == [es[i] EXCEPT ![k] = entry]
           new == [es EXCEPT ![i] = env]
<1>1. /\ es[i] \in Seq(EntryType) /\ DOMAIN es[i] = 1 .. Len(es[i]) /\ Len(es[i]) \in Nat
      /\ \A l \in DOMAIN es[i] : es[i][l] \in EntryType
  BY ObjectFacts
<1>2. value \in TextType
  BY <1>1, RenderTyped DEF EntryType, Environments
<1>3. EntryRendered(es, i, k, suite) = new
  BY DEF EntryRendered
<1> HIDE DEF value
<1>4. entry \in EntryType /\ entry.name = es[i][k].name /\ entry.value = value
  BY <1>1, <1>2 DEF EntryType
<1> HIDE DEF entry
<1>5. /\ DOMAIN env = DOMAIN es[i] /\ env[k] = entry
      /\ \A l \in DOMAIN es[i] \ {k} : env[l] = es[i][l]
  OBVIOUS
<1>6. \A l \in DOMAIN es[i] : env[l] \in EntryType /\ env[l].name = es[i][l].name
  BY <1>1, <1>4, <1>5
<1>7. env \in Seq(EntryType)
  BY <1>1, <1>4
<1> HIDE DEF env
<1>8. env \in ObjectType
  BY <1>5, <1>6, <1>7 DEF ObjectType, EntryType
<1>9. /\ new \in [1 .. m -> Environments] /\ new[i] = env
      /\ \A j \in (1 .. m) \ {i} : new[j] = es[j]
  BY <1>8 DEF Environments
<1> HIDE DEF new
<1>10. new[i][k].value = render(es[i][k].value, suite, es)
  BY <1>4, <1>5, <1>9 DEF value
<1>11. QED  BY <1>3, <1>5, <1>6, <1>8, <1>9, <1>10

\* A value of stage i is rendered while the other stages' environments are as they
\* were.
RenderedAs(value, text, i, envs, suite) ==
    \E es \in [DOMAIN envs -> Environments] :
        /\ \A j \in DOMAIN envs \ {i} : es[j] = envs[j]
        /\ value = render(text, suite, es)

\* What rendering the environment of stage i makes of it.
MayRender(old, new, i, envs, suite) ==
    /\ DOMAIN new = DOMAIN old
    /\ \A k \in DOMAIN old :
          /\ new[k].name = old[k].name
          /\ RenderedAs(new[k].value, old[k].value, i, envs, suite)

\* The loop over the entries of an environment that is rendered in place.
LEMMA InPlaceSteps ==
    ASSUME NEW m \in Nat, NEW envs \in OfStages(m), NEW i \in 1 .. m,
           envs[i] \in ObjectType, NEW suite, suite.properties \in Environments,
           NEW n, n = Len(envs[i])
    PROVE  \E es : /\ es[0] = envs
                   /\ \A k \in 1 .. n :
                        es[k] = EntryRendered(es[k - 1], i, k, suite)
                   /\ renderInPlace(envs, i, suite) = es[n]
<1> DEFINE V == {es \in OfStages(m) :
                    es[i] \in ObjectType /\ DOMAIN es[i] = DOMAIN envs[i]}
           step == [p \in (1 .. n) \X V |-> EntryRendered(p[2], i, p[1], suite)]
           InPlace(es) == es = [k \in 0 .. n |-> IF k = 0 THEN envs ELSE EntryRendered(es[k - 1], i, k, suite)]
           F == CHOOSE es : InPlace(es)
<1>1. n \in Nat /\ DOMAIN envs[i] = 1 .. n /\ Entries(envs[i]) = envs[i]
  BY ObjectFacts
<1>2. envs \in V
  OBVIOUS
<1>3. ASSUME NEW k \in 1 .. n, NEW es \in V  PROVE EntryRendered(es, i, k, suite) \in V
  <2>1. es \in OfStages(m) /\ es[i] \in ObjectType /\ k \in DOMAIN es[i]
    BY <1>1
  <2>2. /\ EntryRendered(es, i, k, suite) \in OfStages(m)
        /\ EntryRendered(es, i, k, suite)[i] \in ObjectType
        /\ DOMAIN EntryRendered(es, i, k, suite)[i] = DOMAIN es[i]
    BY <2>1, RenderEntry
  <2>3. QED  BY <2>2
<1> HIDE DEF V
<1>4. step \in Body(n, V)
  BY <1>3 DEF Body
<1>5. PICK f : Looped(f, n, V, envs, step)
  <2> HIDE DEF step
  <2>1. QED  BY <1>1, <1>2, <1>4, Loop
<1>6. ASSUME NEW k \in 0 .. n  PROVE f[k] = IF k = 0 THEN envs ELSE EntryRendered(f[k - 1], i, k, suite)
  <2>1. CASE k = 0
    BY <1>5, <2>1 DEF Looped
  <2>2. CASE k # 0
    <3>1. k \in 1 .. n /\ k - 1 \in 0 .. n
      BY <1>1, <2>2
    <3>2. f[k - 1] \in V /\ f[k] = step[<<k, f[k - 1]>>]
      BY <1>5, <3>1 DEF Looped
    <3>3. f[k] = EntryRendered(f[k - 1], i, k, suite)
      BY <3>1, <3>2
    <3>4. QED  BY <2>2, <3>3
  <2>3. QED  BY <2>1, <2>2
<1>7. InPlace(f)
  <2>1. f = [k \in 0 .. n |-> f[k]]
    BY <1>5 DEF Looped
  <2>2. QED  BY <1>6, <2>1
<1>8. InPlace(F)
  BY <1>7
<1>9. renderInPlace(envs, i, suite) = F[n]
  BY <1>1 DEF renderInPlace, EntryRendered
<1>10. ASSUME NEW es, InPlace(es)
       PROVE  /\ es[0] = envs
              /\ \A k \in 1 .. n : es[k] = EntryRendered(es[k - 1], i, k, suite)
  <2>1. \A k \in 0 .. n : es[k] = IF k = 0 THEN envs
                                 ELSE EntryRendered(es[k - 1], i, k, suite)
    BY <1>10, Zenon
  <2>2. 0 \in 0 .. n /\ \A k \in 1 .. n : k \in 0 .. n /\ k # 0
    BY <1>1
  <2> HIDE DEF InPlace
  <2>3. QED  BY <2>1, <2>2
<1> HIDE DEF F, InPlace
<1>11. F[0] = envs /\ \A k \in 1 .. n : F[k] = EntryRendered(F[k - 1], i, k, suite)
  BY <1>8, <1>10
<1>12. QED  BY <1>9, <1>11

\* Rendering an environment in place leaves the others alone.
LEMMA InPlace ==
    ASSUME NEW m \in Nat, NEW envs \in OfStages(m), NEW i \in 1 .. m,
           NEW suite, suite.properties \in Environments
    PROVE  LET after == renderInPlace(envs, i, suite) IN
           /\ after \in OfStages(m)
           /\ \A j \in (1 .. m) \ {i} : after[j] = envs[j]
           /\ envs[i] = None => after = envs
           /\ envs[i] # None => /\ after[i] \in ObjectType
                                /\ MayRender(envs[i], after[i], i, envs, suite)
<1>1. CASE envs[i] = None
  <2>1. renderInPlace(envs, i, suite)
          = (CHOOSE es : es = [k \in 0 .. 0 |-> IF k = 0 THEN envs
                                               ELSE EntryRendered(es[k - 1], i, k, suite)])[0]
    <3>1. Entries(envs[i]) = <<>> /\ Len(<<>>) = 0
      BY <1>1 DEF Entries
    <3>2. QED  BY <3>1 DEF renderInPlace, EntryRendered
  <2> DEFINE Alone(es) == es = [k \in 0 .. 0 |-> IF k = 0 THEN envs
                                               ELSE EntryRendered(es[k - 1], i, k, suite)]
             first == [k \in 0 .. 0 |-> envs]
  <2>2. \A k \in 0 .. 0 : k = 0
    OBVIOUS
  <2>3. Alone(first)
    BY <2>2
  <2>4. Alone(CHOOSE es : Alone(es))
    <3> HIDE DEF Alone
    <3>1. QED  BY <2>3
  <2>5. \A es : Alone(es) => es[0] = envs
    BY <2>2
  <2>6. renderInPlace(envs, i, suite) = envs
    BY <2>1, <2>4, <2>5
  <2>7. QED  BY <1>1, <2>6
<1>2. CASE envs[i] # None
  <2> DEFINE n == Len(envs[i])
             Shown(l, v) == RenderedAs(v, envs[i][l].value, i, envs, suite)
             Good(e, k) ==
                /\ e \in OfStages(m) /\ e[i] \in ObjectType /\ DOMAIN e[i] = 1 .. n
                /\ \A j \in (1 .. m) \ {i} : e[j] = envs[j]
                /\ \A l \in 1 .. n :
                      /\ e[i][l].name = envs[i][l].name
                      /\ l > k => e[i][l] = envs[i][l]
                      /\ l <= k => Shown(l, e[i][l].value)
  <2>1. envs[i] \in ObjectType /\ n \in Nat /\ DOMAIN envs[i] = 1 .. n
    <3>1. envs[i] \in ObjectType
      BY <1>2 DEF OfStages, Environments
    <3>2. QED  BY <3>1, ObjectFacts
  <2>2. PICK es : /\ es[0] = envs
                  /\ \A k \in 1 .. n : es[k] = EntryRendered(es[k - 1], i, k, suite)
                  /\ renderInPlace(envs, i, suite) = es[n]
    BY <2>1, InPlaceSteps
  <2> HIDE DEF n
  <2>3. ASSUME NEW k \in 1 .. n, Good(es[k - 1], k - 1)  PROVE Good(es[k], k)
    <3> DEFINE old == es[k - 1]
               new == es[k]
    <3>0. old \in OfStages(m) /\ old[i] \in ObjectType /\ k \in DOMAIN old[i]
      BY <2>3
    <3>1. DOMAIN old[i] = 1 .. n /\ new = EntryRendered(old, i, k, suite)
      BY <2>2, <2>3
    <3>2. /\ new \in OfStages(m)
          /\ new[i] \in ObjectType /\ DOMAIN new[i] = DOMAIN old[i]
          /\ \A j \in (1 .. m) \ {i} : new[j] = old[j]
          /\ \A l \in DOMAIN old[i] : new[i][l].name = old[i][l].name
          /\ \A l \in DOMAIN old[i] \ {k} : new[i][l] = old[i][l]
          /\ new[i][k].value = render(old[i][k].value, suite, old)
      <4> DEFINE next == EntryRendered(old, i, k, suite)
      <4> HIDE DEF old, new
      <4>1. new = next
        BY <3>1
      <4>2. /\ next \in OfStages(m)
            /\ next[i] \in ObjectType /\ DOMAIN next[i] = DOMAIN old[i]
        BY <3>0, RenderEntry
      <4>3. \A j \in (1 .. m) \ {i} : next[j] = old[j]
        BY <3>0, RenderEntry
      <4>4. \A l \in DOMAIN old[i] : next[i][l].name = old[i][l].name
        BY <3>0, RenderEntry
      <4>5. \A l \in DOMAIN old[i] \ {k} : next[i][l] = old[i][l]
        BY <3>0, RenderEntry
      <4>6. next[i][k].value = render(old[i][k].value, suite, old)
        BY <3>0, RenderEntry
      <4> HIDE DEF next
      <4>7. QED  BY <4>1, <4>2, <4>3, <4>4, <4>5, <4>6
    <3>3. ASSUME NEW l \in 1 .. n
          PROVE  /\ new[i][l].name = envs[i][l].name
                 /\ l > k => new[i][l] = envs[i][l]
                 /\ l <= k => Shown(l, new[i][l].value)
      <4>1. old[i][l].name = envs[i][l].name /\ (l > k - 1 => old[i][l] = envs[i][l])
            /\ (l <= k - 1 => Shown(l, old[i][l].value))
        BY <2>3
      <4>2. CASE l = k
        <5>1. old[i][k] = envs[i][k]
          BY <2>1, <4>1, <4>2
        <5>2. Shown(k, new[i][k].value)
          <6>1. new[i][k].value = render(envs[i][k].value, suite, old)
            BY <3>2, <5>1
          <6>2. /\ old \in [DOMAIN envs -> Environments]
                /\ \A j \in DOMAIN envs \ {i} : old[j] = envs[j]
            BY <2>3 DEF OfStages
          <6> HIDE DEF old, new
          <6>3. QED  BY <6>1, <6>2 DEF RenderedAs
        <5>3. new[i][k].name = envs[i][k].name
          BY <3>1, <3>2, <4>1, <4>2
        <5> HIDE DEF Shown, new
        <5>4. QED  BY <2>1, <4>2, <5>2, <5>3
      <4>3. CASE l # k
        <5>1. new[i][l] = old[i][l]
          BY <3>1, <3>2, <4>3
        <5>2. l > k => l > k - 1
          BY <2>1
        <5>3. l <= k => l <= k - 1
          BY <2>1, <4>3
        <5> HIDE DEF Shown, new, old
        <5>4. QED  BY <4>1, <5>1, <5>2, <5>3
      <4>4. QED  BY <4>2, <4>3
    <3>4. /\ new \in OfStages(m) /\ new[i] \in ObjectType /\ DOMAIN new[i] = 1 .. n
          /\ \A j \in (1 .. m) \ {i} : new[j] = envs[j]
      BY <2>3, <3>1, <3>2
    <3> HIDE DEF Shown
    <3>5. QED  BY <3>3, <3>4
  <2>4. Good(envs, 0)
    <3>1. \A l \in 1 .. n : l > 0 /\ ~(l <= 0)
      BY <2>1
    <3> HIDE DEF Shown
    <3>2. QED  BY <2>1, <3>1
  <2>5. Good(es[n], n)
    <3> DEFINE T == {k \in 0 .. n : Good(es[k], k)}
    <3> HIDE DEF Good
    <3>1. 0 \in T
      BY <2>1, <2>2, <2>4
    <3>2. ASSUME NEW k \in 1 .. n, k - 1 \in T  PROVE k \in T
      BY <2>1, <2>3, <3>2
    <3>3. \A k \in 0 .. n : k \in T
      <4> HIDE DEF T
      <4>1. QED  BY <2>1, <3>1, <3>2, EachStep
    <3>4. QED  BY <2>1, <3>3
  <2> DEFINE after == renderInPlace(envs, i, suite)
  <2>6. Good(after, n)
    BY <2>2, <2>5
  <2>7. \A l \in 1 .. n : l <= n
    BY <2>1
  <2>8. MayRender(envs[i], after[i], i, envs, suite)
    <3> HIDE DEF after
    <3>1. QED  BY <2>1, <2>6, <2>7 DEF MayRender
  <2>9. QED  BY <1>2, <2>6, <2>8
<1>3. QED  BY <1>1, <1>2

----------------------------------------------------------------------------
(* The environments of benchmark.stages while the stages are made.          *)

\* What a run consists of.
LEMMA RunFacts ==
    ASSUME run \in RunType
    PROVE  LET m == Len(run.benchmark) IN
           /\ m \in Nat /\ DOMAIN run.benchmark = 1 .. m
           /\ \A i \in 1 .. m : run.benchmark[i] \in PipelineStageType
           /\ \A i \in 1 .. m : run.benchmark[i].env \in Environments
           /\ run.candidate.env \in Environments
           /\ run.suite.properties \in Environments
<1>1. /\ run.benchmark \in Seq(PipelineStageType)
      /\ run.candidate.env \in Environments
      /\ run.suite.properties \in Environments
  BY DEF RunType, Environments
<1>2. \A stage \in PipelineStageType : stage.env \in Environments
  BY DEF PipelineStageType, Environments
<1>3. QED  BY <1>1, <1>2

Before == [j \in DOMAIN run.benchmark |-> run.benchmark[j].env]

\* Making a stage leaves the environments of the others alone, and its own, if a
\* candidate configures it.
LEMMA OneStage ==
    ASSUME run \in RunType, NEW i \in DOMAIN run.benchmark,
           NEW envs \in OfStages(Len(run.benchmark))
    PROVE  LET after == renderEnv(run, envs, i).envs IN
           /\ after \in OfStages(Len(run.benchmark))
           /\ \A j \in DOMAIN run.benchmark \ {i} : after[j] = envs[j]
           /\ SelfConfigured(i) => after = envs
<1> DEFINE m == Len(run.benchmark)
<1>1. m \in Nat /\ DOMAIN run.benchmark = 1 .. m /\ run.suite.properties \in Environments
  BY RunFacts
<1>2. SelfConfigured(i) <=> configures(run.candidate, run.benchmark[i])
  BY DEF SelfConfigured, configures
<1>3. CASE SelfConfigured(i)
  <2>1. renderEnv(run, envs, i).envs = envs
    BY <1>2, <1>3 DEF renderEnv
  <2>2. QED  BY <2>1
<1>4. CASE ~SelfConfigured(i)
  <2>1. renderEnv(run, envs, i).envs = renderInPlace(envs, i, run.suite)
    BY <1>2, <1>4 DEF renderEnv
  <2>2. envs \in OfStages(m) /\ i \in 1 .. m
    BY <1>1
  <2>3. /\ renderInPlace(envs, i, run.suite) \in OfStages(m)
        /\ \A j \in (1 .. m) \ {i} : renderInPlace(envs, i, run.suite)[j] = envs[j]
    <3> HIDE DEF m
    <3>1. QED  BY <1>1, <2>2, InPlace
  <2>4. QED  BY <1>1, <1>4, <2>1, <2>3
<1>5. QED  BY <1>3, <1>4

\* The loop over the stages.
LEMMA StageSteps ==
    ASSUME run \in RunType
    PROVE  LET es == environments(run) IN
           /\ es[0] = Before
           /\ \A i \in 1 .. Len(run.benchmark) : es[i] = renderEnv(run, es[i - 1], i).envs
<1> DEFINE m == Len(run.benchmark)
           V == OfStages(m)
           After(i, envs) == renderEnv(run, envs, i).envs
           step == [p \in (1 .. m) \X V |-> After(p[1], p[2])]
           Stages(es) == es = [i \in 0 .. m |-> IF i = 0 THEN Before ELSE After(i, es[i - 1])]
           F == CHOOSE es : Stages(es)
<1>1. m \in Nat /\ DOMAIN run.benchmark = 1 .. m
  BY RunFacts
<1>2. Before \in V
  BY RunFacts DEF Before, OfStages
<1>3. ASSUME NEW i \in 1 .. m, NEW envs \in V  PROVE After(i, envs) \in V
  BY <1>1, OneStage
<1>4. environments(run) = F
  BY DEF environments, Before
<1> HIDE DEF m, V, After
<1>5. step \in Body(m, V)
  BY <1>3 DEF Body
<1>6. PICK f : Looped(f, m, V, Before, step)
  <2> HIDE DEF step
  <2>1. QED  BY <1>1, <1>2, <1>5, Loop
<1>7. ASSUME NEW i \in 0 .. m  PROVE f[i] = IF i = 0 THEN Before ELSE After(i, f[i - 1])
  <2>1. CASE i = 0
    BY <1>6, <2>1 DEF Looped
  <2>2. CASE i # 0
    <3>1. i \in 1 .. m /\ i - 1 \in 0 .. m
      BY <1>1, <2>2
    <3>2. f[i - 1] \in V /\ f[i] = step[<<i, f[i - 1]>>]
      BY <1>6, <3>1 DEF Looped
    <3>3. f[i] = After(i, f[i - 1])
      BY <3>1, <3>2
    <3>4. QED  BY <2>2, <3>3
  <2>3. QED  BY <2>1, <2>2
<1>8. Stages(f)
  <2>1. f = [i \in 0 .. m |-> f[i]]
    BY <1>6 DEF Looped
  <2>2. QED  BY <1>7, <2>1
<1>9. Stages(F)
  BY <1>8
<1>10. ASSUME NEW es, Stages(es)
       PROVE  es[0] = Before /\ \A i \in 1 .. m : es[i] = After(i, es[i - 1])
  <2>1. \A i \in 0 .. m : es[i] = IF i = 0 THEN Before ELSE After(i, es[i - 1])
    BY <1>10, Zenon
  <2>2. 0 \in 0 .. m /\ \A i \in 1 .. m : i \in 0 .. m /\ i # 0
    BY <1>1
  <2> HIDE DEF Stages
  <2>3. QED  BY <2>1, <2>2
<1> HIDE DEF F, Stages
<1>11. F[0] = Before /\ \A i \in 1 .. m : F[i] = After(i, F[i - 1])
  BY <1>9, <1>10
<1>12. QED  BY <1>4, <1>11 DEF After, m

\* When i stages have been made, the environments of the later ones are still the
\* benchmark's, and those of the earlier ones are as they were left when they were
\* made: rendered, unless a candidate configures the stage.
LEMMA EnvironmentsSoFar ==
    ASSUME run \in RunType, NEW i \in 0 .. Len(run.benchmark)
    PROVE  LET es == environments(run) IN
           /\ es[i] \in OfStages(Len(run.benchmark))
           /\ \A j \in DOMAIN run.benchmark :
                 /\ j > i => es[i][j] = run.benchmark[j].env
                 /\ j <= i => /\ es[i][j] = es[j][j]
                              /\ SelfConfigured(j) => es[i][j] = run.benchmark[j].env
<1> DEFINE m == Len(run.benchmark)
           es == environments(run)
           Good(k) == /\ es[k] \in OfStages(m)
                      /\ \A j \in 1 .. m :
                            /\ j > k => es[k][j] = run.benchmark[j].env
                            /\ j <= k => /\ es[k][j] = es[j][j]
                                         /\ SelfConfigured(j)
                                               => es[k][j] = run.benchmark[j].env
           T == {k \in 0 .. m : Good(k)}
<1>1. m \in Nat /\ DOMAIN run.benchmark = 1 .. m
  BY RunFacts
<1>2. es[0] = Before /\ \A k \in 1 .. m : es[k] = renderEnv(run, es[k - 1], k).envs
  BY StageSteps
<1>3. Good(0)
  <2>1. Before \in OfStages(m)
    BY RunFacts DEF Before, OfStages
  <2>2. \A j \in 1 .. m : Before[j] = run.benchmark[j].env /\ ~(j <= 0)
    BY <1>1 DEF Before
  <2> HIDE DEF m, es
  <2>3. QED  BY <1>2, <2>1, <2>2
<1> HIDE DEF es
<1>4. ASSUME NEW k \in 1 .. m, Good(k - 1)  PROVE Good(k)
  <2>1. /\ es[k] \in OfStages(m)
        /\ \A j \in (1 .. m) \ {k} : es[k][j] = es[k - 1][j]
        /\ SelfConfigured(k) => es[k] = es[k - 1]
    <3> DEFINE old == es[k - 1]
    <3>1. old \in OfStages(Len(run.benchmark)) /\ k \in DOMAIN run.benchmark
      BY <1>1, <1>4
    <3>2. es[k] = renderEnv(run, old, k).envs
      BY <1>2
    <3> HIDE DEF old
    <3>3. /\ renderEnv(run, old, k).envs \in OfStages(Len(run.benchmark))
          /\ \A j \in DOMAIN run.benchmark \ {k} : renderEnv(run, old, k).envs[j] = old[j]
          /\ SelfConfigured(k) => renderEnv(run, old, k).envs = old
      BY <3>1, OneStage
    <3>4. QED  BY <1>1, <3>2, <3>3 DEF old
  <2> HIDE DEF m
  <2>2. ASSUME NEW j \in 1 .. m
        PROVE  /\ j > k => es[k][j] = run.benchmark[j].env
               /\ j <= k => /\ es[k][j] = es[j][j]
                            /\ SelfConfigured(j) => es[k][j] = run.benchmark[j].env
    <3>1. CASE j > k
      <4>1. j > k - 1 /\ j # k /\ ~(j <= k)
        BY <1>1, <3>1
      <4>2. QED  BY <1>4, <2>1, <4>1
    <3>2. CASE j = k
      <4>1. k > k - 1 /\ ~(k > k)
        BY <1>1
      <4>2. QED  BY <1>4, <2>1, <3>2, <4>1
    <3>3. CASE j < k
      <4>1. j <= k - 1 /\ j # k /\ ~(j > k)
        BY <1>1, <3>3
      <4>2. QED  BY <1>4, <2>1, <4>1
    <3>4. QED  BY <1>1, <3>1, <3>2, <3>3
  <2>3. QED  BY <2>1, <2>2
<1>5. Good(i)
  <2> HIDE DEF Good
  <2>1. 0 \in T /\ \A k \in 1 .. m : k - 1 \in T => k \in T
    BY <1>1, <1>3, <1>4
  <2>2. \A k \in 0 .. m : k \in T
    <3> HIDE DEF T, m
    <3>1. QED  BY <1>1, <2>1, EachStep
  <2>3. QED  BY <2>2
<1>6. QED  BY <1>1, <1>5 DEF es

----------------------------------------------------------------------------
(* The environment of a stage in the message.                               *)

\* {...a, ...b} has the entries of both, with b's values where it has them.
LEMMA SpreadEntries ==
    ASSUME NEW old \in Environments, NEW b \in ObjectType
    PROVE  LET c == spread(Entries(old), b) IN
           /\ c \in Seq(EntryType)
           /\ Names(c) = Names(Entries(old)) \cup Names(b)
           /\ \A k \in DOMAIN c :
                 c[k].value = IF c[k].name \in Names(b) THEN ValueOf(b, c[k].name)
                              ELSE ValueOf(old, c[k].name)
<1> DEFINE a == Entries(old)
           kept == [k \in DOMAIN a |-> IF a[k].name \in Names(b)
                                       THEN [a[k] EXCEPT !.value = ValueOf(b, a[k].name)]
                                       ELSE a[k]]
           added == [k \in DOMAIN b |-> IF b[k].name \in Names(a) THEN <<>> ELSE <<b[k]>>]
           c == spread(a, b)
           Fits(e) == e.value = IF e.name \in Names(b) THEN ValueOf(b, e.name)
                                ELSE ValueOf(old, e.name)
<1>1. /\ a \in Seq(EntryType) /\ DOMAIN a = 1 .. Len(a) /\ Len(a) \in Nat
      /\ \A k \in DOMAIN a : a[k] \in EntryType /\ ValueOf(old, a[k].name) = a[k].value
  <2>1. CASE old = None
    BY <2>1 DEF Entries
  <2>2. CASE old # None
    BY <2>2, ObjectFacts DEF Environments
  <2>3. QED  BY <2>1, <2>2
<1>2. /\ b \in Seq(EntryType) /\ DOMAIN b = 1 .. Len(b) /\ Len(b) \in Nat
      /\ \A k \in DOMAIN b : /\ b[k] \in EntryType /\ b[k].name \in Names(b)
                             /\ ValueOf(b, b[k].name) = b[k].value
  BY ObjectFacts
<1>3. c = kept \o FlattenSeq(added)
  BY DEF spread
<1> HIDE DEF a, c
<1>4. ASSUME NEW k \in DOMAIN a
      PROVE  kept[k] \in EntryType /\ kept[k].name = a[k].name /\ Fits(kept[k])
  <2>1. CASE a[k].name \in Names(b)
    <3>1. ValueOf(b, a[k].name) \in TextType
      BY ValueTyped
    <3> DEFINE v == ValueOf(b, a[k].name)
    <3>2. kept[k] = [a[k] EXCEPT !.value = v]
      BY <2>1
    <3> HIDE DEF v, kept
    <3>3. kept[k] \in EntryType /\ kept[k].name = a[k].name /\ kept[k].value = v
      BY <1>1, <3>1, <3>2 DEF EntryType, v
    <3>4. QED  BY <2>1, <3>3 DEF v
  <2>2. CASE a[k].name \notin Names(b)
    <3>1. kept[k] = a[k]
      BY <2>2
    <3>2. QED  BY <1>1, <2>2, <3>1
  <2>3. QED  BY <2>1, <2>2
<1>5. kept \in Seq(EntryType) /\ DOMAIN kept = DOMAIN a
  BY <1>1, <1>4
<1>6. added \in Seq(Seq(EntryType)) /\ DOMAIN added = DOMAIN b
  BY <1>2
<1>7. ToSet(c) = ToSet(kept) \cup UNION {ToSet(added[k]) : k \in DOMAIN b}
      /\ c \in Seq(EntryType)
  <2> HIDE DEF kept, added
  <2>1. /\ FlattenSeq(added) \in Seq(EntryType)
        /\ ToSet(FlattenSeq(added)) = UNION {ToSet(added[k]) : k \in DOMAIN added}
    BY <1>6, Flattened
  <2>2. QED  BY <1>3, <1>5, <1>6, <2>1, TwoLists
<1>8. ToSet(kept) = {kept[k] : k \in DOMAIN a}
  BY <1>5 DEF ToSet
<1>9. UNION {ToSet(added[k]) : k \in DOMAIN b}
        = {b[k] : k \in {k \in DOMAIN b : b[k].name \notin Names(a)}}
  <2>1. ASSUME NEW k \in DOMAIN b
        PROVE  ToSet(added[k]) = IF b[k].name \in Names(a) THEN {} ELSE {b[k]}
    BY DEF ToSet
  <2> HIDE DEF added
  <2>2. ASSUME NEW e
        PROVE  (\E k \in DOMAIN b : e \in ToSet(added[k]))
                  <=> (\E k \in DOMAIN b : e = b[k] /\ b[k].name \notin Names(a))
    BY <2>1
  <2>3. QED  BY <2>2
<1> HIDE DEF kept, added
<1>10. ASSUME NEW e \in ToSet(c)  PROVE Fits(e) /\ e.name \in Names(a) \cup Names(b)
  <2>1. CASE e \in {kept[k] : k \in DOMAIN a}
    <3>1. PICK k \in DOMAIN a : e = kept[k]
      BY <2>1
    <3>2. e.name \in Names(a)
      BY <3>1, <1>4 DEF Names
    <3>3. QED  BY <3>1, <3>2, <1>4
  <2>2. CASE e \in {b[k] : k \in {k \in DOMAIN b : b[k].name \notin Names(a)}}
    BY <2>2, <1>2
  <2>3. QED  BY <2>1, <2>2, <1>7, <1>8, <1>9
<1>11. Names(a) \subseteq {e.name : e \in ToSet(c)}
  <2>1. ASSUME NEW k \in DOMAIN a  PROVE a[k].name \in {e.name : e \in ToSet(c)}
    BY <1>4, <1>7, <1>8
  <2>2. QED  BY <2>1 DEF Names
<1>12. Names(b) \subseteq {e.name : e \in ToSet(c)}
  <2>1. ASSUME NEW k \in DOMAIN b, b[k].name \notin Names(a)
        PROVE  b[k].name \in {e.name : e \in ToSet(c)}
    BY <2>1, <1>7, <1>9
  <2>2. QED  BY <2>1, <1>11 DEF Names
<1>13. Names(c) = {e.name : e \in ToSet(c)}
  BY DEF Names, ToSet
<1>14. \A k \in DOMAIN c : c[k] \in ToSet(c)
  BY DEF ToSet
<1>15. Names(c) = Names(a) \cup Names(b)
  BY <1>10, <1>11, <1>12, <1>13
<1>16. \A k \in DOMAIN c : Fits(c[k])
  BY <1>10, <1>14
<1>17. QED  BY <1>7, <1>15, <1>16 DEF a, c

\* The environments of benchmark.stages when stage i is made, and the one the message
\* gives it.
EnvsAt(i) == environments(run)[i - 1]
MessageEnv(i) == renderEnv(run, EnvsAt(i), i).env

\* The stage's own environment is still the benchmark's then.
LEMMA EnvsAtFacts ==
    ASSUME run \in RunType, NEW i \in DOMAIN run.benchmark
    PROVE  /\ EnvsAt(i) \in OfStages(Len(run.benchmark))
           /\ EnvsAt(i) \in [DOMAIN EnvsAt(i) -> Environments]
           /\ DOMAIN EnvsAt(i) = DOMAIN run.benchmark
           /\ EnvsAt(i)[i] = run.benchmark[i].env
           /\ EnvsAt(i)[i] \in Environments
<1> DEFINE m == Len(run.benchmark)
<1>1. m \in Nat /\ DOMAIN run.benchmark = 1 .. m /\ run.benchmark[i].env \in Environments
  BY RunFacts
<1>2. i - 1 \in 0 .. m /\ i > i - 1
  BY <1>1
<1>3. EnvsAt(i) \in OfStages(m) /\ EnvsAt(i)[i] = run.benchmark[i].env
  BY <1>2, EnvironmentsSoFar DEF EnvsAt
<1> HIDE DEF m
<1>4. /\ DOMAIN EnvsAt(i) = 1 .. m
      /\ EnvsAt(i) \in [1 .. m -> Environments]
  BY <1>3 DEF OfStages
<1>5. EnvsAt(i) \in [DOMAIN EnvsAt(i) -> Environments]
  BY <1>4
<1>6. QED  BY <1>1, <1>3, <1>4, <1>5 DEF m

\* A stage has the variables configured for it, each rendered from its setting.
LEMMA MessageEnvFacts ==
    ASSUME run \in RunType, NEW i \in DOMAIN run.benchmark
    PROVE  LET env == Entries(MessageEnv(i)) IN
           /\ env \in Seq(EntryType)
           /\ Names(env) = Configured(i)
           /\ \A k \in DOMAIN env :
                 RenderedAs(env[k].value, Setting(i, env[k].name), i, EnvsAt(i), run.suite)
<1> DEFINE m == Len(run.benchmark)
           es == EnvsAt(i)
           old == run.benchmark[i].env
<1>1. /\ m \in Nat /\ DOMAIN run.benchmark = 1 .. m
      /\ old \in Environments /\ run.suite.properties \in Environments
      /\ run.candidate.env \in Environments
  BY RunFacts
<1>2. /\ es \in OfStages(m) /\ es \in [DOMAIN es -> Environments]
      /\ DOMAIN es = 1 .. m /\ es[i] = old
  BY <1>1, EnvsAtFacts
<1>3. SelfConfigured(i) <=> configures(run.candidate, run.benchmark[i])
  BY DEF SelfConfigured, configures
<1>4. CASE SelfConfigured(i)
  <2> DEFINE b == run.candidate.env
             c == spread(Entries(old), b)
             env == renderCopy(c, es, run.suite)
  <2>1. b \in ObjectType
    BY <1>1, <1>4 DEF SelfConfigured, Environments
  <2>2. MessageEnv(i) = env
    BY <1>2, <1>3, <1>4 DEF MessageEnv, renderEnv
  <2>3. /\ c \in Seq(EntryType)
        /\ Names(c) = Names(Entries(old)) \cup Names(b)
        /\ \A k \in DOMAIN c : c[k].value = IF c[k].name \in Names(b)
                                            THEN ValueOf(b, c[k].name)
                                            ELSE ValueOf(old, c[k].name)
    BY <1>1, <2>1, SpreadEntries
  <2> HIDE DEF c
  <2>4. Len(c) \in Nat /\ DOMAIN c = 1 .. Len(c) /\ \A k \in DOMAIN c : c[k] \in EntryType
    BY <2>3
  <2>5. ASSUME NEW k \in DOMAIN c
        PROVE  /\ env[k].name = c[k].name /\ env[k].value = render(c[k].value, run.suite, es)
               /\ env[k] \in EntryType
    <3> DEFINE v == render(c[k].value, run.suite, es)
    <3>1. v \in TextType
      BY <1>1, <1>2, <2>4, RenderTyped DEF EntryType, Environments
    <3>2. env[k] = [c[k] EXCEPT !.value = v]
      BY DEF renderCopy
    <3> HIDE DEF v, env
    <3>3. env[k].name = c[k].name /\ env[k].value = v /\ env[k] \in EntryType
      BY <2>4, <3>1, <3>2 DEF EntryType
    <3>4. QED  BY <3>3 DEF v
  <2>6. DOMAIN env = DOMAIN c /\ env \in Seq(EntryType)
    <3>1. DOMAIN env = DOMAIN c /\ env = [k \in 1 .. Len(c) |-> env[k]]
      BY <2>4 DEF renderCopy
    <3> HIDE DEF env
    <3>2. QED  BY <2>4, <2>5, <3>1
  <2> HIDE DEF env
  <2>7. Names(env) = Names(c) /\ Names(c) = Configured(i)
    <3>1. DOMAIN env = DOMAIN c /\ \A k \in DOMAIN c : env[k].name = c[k].name
      BY <2>5, <2>6
    <3>2. Names(env) = Names(c)
      BY <3>1 DEF Names
    <3>3. Names(c) = Configured(i)
      BY <1>4, <2>3 DEF Configured
    <3>4. QED  BY <3>2, <3>3
  <2>8. \A k \in DOMAIN c : c[k].value = Setting(i, c[k].name)
    BY <1>4, <2>3 DEF Setting
  <2>9. \A k \in DOMAIN env :
            RenderedAs(env[k].value, Setting(i, env[k].name), i, es, run.suite)
    <3> HIDE DEF es
    <3>1. ASSUME NEW text  PROVE RenderedAs(render(text, run.suite, es), text, i, es, run.suite)
      BY <1>2 DEF RenderedAs
    <3>2. \A k \in DOMAIN env : env[k].name = c[k].name
                             /\ env[k].value = render(Setting(i, c[k].name), run.suite, es)
      BY <2>5, <2>6, <2>8
    <3>3. QED  BY <3>1, <3>2
  <2>10. Entries(env) = env
    BY <2>6, NoneIsNoList DEF Entries
  <2>11. QED  BY <2>2, <2>6, <2>7, <2>9, <2>10
<1>5. CASE ~SelfConfigured(i)
  <2> DEFINE after == renderInPlace(es, i, run.suite)
             env == after[i]
  <2>1. MessageEnv(i) = env
    BY <1>3, <1>5 DEF MessageEnv, renderEnv
  <2>2. i \in 1 .. m
    BY <1>1
  <2>3. /\ es[i] = None => after = es
        /\ es[i] # None => env \in ObjectType /\ MayRender(es[i], env, i, es, run.suite)
    <3> HIDE DEF es, m
    <3>1. QED  BY <1>1, <1>2, <2>2, InPlace
  <2> HIDE DEF after
  <2>4. Configured(i) = Names(Entries(old)) /\ \A n : Setting(i, n) = ValueOf(old, n)
    BY <1>5 DEF Configured, Setting
  <2>5. CASE old = None
    <3>1. MessageEnv(i) = None
      BY <1>2, <2>1, <2>3, <2>5
    <3>2. Entries(MessageEnv(i)) = <<>> /\ Entries(old) = <<>>
      BY <2>5, <3>1 DEF Entries
    <3>3. QED  BY <2>4, <3>2 DEF Names
  <2>6. CASE old # None
    <3>1. env \in ObjectType /\ MayRender(old, env, i, es, run.suite)
      BY <1>2, <2>3, <2>6
    <3> HIDE DEF env
    <3>2. Entries(env) = env /\ env \in Seq(EntryType)
      BY <3>1, ObjectFacts
    <3>3. Entries(old) = old /\ \A k \in DOMAIN old : ValueOf(old, old[k].name) = old[k].value
      BY <1>1, <2>6, ObjectFacts DEF Environments
    <3>4. /\ DOMAIN env = DOMAIN old
          /\ \A k \in DOMAIN old :
                /\ env[k].name = old[k].name
                /\ RenderedAs(env[k].value, old[k].value, i, es, run.suite)
      BY <3>1 DEF MayRender
    <3>5. Names(env) = Names(old)
      BY <3>4 DEF Names
    <3>6. \A k \in DOMAIN env : Setting(i, env[k].name) = old[k].value
      BY <2>4, <3>3, <3>4
    <3>7. QED  BY <2>1, <2>4, <3>2, <3>3, <3>4, <3>5, <3>6
  <2>7. QED  BY <2>5, <2>6
<1>6. QED  BY <1>4, <1>5

----------------------------------------------------------------------------
(* The invariant: message and workflow are those of the run.                *)

IInv ==
    /\ run \in Run /\ key \in Key
    /\ stages # None => stages = createMessage(run)
    /\ workflow # None => stages = createMessage(run) /\ workflow = createWorkflow(stages, key)

\* Message and workflow are made once, and the run stays what it is.
THEOREM PipelineInductive == Spec => []IInv
<1>1. Init => IInv
  BY DEF Init, IInv
<1>2. IInv /\ [Next]_vars => IInv'
  <2> SUFFICES ASSUME IInv, [Next]_vars  PROVE IInv'
    OBVIOUS
  <2>1. CASE SendMessage
    BY <2>1 DEF IInv, SendMessage
  <2>2. CASE ProcessRun
    BY <2>2 DEF IInv, ProcessRun
  <2>3. CASE UNCHANGED vars
    BY <2>3 DEF IInv, vars
  <2>4. QED  BY <2>1, <2>2, <2>3 DEF Next
<1>3. QED  BY <1>1, <1>2, PTL DEF Spec

\* The stages of the message.
LEMMA StageFacts ==
    ASSUME IInv, stages = createMessage(run)
    PROVE  /\ run \in RunType
           /\ DOMAIN stages = Stage
           /\ \A i \in Stage :
                 /\ stages[i].name = run.benchmark[i].name
                 /\ stages[i].kind = run.benchmark[i].kind
                 /\ stages[i].image = imageOf(run.benchmark[i], run.candidate)
                 /\ stages[i].volumes = mountsOf(run.benchmark[i], run.suite)
                 /\ stages[i].cmd = renderCmd(run.benchmark[i].cmd, run.suite, EnvsAt(i))
                 /\ stages[i].env = MessageEnv(i)
<1>1. run \in RunType
  BY RunAssumption DEF IInv
<1>2. stages = [i \in Stage |-> createStage(run, EnvsAt(i), i)]
  BY DEF createMessage, EnvsAt, Stage
<1>3. QED  BY <1>1, <1>2 DEF createStage, MessageEnv

\* The templates of the workflow.
LEMMA ContainerFacts ==
    ASSUME IInv, workflow # None
    PROVE  LET m == Len(run.benchmark) IN
           /\ m \in Nat /\ Stage = 1 .. m
           /\ DOMAIN workflow.steps = 1 .. m /\ Len(workflow.steps) = m
           /\ workflow.claims = claimTemplates(stages)
           /\ DOMAIN workflow.templates = 1 .. m + 1
           /\ workflow.templates[1] = [name |-> entrypoint]
           /\ \A i \in Stage : /\ workflow.steps[i] = run.benchmark[i].name
                               /\ Container(i) = stageTemplate(stages[i], key)
<1> DEFINE m == Len(run.benchmark)
           made == [i \in 1 .. m |-> stageTemplate(stages[i], key)]
<1>1. stages = createMessage(run) /\ workflow = createWorkflow(stages, key)
  BY DEF IInv
<1>2. m \in Nat /\ Stage = 1 .. m /\ DOMAIN stages = 1 .. m
  BY <1>1, StageFacts, RunFacts DEF Stage
<1> HIDE DEF m
<1>3. /\ workflow.steps = [i \in 1 .. m |-> stages[i].name]
      /\ workflow.templates = <<[name |-> entrypoint]>> \o made
      /\ workflow.claims = claimTemplates(stages)
  BY <1>1, <1>2 DEF createWorkflow
<1>4. made \in Seq({made[i] : i \in 1 .. m}) /\ Len(made) = m
  BY <1>2
<1>5. /\ DOMAIN workflow.templates = 1 .. m + 1
      /\ workflow.templates[1] = [name |-> entrypoint]
      /\ \A i \in 1 .. m : workflow.templates[i + 1] = made[i]
  <2> DEFINE first == [name |-> entrypoint]
             S == {first} \cup {made[i] : i \in 1 .. m}
  <2>1. made \in Seq(S) /\ <<first>> \in Seq(S)
    BY <1>4
  <2>2. ASSUME NEW a \in S, NEW b \in Seq(S), Len(b) = m
        PROVE  /\ DOMAIN (<<a>> \o b) = 1 .. m + 1
               /\ (<<a>> \o b)[1] = a
               /\ \A i \in 1 .. m : (<<a>> \o b)[i + 1] = b[i]
    BY <1>2, <2>2
  <2> HIDE DEF made, S, first
  <2>3. first \in S
    BY DEF S
  <2>4. workflow.templates = <<first>> \o made
    BY <1>3 DEF first
  <2>5. /\ DOMAIN (<<first>> \o made) = 1 .. m + 1
        /\ (<<first>> \o made)[1] = first
        /\ \A i \in 1 .. m : (<<first>> \o made)[i + 1] = made[i]
    BY <1>4, <2>1, <2>2, <2>3
  <2>6. QED  BY <2>4, <2>5 DEF first
<1>6. \A i \in 1 .. m : /\ workflow.steps[i] = run.benchmark[i].name
                        /\ Container(i) = stageTemplate(stages[i], key)
  BY <1>1, <1>2, <1>3, <1>5, StageFacts DEF Container
<1>7. DOMAIN workflow.steps = 1 .. m /\ Len(workflow.steps) = m
  BY <1>2, <1>3
<1>8. QED  BY <1>2, <1>3, <1>5, <1>6, <1>7 DEF m

\* Each step of the workflow finds the container of its stage, with the image and
\* the identity that stage is to have, and another one only where the benchmark
\* gives the name to another stage, or the entry point's to this one.
THEOREM StepsAlwaysRunTheirStages == Spec => []StepsRunTheirStages
<1>1. IInv => StepsRunTheirStages
  <2> SUFFICES ASSUME IInv, workflow # None PROVE StepsRunTheirStages
    BY DEF StepsRunTheirStages
  <2> DEFINE m == Len(run.benchmark)
             name(i) == run.benchmark[i].name
  <2>1. stages = createMessage(run)
    BY DEF IInv
  <2>2. /\ m \in Nat /\ Stage = 1 .. m /\ Len(workflow.steps) = m
        /\ DOMAIN workflow.templates = 1 .. m + 1
        /\ workflow.templates[1].name = entrypoint
        /\ \A i \in Stage : workflow.steps[i] = name(i)
    BY ContainerFacts
  <2>3. ASSUME NEW i \in Stage
        PROVE  /\ Container(i).name = name(i)
               /\ Container(i).image = imageOf(run.benchmark[i], run.candidate)
               /\ Container(i).identity = getIdentity(run.benchmark[i].kind)
    <3>1. Container(i) = stageTemplate(stages[i], key)
      BY ContainerFacts
    <3>2. /\ stages[i].name = name(i)
          /\ stages[i].kind = run.benchmark[i].kind
          /\ stages[i].image = imageOf(run.benchmark[i], run.candidate)
      BY <2>1, StageFacts
    <3>3. ASSUME NEW stage
          PROVE  LET t == stageTemplate(stage, key) IN
                 t.name = stage.name /\ t.image = stage.image /\ t.identity = getIdentity(stage.kind)
      BY DEF stageTemplate
    <3>4. QED  BY <3>1, <3>2, <3>3
  <2>4. \A i \in Stage : workflow.templates[i + 1].name = name(i)
    BY <2>3 DEF Container
  <2> HIDE DEF m, name
  <2>5. ASSUME NEW i \in Stage
        PROVE  TemplatesOf(i) = {j + 1 : j \in {j \in Stage : name(j) = name(i)}}
                                \cup {k \in {1} : name(i) = entrypoint}
    <3> DEFINE namesakes == {j \in Stage : name(j) = name(i)}
    <3>1. TemplatesOf(i) = {k \in 1 .. m + 1 : workflow.templates[k].name = name(i)}
      BY <2>2 DEF TemplatesOf
    <3>2. ASSUME NEW k \in TemplatesOf(i), k # 1 PROVE k \in {j + 1 : j \in namesakes}
      <4>1. k - 1 \in Stage /\ (k - 1) + 1 = k
        BY <2>2, <3>1, <3>2
      <4>2. name(k - 1) = name(i)
        BY <2>4, <3>1, <4>1
      <4>3. QED  BY <4>1, <4>2
    <3>3. ASSUME NEW j \in namesakes PROVE j + 1 \in TemplatesOf(i)
      <4>1. j + 1 \in 1 .. m + 1
        BY <2>2
      <4>2. QED  BY <2>4, <3>1, <4>1
    <3>4. 1 \in TemplatesOf(i) <=> name(i) = entrypoint
      BY <2>2, <3>1
    <3>5. QED  BY <3>2, <3>3, <3>4
  <2>6. ASSUME NEW i \in Stage
        PROVE  /\ run.benchmark[i].kind = "candidate" =>
                    Container(i).image = run.candidate.image
                    /\ Container(i).identity = "candidate"
               /\ run.benchmark[i].kind = "container" =>
                    Container(i).image = run.benchmark[i].image
                    /\ Container(i).identity = "benchmark"
    BY <2>3 DEF imageOf, getIdentity
  <2>7. QED  BY <2>2, <2>5, <2>6 DEF StepsRunTheirStages, m, name
<1>2. QED  BY <1>1, PipelineInductive, PTL

----------------------------------------------------------------------------
(* What a container sees of its environment.                                *)

ContainerEntry == [name : Word \cup {KeyName}, value : TextType \cup Key]

\* From the end, the value of a name is that of its last entry.
LEMMA LastEntry ==
    ASSUME NEW S, None \notin Seq(S), NEW o \in Seq(S), NEW n \in Names(o)
    PROVE  \E k \in DOMAIN o : /\ o[k].name = n
                               /\ ValueOf(Reverse(o), n) = o[k].value
                               /\ \A j \in DOMAIN o : o[j].name = n => j <= k
<1> DEFINE m == Len(o)
           r == Reverse(o)
<1>1. m \in Nat /\ \A j \in DOMAIN o : j \in 1 .. m
  OBVIOUS
<1>2. r = [j \in 1 .. m |-> o[(m - j) + 1]]
  BY DEF Reverse
<1>3. \A j \in 1 .. m : (m - j) + 1 \in 1 .. m /\ (m - ((m - j) + 1)) + 1 = j
  BY <1>1
<1>4. \A j \in 1 .. m : o[j] \in S
  OBVIOUS
<1>5. r \in Seq(S)
  <2>1. \A j \in 1 .. m : o[(m - j) + 1] \in S
    BY <1>3, <1>4
  <2> HIDE DEF m, r
  <2>2. QED  BY <1>1, <1>2, <2>1
<1>6. DOMAIN r = 1 .. m /\ \A j \in 1 .. m : r[j] = o[(m - j) + 1]
  BY <1>2
<1> HIDE DEF r
<1>7. n \in Names(r)
  <2>1. PICK j \in 1 .. m : o[j].name = n
    BY <1>1 DEF Names
  <2> DEFINE l == (m - j) + 1
  <2>2. l \in 1 .. m /\ r[l] = o[j]
    BY <1>3, <1>6
  <2> HIDE DEF l, m
  <2>3. QED  BY <1>6, <2>1, <2>2 DEF Names
<1>8. PICK k \in DOMAIN r : /\ r[k].name = n
                            /\ ValueOf(r, n) = r[k].value
                            /\ \A j \in DOMAIN r : r[j].name = n => k <= j
  <2>1. r # None
    BY <1>5
  <2>2. QED  BY <1>5, <1>7, <2>1, ValueFound
<1> DEFINE last == (m - k) + 1
<1>9. k \in 1 .. m /\ last \in 1 .. m /\ r[k] = o[last]
  BY <1>3, <1>6
<1>10. ASSUME NEW j \in 1 .. m, o[j].name = n  PROVE j <= last
  <2> DEFINE l == (m - j) + 1
  <2>1. l \in 1 .. m /\ r[l] = o[j]
    BY <1>3, <1>6
  <2>2. k <= l
    <3> HIDE DEF l, m
    <3>1. QED  BY <1>6, <1>8, <1>10, <2>1
  <2>3. QED  BY <1>1, <1>9, <2>2
<1>11. last \in DOMAIN o
  BY <1>9
<1>12. \A j \in DOMAIN o : o[j].name = n => j <= last
  BY <1>1, <1>10
<1> HIDE DEF last, m
<1>13. QED  BY <1>8, <1>9, <1>11, <1>12 DEF r

\* The worker's key comes last.
LEMMA ContainerEnvFacts ==
    ASSUME NEW env, Entries(env) \in Seq(EntryType), NEW k \in Key
    PROVE  LET c == containerEnv(env, k) IN
           /\ Names(c) = Names(Entries(env)) \cup IF k = None THEN {} ELSE {KeyName}
           /\ k # None => ValueOf(Reverse(c), KeyName) = k
           /\ \A n \in Names(Entries(env)) \ {KeyName} :
                 \E j \in DOMAIN Entries(env) :
                    /\ Entries(env)[j].name = n
                    /\ ValueOf(Reverse(c), n) = Entries(env)[j].value
<1> DEFINE a == Entries(env)
           c == containerEnv(env, k)
           keyEntry == [name |-> KeyName, value |-> k]
<1>1. a \in Seq(ContainerEntry)
  <2>1. EntryType \subseteq ContainerEntry
    BY DEF EntryType, ContainerEntry
  <2> HIDE DEF a
  <2>2. QED  BY <2>1 DEF a
<1>2. None \notin Seq(ContainerEntry)
  BY RunAssumption DEF ContainerEntry
<1> HIDE DEF a, c
<1>3. CASE k = None
  <2>1. c = a
    <3>1. c = a \o <<>>
      BY <1>3 DEF a, c, containerEnv
    <3>2. QED  BY <1>1, <3>1
  <2>2. QED  BY <1>1, <1>2, <1>3, <2>1, LastEntry DEF a, c
<1>4. CASE k # None
  <2> DEFINE m == Len(a)
  <2>1. c = Append(a, keyEntry) /\ keyEntry \in ContainerEntry
    <3>1. c = a \o <<keyEntry>>
      BY <1>4 DEF a, c, containerEnv
    <3>2. keyEntry \in ContainerEntry
      BY DEF ContainerEntry
    <3> HIDE DEF keyEntry
    <3>3. QED  BY <1>1, <3>1, <3>2
  <2> HIDE DEF keyEntry
  <2>2. c \in Seq(ContainerEntry)
    BY <1>1, <2>1
  <2>3. m \in Nat /\ \A j \in DOMAIN a : j \in 1 .. m
    BY <1>1
  <2>4. DOMAIN a = 1 .. m
    BY <1>1
  <2>5. /\ DOMAIN c = 1 .. m + 1 /\ c[m + 1] = keyEntry
        /\ \A j \in 1 .. m : c[j] = a[j]
    BY <1>1, <2>1
  <2>6. keyEntry.name = KeyName /\ keyEntry.value = k
    BY DEF keyEntry
  <2> HIDE DEF m
  <2>7. Names(c) = Names(a) \cup {KeyName}
    <3>1. 1 .. m + 1 = (1 .. m) \cup {m + 1}
      BY <2>3
    <3>2. QED  BY <2>4, <2>5, <2>6, <3>1 DEF Names
  <2>8. ASSUME NEW n \in Names(c)
        PROVE  \E j \in 1 .. m + 1 : /\ c[j].name = n
                                     /\ ValueOf(Reverse(c), n) = c[j].value
                                     /\ \A i \in 1 .. m + 1 : c[i].name = n => i <= j
    BY <1>2, <2>2, <2>5, LastEntry
  <2>9. ValueOf(Reverse(c), KeyName) = k
    <3>1. PICK j \in 1 .. m + 1 : /\ ValueOf(Reverse(c), KeyName) = c[j].value
                                  /\ \A i \in 1 .. m + 1 : c[i].name = KeyName => i <= j
      BY <2>7, <2>8
    <3>2. m + 1 \in 1 .. m + 1 /\ c[m + 1].name = KeyName
      BY <2>3, <2>5, <2>6
    <3>3. j = m + 1
      BY <2>3, <3>1, <3>2
    <3>4. QED  BY <2>5, <2>6, <3>1, <3>3
  <2>10. ASSUME NEW n \in Names(a) \ {KeyName}
         PROVE  \E j \in DOMAIN a : a[j].name = n /\ ValueOf(Reverse(c), n) = a[j].value
    <3>1. PICK j \in 1 .. m + 1 : c[j].name = n /\ ValueOf(Reverse(c), n) = c[j].value
      BY <2>7, <2>8
    <3>2. j # m + 1
      BY <2>5, <2>6, <3>1
    <3>3. j \in 1 .. m
      BY <2>3, <3>2
    <3>4. QED  BY <2>4, <2>5, <3>1, <3>3
  <2>11. QED  BY <1>4, <2>7, <2>9, <2>10 DEF a, c
<1>5. QED  BY <1>3, <1>4

\* A container has the variables its stage configures and the worker's key, which
\* wins; literal values and properties of the suite arrive as they are.
THEOREM EnvironmentsAlwaysAsConfigured == Spec => []EnvironmentsAsConfigured
<1>1. IInv => EnvironmentsAsConfigured
  <2> SUFFICES ASSUME IInv, workflow # None, NEW i \in Stage
               PROVE  /\ Names(Container(i).env)
                           = Configured(i) \cup IF key = None THEN {} ELSE {KeyName}
                      /\ key # None => Seen(i, KeyName) = key
                      /\ \A n \in Configured(i) \ {KeyName} :
                           LET text == Setting(i, n)
                           IN CASE text.tag = "literal"  -> Seen(i, n) = text
                                [] text.tag = "property" ->
                                     Seen(i, n) = ValueOf(run.suite.properties, text.name)
                                [] OTHER -> TRUE
    BY DEF EnvironmentsAsConfigured
  <2> DEFINE env == Entries(MessageEnv(i))
             c == containerEnv(MessageEnv(i), key)
  <2>1. stages = createMessage(run) /\ key \in Key
    BY DEF IInv
  <2>2. run \in RunType /\ stages[i].env = MessageEnv(i) /\ i \in DOMAIN run.benchmark
    BY <2>1, StageFacts DEF Stage
  <2>3. Container(i).env = c
    <3>1. Container(i) = stageTemplate(stages[i], key)
      BY ContainerFacts
    <3>2. QED  BY <2>2, <3>1 DEF stageTemplate
  <2>4. /\ env \in Seq(EntryType)
        /\ Names(env) = Configured(i)
        /\ \A k \in DOMAIN env :
              RenderedAs(env[k].value, Setting(i, env[k].name), i, EnvsAt(i), run.suite)
    BY <2>2, MessageEnvFacts
  <2>5. /\ Names(c) = Names(env) \cup IF key = None THEN {} ELSE {KeyName}
        /\ key # None => ValueOf(Reverse(c), KeyName) = key
        /\ \A n \in Names(env) \ {KeyName} :
              \E j \in DOMAIN env :
                 env[j].name = n /\ ValueOf(Reverse(c), n) = env[j].value
    BY <2>1, <2>4, ContainerEnvFacts
  <2> HIDE DEF env, c
  <2>6. ASSUME NEW n \in Configured(i) \ {KeyName}
        PROVE  LET text == Setting(i, n)
               IN CASE text.tag = "literal"  -> Seen(i, n) = text
                    [] text.tag = "property" ->
                         Seen(i, n) = ValueOf(run.suite.properties, text.name)
                    [] OTHER -> TRUE
    <3> DEFINE text == Setting(i, n)
    <3>1. Seen(i, n) = ValueOf(Reverse(c), n)
      BY <2>3 DEF Seen
    <3>2. RenderedAs(Seen(i, n), text, i, EnvsAt(i), run.suite)
      BY <2>4, <2>5, <3>1
    <3>3. PICK es : Seen(i, n) = render(text, run.suite, es)
      BY <3>2 DEF RenderedAs
    <3> HIDE DEF text
    <3>4. CASE text.tag = "literal"
      BY <3>3, <3>4 DEF render, text
    <3>5. CASE text.tag = "property"
      BY <3>3, <3>5 DEF render, text
    <3>6. CASE text.tag \notin {"literal", "property"}
      BY <3>6 DEF text
    <3>7. QED  BY <3>4, <3>5, <3>6
  <2>7. Seen(i, KeyName) = ValueOf(Reverse(c), KeyName)
    BY <2>3 DEF Seen
  <2>8. QED  BY <2>3, <2>4, <2>5, <2>6, <2>7
<1>2. QED  BY <1>1, PipelineInductive, PTL

----------------------------------------------------------------------------
(* What tags yield.                                                         *)

\* What an earlier stage's environment is when stage i is made.
LEMMA EarlierEnv ==
    ASSUME IInv, stages = createMessage(run), NEW i \in Stage, NEW j \in 1 .. (i - 1)
    PROVE  EnvsAt(i)[j] = IF SelfConfigured(j) THEN run.benchmark[j].env ELSE stages[j].env
<1> DEFINE m == Len(run.benchmark)
           es == environments(run)
<1>1. run \in RunType /\ m \in Nat /\ Stage = 1 .. m
  BY StageFacts, RunFacts DEF Stage
<1>2. i \in 1 .. m /\ i - 1 \in 0 .. m /\ j \in 1 .. m /\ j <= i - 1
  BY <1>1
<1>3. j \in DOMAIN run.benchmark
  BY <1>1, <1>2 DEF Stage
<1> HIDE DEF m, es
<1>4. /\ es[i - 1][j] = es[j][j]
      /\ SelfConfigured(j) => es[i - 1][j] = run.benchmark[j].env
  <2>1. i - 1 \in 0 .. Len(run.benchmark)
    BY <1>2 DEF m
  <2>2. QED  BY <1>1, <1>2, <1>3, <2>1, EnvironmentsSoFar DEF es
<1>5. es[j] = renderEnv(run, EnvsAt(j), j).envs
  BY <1>1, <1>2, StageSteps DEF es, m, EnvsAt
<1>6. ASSUME ~SelfConfigured(j)  PROVE es[j][j] = MessageEnv(j)
  <2>1. ~configures(run.candidate, run.benchmark[j])
    BY <1>6 DEF SelfConfigured, configures
  <2>2. QED  BY <1>5, <2>1 DEF renderEnv, MessageEnv
<1>7. stages[j].env = MessageEnv(j)
  <2>1. j \in Stage
    BY <1>1, <1>2
  <2>2. QED  BY <2>1, StageFacts
<1>8. QED  BY <1>4, <1>6, <1>7 DEF es, EnvsAt

\* What stage i renders a tag to that names a variable of an earlier stage.
LEMMA EarlierTag ==
    ASSUME IInv, stages = createMessage(run), NEW i \in Stage, NEW r \in Rendered(i),
           r[1].tag = "variable", r[1].stage \in 1 .. (i - 1)
    PROVE  r[2] = ValueOf(EnvsAt(i)[r[1].stage], r[1].name)
<1> DEFINE text == r[1]
           es == EnvsAt(i)
           cmd == run.benchmark[i].cmd
           env == MessageEnv(i)
<1>1. run \in RunType /\ i \in DOMAIN run.benchmark
  BY StageFacts DEF Stage
<1>2. text.stage # i /\ text.stage \in DOMAIN es
  <2>1. DOMAIN es = DOMAIN run.benchmark
    BY <1>1, EnvsAtFacts
  <2>2. Len(run.benchmark) \in Nat /\ DOMAIN run.benchmark = 1 .. Len(run.benchmark)
    BY <1>1, RunFacts
  <2> HIDE DEF es, text
  <2>3. text.stage \in 1 .. (i - 1)
    BY DEF text
  <2>4. QED  BY <1>1, <2>1, <2>2, <2>3
<1> HIDE DEF es
<1>3. ASSUME NEW envs, text.stage \in DOMAIN envs
      PROVE  render(text, run.suite, envs) = ValueOf(envs[text.stage], text.name)
  BY <1>3 DEF render
<1>4. stages[i].cmd = renderCmd(cmd, run.suite, es) /\ stages[i].env = env
  BY StageFacts DEF es
<1>5. CASE \E k \in DOMAIN Entries(cmd) : r = <<cmd[k], stages[i].cmd[k]>>
  <2>1. PICK k \in DOMAIN Entries(cmd) : r = <<cmd[k], stages[i].cmd[k]>>
    BY <1>5
  <2>2. cmd # None /\ k \in DOMAIN cmd
    BY DEF Entries
  <2>3. stages[i].cmd[k] = render(cmd[k], run.suite, es)
    BY <1>4, <2>2 DEF renderCmd
  <2>4. r[2] = render(text, run.suite, es)
    BY <2>1, <2>3
  <2> HIDE DEF text
  <2>5. QED  BY <1>2, <1>3, <2>4 DEF text, es
<1>6. CASE \E n \in Configured(i) : r = <<Setting(i, n), ValueOf(stages[i].env, n)>>
  <2>1. PICK n \in Configured(i) : r = <<Setting(i, n), ValueOf(stages[i].env, n)>>
    BY <1>6
  <2>2. text = Setting(i, n) /\ r[2] = ValueOf(env, n)
    BY <1>4, <2>1
  <2> HIDE DEF env, text
  <2>3. /\ Entries(env) \in Seq(EntryType) /\ n \in Names(Entries(env))
        /\ \A k \in DOMAIN Entries(env) :
              RenderedAs(Entries(env)[k].value, Setting(i, Entries(env)[k].name), i, es,
                         run.suite)
    BY <1>1, MessageEnvFacts DEF env, es
  <2>4. env # None /\ Entries(env) = env
    BY <2>3 DEF Entries, Names
  <2>5. PICK k \in DOMAIN env : env[k].name = n /\ ValueOf(env, n) = env[k].value
    BY <2>3, <2>4, ValueFound
  <2>6. RenderedAs(r[2], text, i, es, run.suite)
    BY <2>2, <2>3, <2>4, <2>5
  <2>7. PICK others \in [DOMAIN es -> Environments] :
              /\ \A j \in DOMAIN es \ {i} : others[j] = es[j]
              /\ r[2] = render(text, run.suite, others)
    BY <2>6 DEF RenderedAs
  <2>8. others[text.stage] = es[text.stage] /\ text.stage \in DOMAIN others
    BY <1>2, <2>7
  <2>9. QED  BY <1>3, <2>7, <2>8 DEF text, es
<1>7. QED  BY <1>5, <1>6 DEF Rendered

\* A tag that names a variable of an earlier stage yields what that variable is in the
\* earlier stage's container.
THEOREM TagsAlwaysFollowEarlierStages == Spec => []TagsFollowEarlierStages
<1>1. IInv => TagsFollowEarlierStages
  <2> SUFFICES ASSUME IInv, stages # None, NEW i \in Stage, NEW r \in Rendered(i),
                      r[1].tag = "variable", r[1].stage \in 1 .. (i - 1)
               PROVE  r[2] = EarlierValue(r[1])
    BY DEF TagsFollowEarlierStages
  <2>1. stages = createMessage(run)
    BY DEF IInv
  <2> DEFINE text == r[1]
  <2>2. r[2] = ValueOf(EnvsAt(i)[text.stage], text.name)
    BY <2>1, EarlierTag
  <2>3. EnvsAt(i)[text.stage] = IF SelfConfigured(text.stage)
                                THEN run.benchmark[text.stage].env
                                ELSE stages[text.stage].env
    BY <2>1, EarlierEnv
  <2> HIDE DEF text
  <2>4. QED  BY <2>2, <2>3 DEF EarlierValue, text
<1>2. QED  BY <1>1, PipelineInductive, PTL

----------------------------------------------------------------------------
(* Volumes, mounts and claims.                                              *)

\* A mount in a container, and the mount a stage asks for.
Shown(w) == [name |-> w.name, mountPath |-> w.target, readOnly |-> w.readonly]
Asked(v) == [name |-> v.name, mountPath |-> v.path, readOnly |-> v.readonly]
Declared(suite) == Names(Entries(suite.volumes))

\* A volume of a stage adds one mount, if the suite declares it.
LEMMA MountOf ==
    ASSUME NEW v \in VolumeMountType, NEW suite, Entries(suite.volumes) \in Seq(SuiteVolumeType)
    PROVE  /\ mountOf(v, suite) \in Seq(StageVolumeType)
           /\ {Shown(w) : w \in ToSet(mountOf(v, suite))}
                = IF v.name \in Declared(suite) THEN {Asked(v)} ELSE {}
<1> DEFINE sv == Entries(suite.volumes)
           I == {i \in 1 .. Len(sv) : sv[i].name = v.name}
           k == SelectInSeq(sv, LAMBDA e : e.name = v.name)
           made == [name |-> v.name, target |-> v.path, readonly |-> v.readonly,
                    type |-> suite.volumes[k].type, source |-> suite.volumes[k].target]
<1>1. DOMAIN sv = 1 .. Len(sv) /\ Len(sv) \in Nat /\ \A i \in 1 .. Len(sv) : sv[i] \in SuiteVolumeType
  OBVIOUS
<1>2. mountOf(v, suite) = IF k = 0 THEN <<>> ELSE <<made>>
  BY DEF mountOf
<1>3. k = IF I # {} THEN Min(I) ELSE 0
  BY DEF SelectInSeq
<1>4. v.name \in Declared(suite) <=> I # {}
  <2> HIDE DEF k, made
  <2>1. QED  BY <1>1 DEF Declared, Names
<1>5. I # {} => Min(I) \in I
  <2>1. SUFFICES ASSUME I # {}  PROVE Min(I) \in I
    OBVIOUS
  <2>2. I \in SUBSET Nat
    BY <1>1
  <2> HIDE DEF I
  <2>3. \E x \in I : \A y \in I : x <= y
    BY <2>1, <2>2, Smallest
  <2>4. QED  BY <2>3 DEF Min
<1>6. CASE I = {}
  <2>1. mountOf(v, suite) = <<>>
    BY <1>2, <1>3, <1>6
  <2>2. ToSet(<<>>) = {}
    BY DEF ToSet
  <2>3. QED  BY <1>4, <1>6, <2>1, <2>2
<1>7. CASE I # {}
  <2>1. k \in I /\ k # 0
    BY <1>1, <1>3, <1>5, <1>7
  <2>2. sv = suite.volumes
    <3>1. 1 .. Len(sv) # {}
      BY <1>7
    <3>2. Len(<<>>) = 0 /\ 1 .. 0 = {}
      OBVIOUS
    <3>3. sv # <<>>
      BY <3>1, <3>2
    <3>4. QED  BY <3>3 DEF Entries
  <2>3. suite.volumes[k] \in SuiteVolumeType
    BY <1>1, <2>1, <2>2
  <2> HIDE DEF k, I
  <2>4. made \in StageVolumeType
    BY <2>3 DEF StageVolumeType, SuiteVolumeType, VolumeMountType
  <2>5. Shown(made) = Asked(v)
    BY DEF Shown, Asked
  <2> HIDE DEF made
  <2>6. mountOf(v, suite) = <<made>>
    BY <1>2, <2>1
  <2>7. ToSet(<<made>>) = {made}
    BY DEF ToSet
  <2>8. QED  BY <1>4, <1>7, <2>4, <2>5, <2>6, <2>7
<1>8. QED  BY <1>6, <1>7

\* What a stage mounts: those of its volumes that the suite declares.
LEMMA MountsOf ==
    ASSUME NEW stage \in PipelineStageType, NEW suite,
           Entries(suite.volumes) \in Seq(SuiteVolumeType)
    PROVE  LET ws == mountsOf(stage, suite) IN
           /\ ws = None \/ ws \in Seq(StageVolumeType)
           /\ {Shown(w) : w \in ToSet(Entries(ws))}
                = {Asked(v) : v \in {v \in ToSet(Entries(stage.volumes)) :
                                        v.name \in Declared(suite)}}
<1> DEFINE vs == stage.volumes
           ws == mountsOf(stage, suite)
           each == [k \in DOMAIN vs |-> mountOf(vs[k], suite)]
<1>1. vs = None \/ vs \in Seq(VolumeMountType)
  BY DEF PipelineStageType
<1>2. CASE vs = None
  <2>1. Entries(ws) = <<>> /\ Entries(vs) = <<>> /\ ws = None
    BY <1>2 DEF mountsOf, Entries
  <2>2. ToSet(<<>>) = {}
    BY DEF ToSet
  <2>3. QED  BY <2>1, <2>2
<1>3. CASE vs # None
  <2>1. /\ vs \in Seq(VolumeMountType) /\ Len(vs) \in Nat /\ DOMAIN vs = 1 .. Len(vs)
        /\ \A k \in DOMAIN vs : vs[k] \in VolumeMountType
    BY <1>1, <1>3
  <2>2. ws = FlattenSeq(each) /\ Entries(vs) = vs
    BY <1>3 DEF mountsOf, Entries
  <2> HIDE DEF vs, ws
  <2>3. ASSUME NEW k \in DOMAIN vs
        PROVE  /\ mountOf(vs[k], suite) \in Seq(StageVolumeType)
               /\ {Shown(w) : w \in ToSet(mountOf(vs[k], suite))}
                    = IF vs[k].name \in Declared(suite) THEN {Asked(vs[k])} ELSE {}
    BY <2>1, MountOf
  <2>4. each \in Seq(Seq(StageVolumeType)) /\ DOMAIN each = DOMAIN vs
    BY <2>1, <2>3
  <2>5. \A k \in DOMAIN vs : each[k] = mountOf(vs[k], suite)
    OBVIOUS
  <2> HIDE DEF each
  <2>6. ws \in Seq(StageVolumeType) /\ ToSet(ws) = UNION {ToSet(each[k]) : k \in DOMAIN each}
    BY <2>2, <2>4, Flattened
  <2>7. Entries(ws) = ws
    BY <2>6, NoneIsNoList DEF Entries
  <2>8. ASSUME NEW x
        PROVE  (\E w \in ToSet(ws) : x = Shown(w))
                 <=> (\E k \in DOMAIN vs : vs[k].name \in Declared(suite) /\ x = Asked(vs[k]))
    <3>1. (\E w \in ToSet(ws) : x = Shown(w))
            <=> (\E k \in DOMAIN vs : \E w \in ToSet(mountOf(vs[k], suite)) : x = Shown(w))
      BY <2>4, <2>5, <2>6
    <3>2. ASSUME NEW k \in DOMAIN vs
          PROVE  (\E w \in ToSet(mountOf(vs[k], suite)) : x = Shown(w))
                    <=> (vs[k].name \in Declared(suite) /\ x = Asked(vs[k]))
      <4>1. (\E w \in ToSet(mountOf(vs[k], suite)) : x = Shown(w))
               <=> x \in {Shown(w) : w \in ToSet(mountOf(vs[k], suite))}
        OBVIOUS
      <4>2. QED  BY <4>1, <2>3
    <3>3. QED  BY <3>1, <3>2
  <2>9. {Shown(w) : w \in ToSet(ws)}
          = {Asked(v) : v \in {v \in ToSet(vs) : v.name \in Declared(suite)}}
    BY <2>8 DEF ToSet
  <2>10. QED  BY <2>2, <2>6, <2>7, <2>9 DEF vs, ws
<1>4. QED  BY <1>2, <1>3

\* A container mounts what its stage does.
LEMMA VolumeMounts ==
    ASSUME NEW ws, ws = None \/ ws \in Seq(StageVolumeType)
    PROVE  ToSet(Entries(volumeMounts(ws))) = {Shown(w) : w \in ToSet(Entries(ws))}
<1>1. CASE ws = None
  <2>1. Entries(ws) = <<>> /\ Entries(volumeMounts(ws)) = <<>>
    BY <1>1 DEF volumeMounts, Entries
  <2>2. ToSet(<<>>) = {}
    BY DEF ToSet
  <2>3. QED  BY <2>1, <2>2
<1>2. CASE ws # None
  <2> DEFINE shown == [k \in DOMAIN ws |-> Shown(ws[k])]
  <2>1. /\ ws \in Seq(StageVolumeType) /\ Len(ws) \in Nat /\ DOMAIN ws = 1 .. Len(ws)
        /\ \A k \in DOMAIN ws : ws[k] \in StageVolumeType
    BY <1>1, <1>2
  <2>2. volumeMounts(ws) = shown
    BY <1>2 DEF volumeMounts, Shown
  <2>3. \A w \in StageVolumeType : Shown(w) \in VolumeMount
    BY DEF Shown, VolumeMount, StageVolumeType
  <2>4. shown \in Seq(VolumeMount)
    BY <2>1, <2>3
  <2>5. Entries(volumeMounts(ws)) = shown /\ Entries(ws) = ws
    BY <1>2, <2>2, <2>4, NoneIsNoList DEF Entries
  <2>6. QED  BY <2>5 DEF ToSet
<1>3. QED  BY <1>1, <1>2

\* One more claim, unless it is there.
Distinct == {c \in Seq(Word) : IsInjective(c)}

LEMMA AddClaim ==
    ASSUME NEW claims \in Distinct, NEW volume \in StageVolumeType
    PROVE  /\ addClaim(claims, volume) \in Distinct
           /\ ToSet(addClaim(claims, volume)) = ToSet(claims) \cup {volume.name}
<1> DEFINE n == volume.name
<1>1. n \in Word
  BY DEF StageVolumeType
<1>2. claims \in Seq(Word) /\ Len(claims) \in Nat /\ IsInjective(claims)
  BY DEF Distinct
<1>3. DOMAIN claims = 1 .. Len(claims)
  BY <1>2
<1> HIDE DEF n
<1>4. CASE Contains(claims, n)
  <2>1. addClaim(claims, volume) = claims
    BY <1>4 DEF addClaim, n
  <2>2. n \in ToSet(claims)
    BY <1>3, <1>4 DEF Contains, ToSet
  <2>3. QED  BY <2>1, <2>2 DEF n
<1>5. CASE ~Contains(claims, n)
  <2> DEFINE new == Append(claims, n)
             m == Len(claims)
  <2>1. addClaim(claims, volume) = new
    BY <1>5 DEF addClaim, n
  <2>2. new \in Seq(Word)
    BY <1>1, <1>2
  <2>3. DOMAIN new = 1 .. m + 1 /\ new[m + 1] = n /\ \A j \in 1 .. m : new[j] = claims[j]
    BY <1>2
  <2>4. \A j \in 1 .. m : claims[j] # n
    BY <1>5 DEF Contains
  <2>5. m \in Nat /\ 1 .. m + 1 = (1 .. m) \cup {m + 1}
    BY <1>2
  <2> HIDE DEF new
  <2>6. IsInjective(new)
    <3>1. \A j, k \in 1 .. m : claims[j] = claims[k] => j = k
      BY <1>2, <1>3 DEF IsInjective
    <3> HIDE DEF m
    <3>2. \A j, k \in 1 .. m + 1 : new[j] = new[k] => j = k
      BY <2>3, <2>4, <2>5, <3>1
    <3>3. QED  BY <2>3, <3>2 DEF IsInjective
  <2>7. ToSet(new) = ToSet(claims) \cup {n}
    BY <1>3, <2>3, <2>5 DEF ToSet
  <2>8. QED  BY <2>1, <2>2, <2>6, <2>7 DEF Distinct, n
<1>6. QED  BY <1>4, <1>5

\* The claims after each of the volumes.
LEMMA ClaimSteps ==
    ASSUME NEW n \in Nat, NEW vs \in Seq(StageVolumeType), Len(vs) = n
    PROVE  \E f : /\ f[0] = <<>>
                  /\ \A k \in 1 .. n : f[k] = addClaim(f[k - 1], vs[k])
                  /\ claimsFor(vs) = f[n]
<1> DEFINE step == [p \in (1 .. n) \X Distinct |-> addClaim(p[2], vs[p[1]])]
           Claims(c) == c = [k \in 0 .. n |-> IF k = 0 THEN <<>>
                                              ELSE addClaim(c[k - 1], vs[k])]
           F == CHOOSE c : Claims(c)
<1>1. \A k \in 1 .. n : vs[k] \in StageVolumeType
  OBVIOUS
<1>2. <<>> \in Distinct
  BY DEF Distinct, IsInjective
<1>3. ASSUME NEW k \in 1 .. n, NEW c \in Distinct  PROVE addClaim(c, vs[k]) \in Distinct
  BY <1>1, AddClaim
<1>4. claimsFor(vs) = F[n]
  BY DEF claimsFor
<1>5. step \in Body(n, Distinct)
  BY <1>3 DEF Body
<1>6. PICK f : Looped(f, n, Distinct, <<>>, step)
  <2> HIDE DEF step
  <2>1. QED  BY <1>2, <1>5, Loop
<1>7. ASSUME NEW k \in 0 .. n
      PROVE  f[k] = IF k = 0 THEN <<>> ELSE addClaim(f[k - 1], vs[k])
  <2>1. CASE k = 0
    BY <1>6, <2>1 DEF Looped
  <2>2. CASE k # 0
    <3>1. k \in 1 .. n /\ k - 1 \in 0 .. n
      BY <2>2
    <3>2. f[k - 1] \in Distinct /\ f[k] = step[<<k, f[k - 1]>>]
      BY <1>6, <3>1 DEF Looped
    <3>3. f[k] = addClaim(f[k - 1], vs[k])
      BY <3>1, <3>2
    <3>4. QED  BY <2>2, <3>3
  <2>3. QED  BY <2>1, <2>2
<1>8. Claims(f)
  <2>1. f = [k \in 0 .. n |-> f[k]]
    BY <1>6 DEF Looped
  <2>2. QED  BY <1>7, <2>1
<1>9. Claims(F)
  BY <1>8
<1>10. ASSUME NEW c, Claims(c)
       PROVE  c[0] = <<>> /\ \A k \in 1 .. n : c[k] = addClaim(c[k - 1], vs[k])
  <2>1. \A k \in 0 .. n : c[k] = IF k = 0 THEN <<>> ELSE addClaim(c[k - 1], vs[k])
    BY <1>10, Zenon
  <2>2. 0 \in 0 .. n /\ \A k \in 1 .. n : k \in 0 .. n /\ k # 0
    OBVIOUS
  <2> HIDE DEF Claims
  <2>3. QED  BY <2>1, <2>2
<1> HIDE DEF F, Claims
<1>11. F[0] = <<>> /\ \A k \in 1 .. n : F[k] = addClaim(F[k - 1], vs[k])
  BY <1>9, <1>10
<1>12. QED  BY <1>4, <1>11

\* One claim for each name.
LEMMA ClaimsFor ==
    ASSUME NEW vs \in Seq(StageVolumeType)
    PROVE  /\ claimsFor(vs) \in Distinct
           /\ ToSet(claimsFor(vs)) = {w.name : w \in ToSet(vs)}
<1> DEFINE n == Len(vs)
           Upto(k) == {vs[l].name : l \in 1 .. k}
<1>1. n \in Nat /\ DOMAIN vs = 1 .. n /\ \A k \in 1 .. n : vs[k] \in StageVolumeType
  OBVIOUS
<1>2. PICK f : /\ f[0] = <<>>
               /\ \A k \in 1 .. n : f[k] = addClaim(f[k - 1], vs[k])
               /\ claimsFor(vs) = f[n]
  BY <1>1, ClaimSteps
<1> DEFINE T == {k \in 0 .. n : f[k] \in Distinct /\ ToSet(f[k]) = Upto(k)}
<1> HIDE DEF n
<1>3. 0 \in T
  <2>1. <<>> \in Distinct /\ ToSet(<<>>) = {}
    BY DEF Distinct, IsInjective, ToSet
  <2>2. Upto(0) = {}
    OBVIOUS
  <2>3. QED  BY <1>1, <1>2, <2>1, <2>2
<1>4. ASSUME NEW k \in 1 .. n, k - 1 \in T  PROVE k \in T
  <2>1. /\ f[k] \in Distinct
        /\ ToSet(f[k]) = ToSet(f[k - 1]) \cup {vs[k].name}
    BY <1>1, <1>2, <1>4, AddClaim
  <2>2. Upto(k) = Upto(k - 1) \cup {vs[k].name}
    <3>1. 1 .. k = (1 .. k - 1) \cup {k}
      BY <1>1
    <3>2. QED  BY <3>1
  <2>3. ToSet(f[k - 1]) = Upto(k - 1) /\ k \in 0 .. n
    BY <1>1, <1>4
  <2> HIDE DEF Upto
  <2>4. QED  BY <2>1, <2>2, <2>3
<1>5. n \in T
  <2> HIDE DEF T
  <2>1. \A k \in 0 .. n : k \in T
    BY <1>1, <1>3, <1>4, EachStep
  <2>2. QED  BY <1>1, <2>1
<1>6. Upto(n) = {w.name : w \in ToSet(vs)}
  BY <1>1 DEF ToSet
<1>7. QED  BY <1>2, <1>5, <1>6

\* A container mounts exactly those of its stage's volumes that the suite declares; each
\* volume that some container mounts has one claim; no claim is without a mount.
THEOREM MountsAlwaysHaveClaims == Spec => []MountsHaveClaims
<1>1. IInv => MountsHaveClaims
  <2> SUFFICES ASSUME IInv, workflow # None
               PROVE  MountsHaveClaims
    BY DEF MountsHaveClaims
  <2> DEFINE m == Len(run.benchmark)
             Mounts(i) == ToSet(Entries(Container(i).volumeMounts))
             claims == Entries(workflow.claims)
             Wanted(i) == {Asked(v) : v \in {v \in ToSet(Entries(run.benchmark[i].volumes)) :
                                               v.name \in Declared(run.suite)}}
             each == [i \in DOMAIN stages |-> Entries(stages[i].volumes)]
             all == FlattenSeq(each)
  <2>1. stages = createMessage(run)
    BY DEF IInv
  <2>2. /\ run \in RunType /\ m \in Nat /\ Stage = 1 .. m /\ DOMAIN stages = 1 .. m
        /\ \A i \in 1 .. m : run.benchmark[i] \in PipelineStageType
    BY <2>1, StageFacts, RunFacts DEF Stage
  <2>3. Entries(run.suite.volumes) \in Seq(SuiteVolumeType)
    <3>1. run.suite.volumes = None \/ run.suite.volumes \in Seq(SuiteVolumeType)
      BY <2>2 DEF RunType
    <3>2. QED  BY <3>1 DEF Entries
  <2> HIDE DEF m
  <2>4. ASSUME NEW i \in Stage
        PROVE  /\ Entries(stages[i].volumes) \in Seq(StageVolumeType)
               /\ Mounts(i) = {Shown(w) : w \in ToSet(Entries(stages[i].volumes))}
               /\ Mounts(i) = Wanted(i)
    <3> DEFINE ws == mountsOf(run.benchmark[i], run.suite)
    <3>1. stages[i].volumes = ws
      BY <2>1, StageFacts
    <3>2. /\ ws = None \/ ws \in Seq(StageVolumeType)
          /\ {Shown(w) : w \in ToSet(Entries(ws))} = Wanted(i)
      BY <2>2, <2>3, MountsOf
    <3> HIDE DEF ws
    <3>3. Container(i).volumeMounts = volumeMounts(ws)
      <4>1. Container(i) = stageTemplate(stages[i], key)
        BY ContainerFacts
      <4>2. QED  BY <3>1, <4>1 DEF stageTemplate
    <3>4. Entries(ws) \in Seq(StageVolumeType)
      BY <3>2 DEF Entries
    <3>5. QED  BY <3>1, <3>2, <3>3, <3>4, VolumeMounts
  <2>5. workflow.claims = IF all = <<>> THEN None ELSE claimsFor(all)
    BY ContainerFacts DEF claimTemplates
  <2>6. all \in Seq(StageVolumeType)
        /\ ToSet(all) = UNION {ToSet(Entries(stages[i].volumes)) : i \in Stage}
    <3>1. each \in Seq(Seq(StageVolumeType)) /\ DOMAIN each = Stage
      BY <2>2, <2>4
    <3>2. \A i \in Stage : each[i] = Entries(stages[i].volumes)
      BY <2>2
    <3> HIDE DEF each
    <3>3. QED  BY <3>1, <3>2, Flattened
  <2> HIDE DEF all, Mounts, Wanted
  <2>7. {w.name : w \in ToSet(all)} = UNION {{x.name : x \in Mounts(i)} : i \in Stage}
    <3>1. \A w : Shown(w).name = w.name
      BY DEF Shown
    <3>2. ASSUME NEW i \in Stage
          PROVE  {x.name : x \in Mounts(i)} = {w.name : w \in ToSet(Entries(stages[i].volumes))}
      <4> DEFINE W == ToSet(Entries(stages[i].volumes))
      <4>1. Mounts(i) = {Shown(w) : w \in W}
        BY <2>4
      <4> HIDE DEF W
      <4>2. ASSUME NEW n
            PROVE  (\E x \in Mounts(i) : n = x.name) <=> (\E w \in W : n = w.name)
        BY <3>1, <4>1
      <4>3. {x.name : x \in Mounts(i)} = {w.name : w \in W}
        BY <4>2
      <4>4. QED  BY <4>3 DEF W
    <3>3. {w.name : w \in ToSet(all)}
            = UNION {{w.name : w \in ToSet(Entries(stages[i].volumes))} : i \in Stage}
      <4> DEFINE W(i) == ToSet(Entries(stages[i].volumes))
      <4>1. ToSet(all) = UNION {W(i) : i \in Stage}
        BY <2>6
      <4> HIDE DEF W
      <4>2. ASSUME NEW n
            PROVE  (\E w \in ToSet(all) : n = w.name)
                     <=> (\E i \in Stage : \E w \in W(i) : n = w.name)
        BY <4>1
      <4>3. {w.name : w \in ToSet(all)} = UNION {{w.name : w \in W(i)} : i \in Stage}
        BY <4>2
      <4>4. QED  BY <4>3 DEF W
    <3>4. QED  BY <3>2, <3>3
  <2>8. /\ IsInjective(claims)
        /\ ToSet(claims) = {w.name : w \in ToSet(all)}
        /\ workflow.claims # <<>>
    <3>1. CASE all = <<>>
      <4>1. claims = <<>> /\ workflow.claims = None
        BY <2>5, <3>1 DEF Entries
      <4>2. None # <<>>
        <5>1. <<>> \in Seq(Word)
          OBVIOUS
        <5>2. QED  BY <5>1, NoneIsNoList
      <4>3. ToSet(<<>>) = {} /\ IsInjective(<<>>)
        BY DEF ToSet, IsInjective
      <4>4. QED  BY <3>1, <4>1, <4>2, <4>3
    <3>2. CASE all # <<>>
      <4>1. /\ workflow.claims = claimsFor(all) /\ claimsFor(all) \in Distinct
            /\ ToSet(claimsFor(all)) = {w.name : w \in ToSet(all)}
        BY <2>5, <2>6, <3>2, ClaimsFor
      <4>2. claimsFor(all) \in Seq(Word) /\ IsInjective(claimsFor(all))
        BY <4>1 DEF Distinct
      <4>3. claims = claimsFor(all)
        BY <4>1, <4>2, NoneIsNoList DEF Entries
      <4>4. claimsFor(all) # <<>>
        <5>1. all[1] \in ToSet(all)
          BY <2>6, <3>2 DEF ToSet
        <5>2. ToSet(claimsFor(all)) # {}
          BY <4>1, <5>1
        <5>3. QED  BY <5>2 DEF ToSet
      <4>5. QED  BY <4>1, <4>2, <4>3, <4>4
    <3>3. QED  BY <3>1, <3>2
  <2> HIDE DEF claims
  <2>9. \A i \in Stage : Mounts(i) = Wanted(i)
    BY <2>4
  <2>10. QED  BY <2>7, <2>8, <2>9 DEF MountsHaveClaims, Mounts, Wanted, Asked, Declared, claims
<1>2. QED  BY <1>1, PipelineInductive, PTL
=============================================================================
