--------------------------- MODULE ContractsProofs ---------------------------
(***************************************************************************)
(* Proofs for Contracts: what a verdict of compare is worth to a reader,   *)
(* for any fields and any number of released versions.                     *)
(***************************************************************************)
EXTENDS Contracts, TLAPS

-----------------------------------------------------------------------------
(* Two versions *)

LEMMA SchemaType ==
    ASSUME NEW s \in Schemas
    PROVE  /\ s.props \in [DOMAIN s.props -> Declarations]
           /\ s.required \subseteq DOMAIN s.props
BY DEF Schemas

LEMMA DeclarationType ==
    ASSUME NEW d \in Declarations
    PROVE  d.type \in Types /\ d.bound \in Bounds
BY ContractsAssumption

\* What breaks forward is what breaks backward when the versions change places.
LEMMA Mirror ==
    ASSUME NEW old, NEW new
    PROVE  /\ BreaksForward(old, new) = BreaksBackward(new, old)
           /\ Retyped(old, new) = Retyped(new, old)
BY DEF BreaksForward, BreaksBackward, Added, Removed, Common, Retyped

LEMMA Verdict ==
    ASSUME NEW old, NEW new
    PROVE  /\ Compatibility(old, new) \in {"full", "backward"} <=> BreaksBackward(old, new) = {}
           /\ Compatibility(old, new) \in {"full", "forward"} <=> BreaksForward(old, new) = {}
BY DEF Compatibility

\* Nothing that breaks backward and nothing overlooked: the new version reads what the
\* old one wrote.
LEMMA NothingBreaks ==
    ASSUME NEW old \in Schemas, NEW new \in Schemas,
           Overlooked(new, old) = {}, BreaksBackward(old, new) = {}
    PROVE  CanRead(new, old)
<1>1. SUFFICES ASSUME NEW doc \in Written(old)
               PROVE  Accepts(new, doc)
  BY DEF CanRead
<1>2. PICK D \in SUBSET DOMAIN old.props : doc \in [D -> Values]
  BY DEF Written
<1>3. Accepts(old, doc) /\ DOMAIN doc \subseteq DOMAIN old.props
  BY <1>2 DEF Written
<1>4. \A f \in Common(old, new) : old.props[f].type = new.props[f].type
  BY DEF BreaksBackward, Retyped
<1>5. ASSUME NEW f \in new.required
      PROVE  f \in DOMAIN doc
  <2>1. f \in DOMAIN new.props
    BY SchemaType
  <2>2. f \in DOMAIN old.props
    BY <2>1 DEF BreaksBackward, Added
  <2>3. f \in old.required
    BY <1>4, <2>1, <2>2 DEF Overlooked, Common
  <2> QED
    BY <1>3, <2>3 DEF Accepts
<1>6. ASSUME NEW f \in DOMAIN doc \cap DOMAIN new.props
      PROVE  Conforms(doc[f], new.props[f])
  <2>1. f \in DOMAIN old.props /\ f \in Common(new, old) /\ f \in Common(old, new)
    BY <1>3 DEF Common
  <2>2. Conforms(doc[f], old.props[f]) /\ doc[f] \in Values
    BY <1>2, <1>3, <2>1 DEF Accepts
  <2> QED
    BY <1>4, <2>1, <2>2 DEF Overlooked
<1> QED
  BY <1>5, <1>6 DEF Accepts

-----------------------------------------------------------------------------
(* What a producer may send *)

\* Some value conforms to a declaration, whatever it is.
Sample(declaration) == IF declaration.type = "string" THEN "text" ELSE "positive"

LEMMA SampleConforms ==
    ASSUME NEW d \in Declarations
    PROVE  Sample(d) \in Values /\ Conforms(Sample(d), d)
BY DeclarationType DEF Sample, Values, Conforms, HasType, Within, Types, Bounds

\* A document of any fields among them the required ones, each with a value that conforms,
\* is one that a producer on that version may send.
LEMMA MayBeWritten ==
    ASSUME NEW s \in Schemas, NEW doc, NEW D \in SUBSET DOMAIN s.props,
           doc \in [D -> Values], s.required \subseteq D,
           \A f \in D : Conforms(doc[f], s.props[f])
    PROVE  doc \in Written(s)
BY DEF Written, Accepts

\* No change of type, and the new version reads what the old one wrote: nothing breaks,
\* and nothing was overlooked.
LEMMA ReadableBreaksNothing ==
    ASSUME NEW old \in Schemas, NEW new \in Schemas, Retyped(old, new) = {}, CanRead(new, old)
    PROVE  BreaksBackward(old, new) = {} /\ Overlooked(new, old) = {}
<1> DEFINE D == DOMAIN old.props
<1>1. old.props \in [D -> Declarations] /\ old.required \subseteq D
  BY SchemaType
<1>2. new.required \subseteq old.required
  <2>1. PICK doc : doc = [f \in old.required |-> Sample(old.props[f])]
    OBVIOUS
  <2>2. DOMAIN doc = old.required /\ doc \in [old.required -> Values]
    BY <1>1, <2>1, SampleConforms
  <2>3. \A f \in old.required : Conforms(doc[f], old.props[f])
    BY <1>1, <2>1, SampleConforms
  <2>4. doc \in Written(old)
    BY <1>1, <2>2, <2>3, MayBeWritten
  <2> QED
    BY <2>2, <2>4 DEF CanRead, Accepts
<1>3. BreaksBackward(old, new) = {}
  BY <1>1, <1>2 DEF BreaksBackward, Added
<1>4. ASSUME NEW f \in Common(new, old), NEW v \in Values,
             Conforms(v, old.props[f]), ~Conforms(v, new.props[f])
      PROVE  FALSE
  <2>1. f \in D /\ f \in DOMAIN new.props
    BY DEF Common
  <2>2. PICK doc : doc = [g \in D |-> IF g = f THEN v ELSE Sample(old.props[g])]
    OBVIOUS
  <2>3. DOMAIN doc = D /\ doc \in [D -> Values] /\ doc[f] = v
    BY <1>1, <2>1, <2>2, SampleConforms
  <2>4. \A g \in D : Conforms(doc[g], old.props[g])
    BY <1>1, <1>4, <2>2, SampleConforms
  <2>5. doc \in Written(old)
    BY <1>1, <2>3, <2>4, MayBeWritten
  <2>6. Conforms(doc[f], new.props[f])
    BY <2>1, <2>3, <2>5 DEF CanRead, Accepts
  <2> QED
    BY <1>4, <2>3, <2>6
<1>5. Overlooked(new, old) = {}
  BY <1>2, <1>4 DEF Overlooked
<1> QED
  BY <1>3, <1>5

-----------------------------------------------------------------------------
(* A line of versions *)

LEMMA FullStepMeans ==
    ASSUME NEW old, NEW new
    PROVE  FullStep(old, new) <=> /\ BreaksBackward(old, new) = {} /\ BreaksForward(old, new) = {}
                                  /\ Overlooked(new, old) = {} /\ Overlooked(old, new) = {}
BY DEF FullStep, Compatibility

LEMMA FullStepReads ==
    ASSUME NEW old \in Schemas, NEW new \in Schemas, FullStep(old, new)
    PROVE  CanRead(new, old) /\ CanRead(old, new)
BY FullStepMeans, Mirror, NothingBreaks

\* The field a and c share has one type in all three, and what c asks of it a asks too.
LEMMA NothingOverlookedJoins ==
    ASSUME NEW a \in Schemas, NEW b \in Schemas, NEW c \in Schemas,
           Retyped(a, b) = {}, Retyped(b, c) = {},
           Overlooked(b, a) = {}, Overlooked(c, b) = {},
           DOMAIN a.props \cap DOMAIN c.props \subseteq DOMAIN b.props
    PROVE  Overlooked(c, a) = {}
<1>1. SUFFICES ASSUME NEW f \in Common(c, a)
               PROVE  /\ f \in c.required => f \in a.required
                      /\ \A v \in Values : Conforms(v, a.props[f]) => Conforms(v, c.props[f])
  BY DEF Overlooked
<1>2. f \in Common(a, b) /\ f \in Common(b, c) /\ f \in Common(b, a) /\ f \in Common(c, b)
  BY DEF Common
<1>3. a.props[f].type = b.props[f].type /\ b.props[f].type = c.props[f].type
  BY <1>2 DEF Retyped
<1>4. (f \in b.required => f \in a.required) /\ (f \in c.required => f \in b.required)
  BY <1>2, <1>3 DEF Overlooked
<1>5. /\ \A v \in Values : Conforms(v, a.props[f]) => Conforms(v, b.props[f])
      /\ \A v \in Values : Conforms(v, b.props[f]) => Conforms(v, c.props[f])
  BY <1>2, <1>3 DEF Overlooked
<1> QED
  BY <1>4, <1>5

\* Two full steps make one, if no field of the first version was dropped and came back.
LEMMA FullStepsJoin ==
    ASSUME NEW a \in Schemas, NEW b \in Schemas, NEW c \in Schemas,
           FullStep(a, b), FullStep(b, c),
           DOMAIN a.props \cap DOMAIN c.props \subseteq DOMAIN b.props
    PROVE  FullStep(a, c)
<1>1. /\ BreaksBackward(a, b) = {} /\ BreaksForward(a, b) = {}
      /\ BreaksBackward(b, c) = {} /\ BreaksForward(b, c) = {}
      /\ Overlooked(b, a) = {} /\ Overlooked(a, b) = {}
      /\ Overlooked(c, b) = {} /\ Overlooked(b, c) = {}
  BY FullStepMeans
<1>2. /\ Retyped(a, b) = {} /\ Retyped(b, c) = {} /\ Retyped(b, a) = {} /\ Retyped(c, b) = {}
  BY <1>1, Mirror DEF BreaksBackward
<1>3. Overlooked(c, a) = {} /\ Overlooked(a, c) = {}
  <2>1. DOMAIN c.props \cap DOMAIN a.props \subseteq DOMAIN b.props
    OBVIOUS
  <2> QED
    BY <1>1, <1>2, <2>1, NothingOverlookedJoins
<1>4. Retyped(a, c) = {}
  BY <1>2 DEF Retyped, Common
<1>5. ASSUME NEW f \in c.required
      PROVE  f \in DOMAIN a.props
  <2>1. f \in DOMAIN c.props
    BY SchemaType
  <2>2. f \in DOMAIN b.props
    BY <1>1, <2>1 DEF BreaksBackward, Added
  <2>3. f \in b.required
    BY <1>1, <1>2, <2>1, <2>2 DEF Overlooked, Retyped, Common
  <2> QED
    BY <1>1, <2>2, <2>3 DEF BreaksBackward, Added
<1>6. ASSUME NEW f \in a.required
      PROVE  f \in DOMAIN c.props
  <2>1. f \in DOMAIN a.props
    BY SchemaType
  <2>2. f \in DOMAIN b.props
    BY <1>1, <2>1 DEF BreaksForward, Removed
  <2>3. f \in b.required
    BY <1>1, <1>2, <2>1, <2>2 DEF Overlooked, Retyped, Common
  <2> QED
    BY <1>1, <2>2, <2>3 DEF BreaksForward, Removed
<1>7. BreaksBackward(a, c) = {} /\ BreaksForward(a, c) = {}
  BY <1>4, <1>5, <1>6 DEF BreaksBackward, BreaksForward, Added, Removed
<1> QED
  BY <1>3, <1>7, FullStepMeans

\* The hypothesis of FullStepsCompose, of a line s of versions.
AllFull(s) == \A i \in 1 .. Len(s) - 1 : FullStep(s[i], s[i + 1])
NoneReturns(s) ==
    \A i \in 1 .. Len(s) - 1 : \A f \in Removed(s[i], s[i + 1]) :
       \A j \in i + 1 .. Len(s) : f \notin DOMAIN s[j].props

\* A field of the first version that the last one has not was dropped on the way.
Dropped(s) ==
    \A f \in Removed(s[1], s[Len(s)]) : \E i \in 1 .. Len(s) - 1 : f \in Removed(s[i], s[i + 1])

\* Inductive: a version more is a step more.
LineInv ==
    /\ versions \in Seq(Schemas)
    /\ versions # <<>> => /\ Dropped(versions)
                          /\ AllFull(versions) /\ NoneReturns(versions)
                               => FullStep(versions[1], versions[Len(versions)])

LEMMA LineGrows ==
    ASSUME NEW s \in Seq(Schemas), s # <<>>, Dropped(s),
           AllFull(s) /\ NoneReturns(s) => FullStep(s[1], s[Len(s)]),
           NEW c \in Schemas, NEW t, t = Append(s, c)
    PROVE  /\ Dropped(t)
           /\ AllFull(t) /\ NoneReturns(t) => FullStep(t[1], t[Len(t)])
<1>1. PICK n \in Nat : n = Len(s)
  OBVIOUS
<1>2. /\ n # 0 /\ Len(t) = n + 1 /\ Len(t) - 1 = n /\ t[n + 1] = c
      /\ \A i \in 1 .. n : t[i] = s[i] /\ s[i] \in Schemas
      /\ 1 \in 1 .. n /\ n \in 1 .. n
  BY <1>1
<1>3. \A i \in 1 .. n - 1 : i \in 1 .. n /\ i + 1 \in 1 .. n
  BY <1>1
<1>4. Dropped(t)
  <2>1. SUFFICES ASSUME NEW f \in Removed(t[1], t[n + 1])
                 PROVE  \E i \in 1 .. n : f \in Removed(t[i], t[i + 1])
    BY <1>2 DEF Dropped
  <2>2. CASE f \in DOMAIN s[n].props
    <3>1. f \in Removed(t[n], t[n + 1])
      BY <1>2, <2>1, <2>2 DEF Removed
    <3> QED
      BY <1>2, <3>1
  <2>3. CASE f \notin DOMAIN s[n].props
    <3>1. f \in Removed(s[1], s[n])
      BY <1>2, <2>1, <2>3 DEF Removed
    <3>2. PICK i \in 1 .. n - 1 : f \in Removed(s[i], s[i + 1])
      BY <1>1, <3>1 DEF Dropped
    <3>3. i \in 1 .. n /\ t[i] = s[i] /\ t[i + 1] = s[i + 1]
      BY <1>2, <1>3
    <3> QED
      BY <3>2, <3>3
  <2> QED
    BY <2>2, <2>3
<1>5. ASSUME AllFull(t), NoneReturns(t)
      PROVE  FullStep(t[1], t[n + 1])
  <2>1. AllFull(s)
    <3>1. SUFFICES ASSUME NEW i \in 1 .. n - 1
                   PROVE  FullStep(s[i], s[i + 1])
      BY <1>1 DEF AllFull
    <3>2. FullStep(t[i], t[i + 1])
      BY <1>2, <1>3, <1>5 DEF AllFull
    <3> QED
      BY <1>2, <1>3, <3>2
  <2>2. NoneReturns(s)
    <3>1. SUFFICES ASSUME NEW i \in 1 .. n - 1, NEW f \in Removed(s[i], s[i + 1]),
                          NEW j \in i + 1 .. n
                   PROVE  f \notin DOMAIN s[j].props
      BY <1>1 DEF NoneReturns
    <3>2. j \in 1 .. n /\ j \in i + 1 .. n + 1 /\ i \in 1 .. n
      BY <1>1
    <3>3. t[i] = s[i] /\ t[i + 1] = s[i + 1] /\ t[j] = s[j]
      BY <1>2, <1>3, <3>2
    <3>4. f \notin DOMAIN t[j].props
      BY <1>2, <1>5, <3>2, <3>3 DEF NoneReturns
    <3> QED
      BY <3>3, <3>4
  <2>3. FullStep(s[1], s[n]) /\ FullStep(s[n], c)
    BY <1>1, <1>2, <1>5, <2>1, <2>2 DEF AllFull
  <2>4. ASSUME NEW f \in DOMAIN s[1].props \cap DOMAIN c.props, f \notin DOMAIN s[n].props
        PROVE  FALSE
    <3>1. f \in Removed(s[1], s[n])
      BY <2>4 DEF Removed
    <3>2. PICK i \in 1 .. n - 1 : f \in Removed(s[i], s[i + 1])
      BY <1>1, <3>1 DEF Dropped
    <3>3. f \in Removed(t[i], t[i + 1])
      BY <1>2, <1>3, <3>2
    <3>4. i \in 1 .. n /\ n + 1 \in i + 1 .. n + 1
      BY <1>1
    <3> QED
      BY <1>2, <1>5, <2>4, <3>3, <3>4, SMTT(30) DEF NoneReturns
  <2>5. FullStep(s[1], c)
    BY <1>2, <2>3, <2>4, FullStepsJoin
  <2> QED
    BY <1>2, <2>5
<1> QED
  BY <1>2, <1>4, <1>5

LEMMA LineAlways == Spec => []LineInv
<1>1. Init => LineInv
  BY DEF Init, LineInv
<1>2. ASSUME LineInv, Release PROVE LineInv'
  <2>1. PICK c \in Schemas : versions' = Append(versions, c)
    BY <1>2 DEF Release
  <2>2. PICK s, t : s = versions /\ t = versions'
    OBVIOUS
  <2>3. s \in Seq(Schemas) /\ t = Append(s, c) /\ t \in Seq(Schemas) /\ t # <<>>
    BY <1>2, <2>1, <2>2 DEF LineInv
  <2>4. CASE s = <<>>
    <3>1. Len(t) = 1 /\ t[1] = c
      BY <2>3, <2>4
    <3>2. Dropped(t)
      BY <3>1 DEF Dropped, Removed
    <3>3. FullStep(c, c)
      BY FullStepMeans DEF BreaksBackward, BreaksForward, Added, Removed, Retyped, Overlooked
    <3> QED
      BY <2>2, <2>3, <3>1, <3>2, <3>3 DEF LineInv
  <2>5. CASE s # <<>>
    <3>1. Dropped(s) /\ (AllFull(s) /\ NoneReturns(s) => FullStep(s[1], s[Len(s)]))
      BY <1>2, <2>2, <2>5 DEF LineInv
    <3>2. Dropped(t) /\ (AllFull(t) /\ NoneReturns(t) => FullStep(t[1], t[Len(t)]))
      BY <2>3, <2>5, <3>1, LineGrows
    <3> QED
      BY <2>2, <2>3, <3>2 DEF LineInv
  <2> QED
    BY <2>4, <2>5
<1>3. LineInv /\ UNCHANGED versions => LineInv'
  BY DEF LineInv
<1> QED
  BY <1>1, <1>2, <1>3, PTL DEF Spec, Next

-----------------------------------------------------------------------------
(* What the verdicts are worth *)

\* For any fields, declarations and versions: after backward or full a consumer on the new
\* version accepts all data of the old one, after forward or full one on the old version
\* accepts the new (registry.py:45-50), unless a bound or a required list of a field of
\* both versions asks more of the data than it did, which compare does not look at.
THEOREM VerdictsAreSound == Spec => []VerdictIsSound
<1>1. ASSUME LineInv PROVE VerdictIsSound
  <2>1. SUFFICES ASSUME NEW i \in DOMAIN versions, NEW j \in DOMAIN versions
                 PROVE  /\ (/\ Compatibility(versions[i], versions[j]) \in {"full", "backward"}
                            /\ Overlooked(versions[j], versions[i]) = {})
                             => CanRead(versions[j], versions[i])
                        /\ (/\ Compatibility(versions[i], versions[j]) \in {"full", "forward"}
                            /\ Overlooked(versions[i], versions[j]) = {})
                             => CanRead(versions[i], versions[j])
    BY DEF VerdictIsSound
  <2>2. PICK old \in Schemas, new \in Schemas : old = versions[i] /\ new = versions[j]
    BY <1>1 DEF LineInv
  <2>3. BreaksForward(old, new) = BreaksBackward(new, old)
    BY Mirror
  <2>4. Compatibility(old, new) \in {"full", "backward"} /\ Overlooked(new, old) = {}
          => CanRead(new, old)
    BY Verdict, NothingBreaks
  <2>5. Compatibility(old, new) \in {"full", "forward"} /\ Overlooked(old, new) = {}
          => CanRead(old, new)
    BY <2>3, Verdict, NothingBreaks
  <2> QED
    BY <2>2, <2>4, <2>5
<1> QED
  BY <1>1, LineAlways, PTL

\* Without a change of type a verdict names no break that no document shows, and whatever it
\* overlooks is a break: VerdictsAreSound needs its exception whole.
THEOREM VerdictsAreExact == Spec => []VerdictIsExact
<1>1. ASSUME LineInv PROVE VerdictIsExact
  <2>1. SUFFICES ASSUME NEW i \in DOMAIN versions, NEW j \in DOMAIN versions,
                        Retyped(versions[i], versions[j]) = {}
                 PROVE  /\ CanRead(versions[j], versions[i])
                             => /\ Compatibility(versions[i], versions[j]) \in {"full", "backward"}
                                /\ Overlooked(versions[j], versions[i]) = {}
                        /\ CanRead(versions[i], versions[j])
                             => /\ Compatibility(versions[i], versions[j]) \in {"full", "forward"}
                                /\ Overlooked(versions[i], versions[j]) = {}
    BY DEF VerdictIsExact
  <2>2. PICK old \in Schemas, new \in Schemas : old = versions[i] /\ new = versions[j]
    BY <1>1 DEF LineInv
  <2>3. /\ Retyped(old, new) = {} /\ Retyped(new, old) = {}
        /\ BreaksForward(old, new) = BreaksBackward(new, old)
    BY <2>1, <2>2, Mirror
  <2>4. CanRead(new, old) => /\ Compatibility(old, new) \in {"full", "backward"}
                             /\ Overlooked(new, old) = {}
    BY <2>3, Verdict, ReadableBreaksNothing
  <2>5. CanRead(old, new) => /\ Compatibility(old, new) \in {"full", "forward"}
                             /\ Overlooked(old, new) = {}
    BY <2>3, Verdict, ReadableBreaksNothing
  <2> QED
    BY <2>2, <2>4, <2>5
<1> QED
  BY <1>1, LineAlways, PTL

\* The report compares neighbours only, and that is enough: however many versions there
\* are, full steps that overlook no tightened bound or required list, and in which no
\* dropped name comes back, leave the first and the last version able to read each
\* other's data (registry.py:215).
THEOREM NeighboursAreEnough == Spec => []FullStepsCompose
<1>1. ASSUME LineInv PROVE FullStepsCompose
  <2>1. PICK s \in Seq(Schemas) : s = versions
    BY <1>1 DEF LineInv
  <2>2. SUFFICES ASSUME Len(s) > 1, AllFull(s), NoneReturns(s)
                 PROVE  CanRead(s[Len(s)], s[1]) /\ CanRead(s[1], s[Len(s)])
    BY <2>1 DEF FullStepsCompose, AllFull, NoneReturns
  <2>3. s # <<>> /\ s[1] \in Schemas /\ s[Len(s)] \in Schemas
    BY <2>2
  <2>4. FullStep(s[1], s[Len(s)])
    BY <1>1, <2>1, <2>2, <2>3 DEF LineInv
  <2> QED
    BY <2>3, <2>4, FullStepReads
<1> QED
  BY <1>1, LineAlways, PTL

=============================================================================
