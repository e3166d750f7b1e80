------------------------ MODULE TransportObjectProofs ------------------------
(***************************************************************************)
(* Theorems about the memory of transport objects, for any finite number   *)
(* of objects and any strings.                                             *)
(***************************************************************************)
EXTENDS TransportObject, TLAPS, FiniteSetTheorems

-----------------------------------------------------------------------------
\* Counting references.

One(P) == IF P THEN 1 ELSE 0

\* The references to s among the fields F of one object, field by field.
Here(fields, F, s) ==
  One("serviceName" \in F /\ fields["serviceName"] = s)
  + One("wBuf" \in F /\ fields["wBuf"] = s) + One("rBuf" \in F /\ fields["rBuf"] = s)

\* The fields of the objects in objs that refer to s and own their reference.
Refs(objs, fld, own, s) ==
  {of \in objs \X Field : of[2] \in own[of[1]] /\ fld[of[1]][of[2]] = s}

LEMMA WithoutOne ==
  ASSUME NEW S, NEW x, IsFiniteSet(S)
  PROVE  /\ IsFiniteSet(S \ {x})
         /\ Cardinality(S) = Cardinality(S \ {x}) + One(x \in S)
         /\ Cardinality(S) \in Nat
<1>1. Cardinality(S) \in Nat /\ Cardinality(S \ {x}) \in Nat
  BY FS_RemoveElement, FS_CardinalityType
<1> QED
  BY <1>1, FS_RemoveElement DEF One

LEMMA UsesHere ==
  ASSUME NEW fields, NEW F \in SUBSET Field, NEW s
  PROVE  Uses(fields, F, s) = Here(fields, F, s)
<1> DEFINE S == {f \in F : fields[f] = s}
           T == S \ {"serviceName"}
           U == T \ {"wBuf"}
           V == U \ {"rBuf"}
<1>1. IsFiniteSet({"serviceName"}) /\ IsFiniteSet({"serviceName"} \cup {"wBuf"})
  BY FS_Singleton, FS_AddElement
<1>2. IsFiniteSet(({"serviceName"} \cup {"wBuf"}) \cup {"rBuf"})
  BY <1>1, FS_AddElement
<1>3. S \in SUBSET (({"serviceName"} \cup {"wBuf"}) \cup {"rBuf"})
  BY DEF Field
<1>4. IsFiniteSet(S)
  BY <1>2, <1>3, FS_Subset
<1>5. Cardinality(S) = Cardinality(T) + One("serviceName" \in S) /\ IsFiniteSet(T)
  BY <1>4, WithoutOne
<1>6. Cardinality(T) = Cardinality(U) + One("wBuf" \in T) /\ IsFiniteSet(U)
  BY <1>5, WithoutOne
<1>7. Cardinality(U) = Cardinality(V) + One("rBuf" \in U)
  BY <1>6, WithoutOne
<1>8. V = {}
  BY <1>3
<1>9. Cardinality(V) = 0
  BY <1>8, FS_EmptySet
<1>10. /\ ("serviceName" \in S) = ("serviceName" \in F /\ fields["serviceName"] = s)
       /\ ("wBuf" \in T) = ("wBuf" \in F /\ fields["wBuf"] = s)
       /\ ("rBuf" \in U) = ("rBuf" \in F /\ fields["rBuf"] = s)
  OBVIOUS
<1> HIDE DEF S, T, U, V
<1>11. Cardinality(S) = Here(fields, F, s)
  BY <1>5, <1>6, <1>7, <1>9, <1>10 DEF Here, One
<1> QED
  BY <1>11 DEF Uses, S

LEMMA FiniteRefs ==
  ASSUME NEW objs \in SUBSET Obj, NEW fld, NEW own, NEW s
  PROVE  IsFiniteSet(Refs(objs, fld, own, s)) /\ Cardinality(Refs(objs, fld, own, s)) \in Nat
<1>1. IsFiniteSet(objs)
  BY AddressAssumption, FS_Subset
<1>2. IsFiniteSet({"serviceName"} \cup {"wBuf"})
  BY FS_Singleton, FS_AddElement
<1>3. Field = ({"serviceName"} \cup {"wBuf"}) \cup {"rBuf"}
  BY DEF Field
<1>4. IsFiniteSet(objs \X Field)
  BY <1>1, <1>2, <1>3, FS_AddElement, FS_Product
<1>5. Refs(objs, fld, own, s) \in SUBSET (objs \X Field)
  BY DEF Refs
<1> QED
  BY <1>4, <1>5, FS_Subset, FS_CardinalityType

\* The references of all objects are those of one and those of the others.
LEMMA SplitRefs ==
  ASSUME NEW fld, NEW own, NEW o \in Obj, NEW s
  PROVE  Cardinality(Refs(Obj, fld, own, s)) =
           Cardinality(Refs(Obj \ {o}, fld, own, s)) + Here(fld[o], own[o], s)
<1> DEFINE S == Refs(Obj, fld, own, s)
           T == S \ {<<o, "serviceName">>}
           U == T \ {<<o, "wBuf">>}
           V == U \ {<<o, "rBuf">>}
<1>1. IsFiniteSet(S)
  BY FiniteRefs
<1>2. Cardinality(S) = Cardinality(T) + One(<<o, "serviceName">> \in S) /\ IsFiniteSet(T)
  BY <1>1, WithoutOne
<1>3. Cardinality(T) = Cardinality(U) + One(<<o, "wBuf">> \in T) /\ IsFiniteSet(U)
  BY <1>2, WithoutOne
<1>4. Cardinality(U) = Cardinality(V) + One(<<o, "rBuf">> \in U)
  BY <1>3, WithoutOne
<1>5. V = Refs(Obj \ {o}, fld, own, s)
  BY DEF Refs, Field
<1>6. /\ (<<o, "serviceName">> \in S) = ("serviceName" \in own[o] /\ fld[o]["serviceName"] = s)
      /\ (<<o, "wBuf">> \in T) = ("wBuf" \in own[o] /\ fld[o]["wBuf"] = s)
      /\ (<<o, "rBuf">> \in U) = ("rBuf" \in own[o] /\ fld[o]["rBuf"] = s)
  BY DEF Refs, Field
<1>7. Cardinality(V) \in Nat
  BY <1>5, FiniteRefs
<1> HIDE DEF S, T, U, V
<1>8. Cardinality(S) = Cardinality(V) + Here(fld[o], own[o], s)
  BY <1>2, <1>3, <1>4, <1>6, <1>7 DEF Here, One
<1> QED
  BY <1>5, <1>8 DEF S

\* The references the property counts, now and after a step.
LEMMA SplitUses ==
  ASSUME NEW o \in Obj, NEW s
  PROVE  /\ Cardinality(Refs(Obj \ {o}, field, owned, s)) \in Nat
         /\ Here(field[o], owned[o], s) \in Nat
         /\ OwnedUses(s) =
              Cardinality(Refs(Obj \ {o}, field, owned, s)) + Here(field[o], owned[o], s)
         /\ Cardinality(Refs(Obj \ {o}, field', owned', s)) \in Nat
         /\ Here(field'[o], owned'[o], s) \in Nat
         /\ OwnedUses(s)' =
              Cardinality(Refs(Obj \ {o}, field', owned', s)) + Here(field'[o], owned'[o], s)
<1>1. /\ OwnedUses(s) = Cardinality(Refs(Obj, field, owned, s))
      /\ OwnedUses(s)' = Cardinality(Refs(Obj, field', owned', s))
  BY DEF OwnedUses, Refs
<1>2. /\ Cardinality(Refs(Obj \ {o}, field, owned, s)) \in Nat
      /\ Cardinality(Refs(Obj \ {o}, field', owned', s)) \in Nat
  BY FiniteRefs
<1>3. Here(field[o], owned[o], s) \in Nat /\ Here(field'[o], owned'[o], s) \in Nat
  BY DEF Here, One
<1> QED
  BY <1>1, <1>2, <1>3, SplitRefs

LEMMA HereCounts ==
  ASSUME NEW o \in Obj, NEW s
  PROVE  /\ OwnedUses(s) \in Nat /\ Here(field[o], owned[o], s) <= OwnedUses(s)
         /\ OwnedUses(s)' \in Nat /\ Here(field'[o], owned'[o], s) <= OwnedUses(s)'
         /\ Here(field[o], owned[o], s) \in Nat /\ Here(field'[o], owned'[o], s) \in Nat
<1> DEFINE m == Cardinality(Refs(Obj \ {o}, field, owned, s))
           n == Cardinality(Refs(Obj \ {o}, field', owned', s))
           h == Here(field[o], owned[o], s)
           k == Here(field'[o], owned'[o], s)
<1>1. /\ m \in Nat /\ h \in Nat /\ OwnedUses(s) = m + h
      /\ n \in Nat /\ k \in Nat /\ OwnedUses(s)' = n + k
  BY SplitUses
<1> HIDE DEF m, n, h, k
<1>2. /\ OwnedUses(s) \in Nat /\ h <= OwnedUses(s)
      /\ OwnedUses(s)' \in Nat /\ k <= OwnedUses(s)'
  BY <1>1
<1> QED
  BY <1>1, <1>2 DEF h, k

\* How the references change when one object does.
LEMMA OneChanges ==
  ASSUME NEW o \in Obj, NEW s,
         \A p \in Obj \ {o} : field'[p] = field[p] /\ owned'[p] = owned[p]
  PROVE  /\ OwnedUses(s) \in Nat /\ OwnedUses(s)' \in Nat
         /\ Here(field[o], owned[o], s) <= OwnedUses(s)
         /\ OwnedUses(s)' =
              OwnedUses(s) - Here(field[o], owned[o], s) + Here(field'[o], owned'[o], s)
<1>1. Refs(Obj \ {o}, field', owned', s) = Refs(Obj \ {o}, field, owned, s)
  BY DEF Refs
<1> QED
  BY <1>1, SplitUses

-----------------------------------------------------------------------------
\* The inductive invariant.

Buffer == {"wBuf", "rBuf"}

\* What a field refers to has been allocated.
Allocated(o) ==
  \A f \in Field : field[o][f] \in Str => refcount[field[o][f]] > 0 \/ field[o][f] \in freed

\* The string of a buffer belongs to the object alone, which has either its only
\* reference or has given it up.
Private(o) ==
  \A f \in Buffer : field[o][f] \in Str =>
    IF f \in owned[o] THEN refcount[field[o][f]] = 1 ELSE field[o][f] \in freed

\* An object is constructed as a whole, and has its strings until its destructor.
Whole(o) ==
  /\ \/ field[o] = NoFields /\ owned[o] = {}
     \/ \A f \in Field : field[o][f] # NULL
  /\ o \notin destructed /\ field[o] # NoFields => owned[o] = Field

Kept(o) == Allocated(o) /\ Private(o) /\ Whole(o)

MemInv == TypeOK /\ CountsExact /\ (\A o \in Obj : Kept(o))

LEMMA InitMem == Init => MemInv
<1> SUFFICES ASSUME Init PROVE MemInv
  OBVIOUS
<1> USE DEF Init
<1>1. NoFields \in [Field -> {NULL}]
  BY DEF NoFields, Field
<1>2. \A f \in Field : NoFields[f] = NULL
  BY <1>1
<1>3. TypeOK
  BY <1>1 DEF TypeOK
<1>4. \A o \in Obj : Kept(o)
  BY <1>2, AddressAssumption DEF Kept, Allocated, Private, Whole, Field, Buffer
<1>5. \A s \in Str : OwnedUses(s) = 0
  <2> TAKE s \in Str
  <2>1. {of \in Obj \X Field : of[2] \in owned[of[1]] /\ field[of[1]][of[2]] = s} = {}
    OBVIOUS
  <2> QED
    BY <2>1, FS_EmptySet DEF OwnedUses
<1>6. CountsExact
  BY <1>5 DEF CountsExact
<1> QED
  BY <1>3, <1>4, <1>6 DEF MemInv

-----------------------------------------------------------------------------
\* What the strings' counts do in a step, and what follows for objects that the
\* step does not touch.

\* Only unused strings and those the script holds may gain references, and a
\* count never drops to zero unnoticed.
CountsStep ==
  /\ refcount' \in [Str -> Nat] /\ freed \subseteq freed' /\ freed' \subseteq Str
  /\ \A s \in Str : /\ refcount'[s] <= refcount[s] \/ Unused(s) \/ s \in held
                    /\ refcount[s] > 0 => refcount'[s] > 0 \/ s \in freed'

LEMMA OwnedCounts ==
  ASSUME MemInv, NEW o \in Obj, NEW f \in owned[o], NEW s \in Str, field[o][f] = s
  PROVE  /\ f \in Field /\ refcount[s] >= 1 /\ s \notin freed
         /\ s \in held => refcount[s] >= 2
<1>1. f \in Field
  BY DEF MemInv, TypeOK
<1>2. Here(field[o], owned[o], s) >= 1
  BY <1>1 DEF Here, One, Field
<1>3. OwnedUses(s) \in Nat /\ OwnedUses(s) >= 1
  BY <1>2, HereCounts
<1>4. lost[s] \in Nat /\ refcount[s] \in Nat
  BY DEF MemInv, TypeOK
<1>5. /\ refcount[s] = OwnedUses(s) + (IF s \in held THEN 1 ELSE 0) + lost[s]
      /\ s \in freed => refcount[s] = 0
  BY DEF MemInv, CountsExact
<1> QED
  BY <1>1, <1>3, <1>4, <1>5

LEMMA CountedNext ==
  ASSUME TypeOK', CountsExact', NEW o \in Obj, NEW s \in Str,
         Here(field'[o], owned'[o], s) >= 1
  PROVE  refcount'[s] >= 1
<1>1. OwnedUses(s)' \in Nat /\ OwnedUses(s)' >= 1
  BY HereCounts
<1>2. lost'[s] \in Nat
  BY DEF TypeOK
<1>3. refcount'[s] = OwnedUses(s)' + (IF s \in held' THEN 1 ELSE 0) + lost'[s]
  BY DEF CountsExact
<1> QED
  BY <1>1, <1>2, <1>3

LEMMA BufferKept ==
  ASSUME MemInv, TypeOK', CountsExact', CountsStep, NEW o \in Obj, NEW f \in Buffer,
         NEW s \in Str, field[o][f] = s, field'[o][f] = s, f \in owned[o], f \in owned'[o]
  PROVE  refcount'[s] = 1
<1>1. refcount[s] = 1
  BY DEF MemInv, Kept, Private
<1>2. s \notin freed /\ s \notin held
  BY <1>1, OwnedCounts
<1>3. refcount'[s] \in Nat /\ refcount'[s] <= 1
  BY <1>1, <1>2 DEF CountsStep, Unused
<1>4. Here(field'[o], owned'[o], s) >= 1
  BY DEF Here, One, Buffer
<1>5. refcount'[s] >= 1
  BY <1>4, CountedNext
<1> QED
  BY <1>3, <1>5

LEMMA OthersKept ==
  ASSUME MemInv, TypeOK', CountsExact', CountsStep, NEW o \in Obj,
         field'[o] = field[o], owned'[o] = owned[o],
         destructed \subseteq destructed'
  PROVE  Kept(o)'
<1>0. Allocated(o) /\ Private(o) /\ Whole(o) /\ owned[o] \subseteq Field
  BY DEF MemInv, Kept, TypeOK
<1>1. Whole(o)'
  BY <1>0 DEF Whole
<1>2. Allocated(o)'
  BY <1>0 DEF Allocated, CountsStep
<1>3. ASSUME NEW f \in Buffer, field[o][f] \in Str, f \notin owned[o]
      PROVE  field[o][f] \in freed'
  BY <1>0, <1>3 DEF Private, CountsStep
<1>4. ASSUME NEW f \in Buffer, NEW s \in Str, field[o][f] = s, f \in owned[o]
      PROVE  refcount'[s] = 1
  BY <1>4, BufferKept
<1>5. Private(o)'
  BY <1>3, <1>4 DEF Private
<1> QED
  BY <1>1, <1>2, <1>5 DEF Kept

\* A string nobody has used is in no field.
LEMMA UnusedNowhere ==
  ASSUME MemInv, NEW s \in Str, Unused(s), NEW o \in Obj, NEW f \in Field
  PROVE  field[o][f] # s
BY DEF MemInv, Kept, Allocated, Unused, TypeOK

\* The references of these fields are the object's.
Owns(o, F) == \A f \in F : field[o][f] \in Str => f \in owned[o]

\* What has happened when they were released and fresh strings were allocated.
Recounted(o, F, fresh) ==
  /\ \A s \in fresh : /\ Unused(s) /\ refcount'[s] = 1 /\ s \notin freed'
                      /\ Here(field[o], F, s) = 0 /\ Here(field[o], owned[o], s) = 0
  /\ \A s \in Str \ fresh : refcount'[s] = refcount[s] - Here(field[o], F, s)
  /\ \A s \in freed' : refcount'[s] = 0

LEMMA RecountStep ==
  ASSUME MemInv, NEW o \in Obj, NEW F \in SUBSET Field, NEW fresh \in SUBSET Str,
         Recount(o, F, fresh), Owns(o, F)
  PROVE  CountsStep /\ Recounted(o, F, fresh)
<1>0. /\ refcount \in [Str -> Nat] /\ freed \subseteq Str
      /\ field[o] \in [Field -> Str \cup {Literal, Empty, NULL}] /\ owned[o] \in SUBSET Field
  BY DEF MemInv, TypeOK
<1>1. /\ refcount' = [s \in Str |-> IF s \in fresh THEN 1 ELSE refcount[s] - Here(field[o], F, s)]
      /\ freed' = freed \cup {s \in Str : refcount[s] > 0 /\ refcount[s] = Here(field[o], F, s)}
      /\ \A s \in fresh : Unused(s)
  BY UsesHere DEF Recount
<1>2. ASSUME NEW s \in Str
      PROVE  Here(field[o], F, s) \in Nat /\ Here(field[o], F, s) <= refcount[s]
  <2>1. Here(field[o], F, s) \in Nat /\ Here(field[o], F, s) <= Here(field[o], owned[o], s)
    BY DEF Here, One, Owns
  <2>2. /\ OwnedUses(s) \in Nat /\ Here(field[o], owned[o], s) <= OwnedUses(s)
        /\ Here(field[o], owned[o], s) \in Nat
    BY HereCounts
  <2>3. refcount[s] \in Nat /\ lost[s] \in Nat
    BY DEF MemInv, TypeOK
  <2>4. refcount[s] = OwnedUses(s) + (IF s \in held THEN 1 ELSE 0) + lost[s]
    BY DEF MemInv, CountsExact
  <2> QED
    BY <2>1, <2>2, <2>3, <2>4
<1>3. ASSUME NEW s \in fresh
      PROVE  Here(field[o], F, s) = 0 /\ Here(field[o], owned[o], s) = 0
  BY <1>1, UnusedNowhere DEF Here, One, Field
<1>4. \A s \in freed : refcount[s] = 0
  BY <1>0 DEF MemInv, CountsExact
<1>5. \A s \in fresh : refcount'[s] = 1 /\ s \notin freed'
  BY <1>0, <1>1 DEF Unused
<1>6. \A s \in Str \ fresh : refcount'[s] = refcount[s] - Here(field[o], F, s)
  BY <1>1
<1>7. \A s \in freed' : refcount'[s] = 0
  BY <1>0, <1>1, <1>2, <1>3, <1>4, <1>5
<1>8. CountsStep
  <2>1. refcount' \in [Str -> Nat]
    BY <1>0, <1>1, <1>2
  <2>2. freed \subseteq freed' /\ freed' \subseteq Str
    BY <1>0, <1>1
  <2>3. ASSUME NEW s \in Str
        PROVE  /\ refcount'[s] <= refcount[s] \/ Unused(s) \/ s \in held
               /\ refcount[s] > 0 => refcount'[s] > 0 \/ s \in freed'
    <3>1. CASE s \in fresh
      BY <1>1, <1>5, <3>1
    <3>2. CASE s \notin fresh
      BY <1>0, <1>1, <1>2, <1>6, <3>2
    <3> QED
      BY <3>1, <3>2
  <2> QED
    BY <2>1, <2>2, <2>3 DEF CountsStep
<1> QED
  BY <1>1, <1>3, <1>5, <1>6, <1>7, <1>8 DEF Recounted

\* The fields a method may use have references of their own.
LEMMA SoundOwned ==
  ASSUME MemInv, NEW o \in Obj, NEW f \in Buffer, Sound(o, {f}), field[o][f] \in Str
  PROVE  f \in owned[o]
BY DEF MemInv, Kept, Private, Sound

\* What remains to be shown of a step that touches one object.
LEMMA OneObjectStep ==
  ASSUME MemInv, NEW o \in Obj, TypeOK', CountsExact', CountsStep, Kept(o)',
         \A p \in Obj \ {o} : field'[p] = field[p] /\ owned'[p] = owned[p],
         destructed \subseteq destructed'
  PROVE  MemInv'
<1>1. \A p \in Obj \ {o} : Kept(p)'
  BY OthersKept
<1> QED
  BY <1>1 DEF MemInv

\* ... or none, or only an object's destruction.
LEMMA NoObjectStep ==
  ASSUME MemInv, TypeOK', CountsExact', CountsStep, UNCHANGED <<field, owned>>,
         destructed \subseteq destructed'
  PROVE  MemInv'
<1>1. \A p \in Obj : Kept(p)'
  BY OthersKept
<1> QED
  BY <1>1 DEF MemInv

\* The counts stay exact when the object's references change as its strings do.
LEMMA RecountExact ==
  ASSUME MemInv, NEW o \in Obj, NEW F \in SUBSET Field, NEW fresh \in SUBSET Str,
         Recount(o, F, fresh), Owns(o, F),
         \A p \in Obj \ {o} : field'[p] = field[p] /\ owned'[p] = owned[p],
         UNCHANGED <<held, lost>>,
         \A s \in Str : Here(field'[o], owned'[o], s) =
           Here(field[o], owned[o], s) - Here(field[o], F, s) + One(s \in fresh)
  PROVE  CountsExact'
<1> SUFFICES ASSUME NEW s \in Str
             PROVE  /\ refcount'[s] = OwnedUses(s)' + (IF s \in held' THEN 1 ELSE 0) + lost'[s]
                    /\ s \in freed' => refcount'[s] = 0
  BY DEF CountsExact
<1> DEFINE n == OwnedUses(s)
           h == Here(field[o], owned[o], s)
           r == Here(field[o], F, s)
<1>1. n \in Nat /\ h \in Nat /\ h <= n
  BY HereCounts
<1>2. OwnedUses(s)' = n - h + Here(field'[o], owned'[o], s)
  BY OneChanges
<1>3. Here(field'[o], owned'[o], s) = h - r + One(s \in fresh)
  OBVIOUS
<1>4. r \in Nat
  BY DEF Here, One
<1>5. /\ refcount[s] = n + (IF s \in held THEN 1 ELSE 0) + lost[s]
      /\ refcount[s] \in Nat /\ lost[s] \in Nat
  BY DEF MemInv, CountsExact, TypeOK
<1>0. Recounted(o, F, fresh)
  BY RecountStep
<1>6. s \in freed' => refcount'[s] = 0
  BY <1>0 DEF Recounted
<1>7. s \in fresh => refcount'[s] = 1 /\ refcount[s] = 0 /\ r = 0
  BY <1>0 DEF Recounted, Unused
<1>8. s \notin fresh => refcount'[s] = refcount[s] - r
  BY <1>0 DEF Recounted
<1> HIDE DEF n, h, r
<1>9. OwnedUses(s)' = n - r + One(s \in fresh)
  BY <1>1, <1>2, <1>3, <1>4 DEF One
<1> QED
  BY <1>1, <1>4, <1>5, <1>6, <1>7, <1>8, <1>9 DEF One

-----------------------------------------------------------------------------
\* Each action keeps the invariant.

LEMMA WriteMem ==
  ASSUME MemInv, NEW o \in Obj, NEW s \in Str, Write(o, s)
  PROVE  MemInv'
<1> USE DEF Write
<1>0. /\ field[o] \in [Field -> Str \cup {Literal, Empty, NULL}] /\ owned[o] \in SUBSET Field
      /\ field \in [Obj -> [Field -> Str \cup {Literal, Empty, NULL}]]
      /\ owned \in [Obj -> SUBSET Field]
  BY DEF MemInv, TypeOK
<1>1. /\ field'[o] = [field[o] EXCEPT !["wBuf"] = s] /\ owned'[o] = owned[o] \cup {"wBuf"}
      /\ \A p \in Obj \ {o} : field'[p] = field[p] /\ owned'[p] = owned[p]
      /\ Recount(o, {"wBuf"}, {s}) /\ {"wBuf"} \in SUBSET Field /\ {s} \in SUBSET Str
  BY <1>0 DEF Field
<1>2. Owns(o, {"wBuf"})
  BY SoundOwned DEF Buffer, Owns
<1>a. CountsStep /\ Recounted(o, {"wBuf"}, {s})
  BY <1>1, <1>2, RecountStep
<1>3. /\ CountsStep /\ Unused(s) /\ refcount'[s] = 1 /\ Here(field[o], owned[o], s) = 0
      /\ Here(field[o], {"wBuf"}, s) = 0
  BY <1>a DEF Recounted
<1>4. /\ field'[o]["wBuf"] = s /\ field'[o]["rBuf"] = field[o]["rBuf"]
      /\ field'[o]["serviceName"] = field[o]["serviceName"]
  BY <1>0, <1>1 DEF Field
<1>5. ASSUME NEW t \in Str
      PROVE  Here(field'[o], owned'[o], t) =
               Here(field[o], owned[o], t) - Here(field[o], {"wBuf"}, t) + One(t \in {s})
  <2>1. t = s => field[o]["wBuf"] # t
    BY <1>3, UnusedNowhere DEF Field
  <2> QED
    BY <1>1, <1>2, <1>4, <2>1 DEF Here, One, Owns
<1>6. CountsExact'
  BY <1>1, <1>2, <1>5, RecountExact
<1>7. TypeOK'
  <2>1. field' \in [Obj -> [Field -> Str \cup {Literal, Empty, NULL}]] /\ owned' \in [Obj -> SUBSET Field]
    BY <1>0 DEF Field
  <2> QED
    BY <1>3, <2>1 DEF MemInv, TypeOK, CountsStep
<1>8. Kept(o)'
  <2>0. Kept(o)
    BY DEF MemInv
  <2>1. Allocated(o)'
    BY <2>0, <1>3, <1>4, <1>0 DEF Kept, Allocated, Field, CountsStep
  <2>2. field[o]["rBuf"] \in Str /\ "rBuf" \in owned[o] => refcount'[field[o]["rBuf"]] = 1
    <3> SUFFICES ASSUME NEW t \in Str, field[o]["rBuf"] = t, "rBuf" \in owned[o]
                 PROVE  refcount'[t] = 1
      OBVIOUS
    <3> QED
      BY <1>1, <1>3, <1>4, <1>6, <1>7, BufferKept DEF Buffer
  <2>3. Private(o)'
    BY <2>0, <2>2, <1>1, <1>3, <1>4 DEF Kept, Private, Buffer, CountsStep
  <2>4. Whole(o)'
    BY <2>0, <1>1, <1>4, <1>0, AddressAssumption DEF Kept, Whole, Field, Sound, NoFields
  <2> QED
    BY <2>1, <2>3, <2>4 DEF Kept
<1> QED
  BY <1>1, <1>3, <1>6, <1>7, <1>8, OneObjectStep

LEMMA FlushAnsweredMem ==
  ASSUME MemInv, NEW o \in Obj, NEW s \in Str, FlushAnswered(o, s)
  PROVE  MemInv'
<1> USE DEF FlushAnswered, ReleasedByFlush
<1>0. /\ field[o] \in [Field -> Str \cup {Literal, Empty, NULL}] /\ owned[o] \in SUBSET Field
      /\ field \in [Obj -> [Field -> Str \cup {Literal, Empty, NULL}]]
      /\ owned \in [Obj -> SUBSET Field]
  BY DEF MemInv, TypeOK
<1>1. /\ owned'[o] = owned[o] \cup {"wBuf", "rBuf"}
      /\ \A p \in Obj \ {o} : field'[p] = field[p] /\ owned'[p] = owned[p]
      /\ Recount(o, {"rBuf", "wBuf"}, {s})
      /\ {"rBuf", "wBuf"} \in SUBSET Field /\ {s} \in SUBSET Str
  BY <1>0 DEF Field
<1>2. Owns(o, {"rBuf", "wBuf"})
  BY SoundOwned DEF Buffer, Owns, Sound, Field
<1>3. CountsStep /\ Recounted(o, {"rBuf", "wBuf"}, {s})
  BY <1>1, <1>2, RecountStep
<1>4. /\ field'[o]["wBuf"] = Empty /\ field'[o]["rBuf"] = s
      /\ field'[o]["serviceName"] = field[o]["serviceName"]
      /\ field' \in [Obj -> [Field -> Str \cup {Literal, Empty, NULL}]]
  BY <1>0 DEF Field
<1>5. ASSUME NEW t \in Str
      PROVE  Here(field'[o], owned'[o], t) =
               Here(field[o], owned[o], t) - Here(field[o], {"rBuf", "wBuf"}, t) + One(t \in {s})
  <2>1. t = s => \A f \in Field : field[o][f] # t
    BY <1>3, UnusedNowhere DEF Recounted
  <2>2. t # Empty
    BY AddressAssumption
  <2> QED
    BY <1>1, <1>2, <1>4, <2>1, <2>2 DEF Here, One, Owns, Field
<1>6. CountsExact'
  BY <1>1, <1>2, <1>5, RecountExact
<1>7. TypeOK'
  <2>1. owned' \in [Obj -> SUBSET Field]
    BY <1>0 DEF Field
  <2> QED
    BY <1>3, <1>4, <2>1 DEF MemInv, TypeOK, CountsStep
<1>8. Kept(o)'
  <2>0. Kept(o)
    BY DEF MemInv
  <2>a. refcount'[s] = 1 /\ Empty \notin Str
    BY <1>3, AddressAssumption DEF Recounted
  <2>b. Allocated(o) /\ CountsStep /\ "serviceName" \in Field
    BY <2>0, <1>3 DEF Kept, Field
  <2>c. ASSUME NEW f \in Field, NEW t \in Str, field'[o][f] = t
        PROVE  refcount'[t] > 0 \/ t \in freed'
    <3>1. f = "serviceName" => field[o][f] = t
      BY <2>c, <1>4
    <3>2. f # "serviceName" => t = s
      BY <2>a, <2>c, <1>4 DEF Field
    <3> QED
      BY <2>a, <2>b, <3>1, <3>2 DEF Allocated, CountsStep
  <2>1. Allocated(o)'
    BY <2>c DEF Allocated
  <2>2. Private(o)'
    BY <1>1, <1>3, <1>4, AddressAssumption DEF Private, Buffer, Recounted
  <2>3. Whole(o)'
    BY <2>0, <1>1, <1>4, <1>0, AddressAssumption DEF Kept, Whole, Field, Sound, NoFields
  <2> QED
    BY <2>1, <2>2, <2>3 DEF Kept
<1> QED
  BY <1>1, <1>3, <1>6, <1>7, <1>8, OneObjectStep

LEMMA FlushBailsOutMem ==
  ASSUME MemInv, NEW o \in Obj, FlushBailsOut(o)
  PROVE  MemInv'
<1> USE DEF FlushBailsOut, Fatal
<1>0. /\ owned \in [Obj -> SUBSET Field] /\ destructed \subseteq Obj
      /\ field[o] \in [Field -> Str \cup {Literal, Empty, NULL}]
  BY DEF MemInv, TypeOK
<1>1. /\ owned'[o] = owned[o] \ {"rBuf"} /\ field' = field
      /\ \A p \in Obj \ {o} : field'[p] = field[p] /\ owned'[p] = owned[p]
      /\ Recount(o, {"rBuf"}, {}) /\ {"rBuf"} \in SUBSET Field /\ {} \in SUBSET Str
  BY <1>0 DEF Field
<1>2. Owns(o, {"rBuf"}) /\ Owns(o, {"wBuf"})
  BY SoundOwned DEF Buffer, Owns, Sound, Field
<1>3. CountsStep /\ Recounted(o, {"rBuf"}, {})
  BY <1>1, <1>2, RecountStep
<1>4. ASSUME NEW t \in Str
      PROVE  Here(field'[o], owned'[o], t) =
               Here(field[o], owned[o], t) - Here(field[o], {"rBuf"}, t) + One(t \in {})
  BY <1>1, <1>2 DEF Here, One, Owns
<1>5. CountsExact'
  BY <1>1, <1>2, <1>4, RecountExact
<1>6. TypeOK'
  BY <1>0, <1>3 DEF MemInv, TypeOK, CountsStep
<1>7. Kept(o)'
  <2>0. Kept(o)
    BY DEF MemInv
  <2>1. Allocated(o)'
    BY <2>0, <1>1, <1>3 DEF Kept, Allocated, CountsStep
  <2>2. field[o]["rBuf"] \in Str => field[o]["rBuf"] \in freed'
    <3> SUFFICES ASSUME NEW t \in Str, field[o]["rBuf"] = t PROVE t \in freed'
      OBVIOUS
    <3>1. refcount[t] = 1
      BY <2>0, <1>2 DEF Kept, Private, Buffer, Owns
    <3>2. Here(field[o], {"rBuf"}, t) = 1
      BY DEF Here, One
    <3>3. Uses(field[o], {"rBuf"}, t) = 1
      BY <3>2, <1>1, UsesHere
    <3> QED
      BY <3>1, <3>3, <1>1 DEF Recount
  <2>3. field[o]["wBuf"] \in Str => "wBuf" \in owned'[o] /\ refcount'[field[o]["wBuf"]] = 1
    <3> SUFFICES ASSUME NEW t \in Str, field[o]["wBuf"] = t
                 PROVE  "wBuf" \in owned'[o] /\ refcount'[t] = 1
      OBVIOUS
    <3> QED
      BY <1>1, <1>2, <1>3, <1>5, <1>6, BufferKept DEF Buffer, Owns
  <2>4. Private(o)'
    BY <2>2, <2>3, <1>1 DEF Private, Buffer
  <2>5. o \in destructed'
    BY DEF MayCall
  <2>6. Whole(o)'
    BY <1>1, <2>5 DEF Whole, Sound
  <2> QED
    BY <2>1, <2>4, <2>6 DEF Kept
<1> QED
  BY <1>0, <1>1, <1>3, <1>5, <1>6, <1>7, OneObjectStep

LEMMA DestroyMem ==
  ASSUME MemInv, NEW o \in Obj, Destroy(o)
  PROVE  MemInv'
<1> USE DEF Destroy, ReleasedByDtor
<1> DEFINE F == {f \in Field : field[o][f] # NULL}
<1>0. /\ owned \in [Obj -> SUBSET Field] /\ destructed \subseteq Obj /\ freed \subseteq Str
      /\ field[o] \in [Field -> Str \cup {Literal, Empty, NULL}]
      /\ phase \in [Obj -> {"none", "created", "constructing", "live", "cloned",
                            "destructing", "freed", "overlaid"}]
      /\ Kept(o)
  BY DEF MemInv, TypeOK
<1>1. /\ owned'[o] = {} /\ field' = field
      /\ \A p \in Obj \ {o} : field'[p] = field[p] /\ owned'[p] = owned[p]
      /\ F \in SUBSET Field /\ {} \in SUBSET Str /\ owned' \in [Obj -> SUBSET Field]
  BY <1>0
<1>2. owned[o] = F
  <2>1. CASE field[o] = NoFields
    BY <2>1, <1>0 DEF Kept, Whole, NoFields, Field
  <2>2. CASE field[o] # NoFields
    BY <2>2, <1>0 DEF Kept, Whole
  <2> QED
    BY <2>1, <2>2
<1>3. Sound(o, F)
  <2> SUFFICES ASSUME NEW f \in F PROVE field[o][f] \notin freed
    BY DEF Sound
  <2>1. field[o][f] \in Str => field[o][f] \notin freed
    BY <1>2, OwnedCounts
  <2> QED
    BY <2>1, <1>0
<1>4. Recount(o, F, {}) /\ stray' = stray
  BY <1>3
<1>5. Owns(o, F)
  BY <1>2 DEF Owns
<1> HIDE DEF F
<1>6. CountsStep /\ Recounted(o, F, {})
  BY <1>1, <1>4, <1>5, RecountStep
<1>7. ASSUME NEW t \in Str
      PROVE  Here(field'[o], owned'[o], t) =
               Here(field[o], owned[o], t) - Here(field[o], F, t) + One(t \in {})
  BY <1>1, <1>2 DEF Here, One
<1>8. CountsExact'
  BY <1>1, <1>4, <1>5, <1>7, RecountExact
<1>9. TypeOK'
  BY <1>0, <1>1, <1>4, <1>6 DEF MemInv, TypeOK, CountsStep
<1>10. Kept(o)'
  <2>1. Allocated(o)'
    BY <1>0, <1>1, <1>6 DEF Kept, Allocated, CountsStep
  <2>2. ASSUME NEW f \in Buffer, NEW t \in Str, field[o][f] = t
        PROVE  t \in freed'
    <3>1. CASE f \notin owned[o]
      BY <3>1, <2>2, <1>0, <1>6 DEF Kept, Private, CountsStep
    <3>2. CASE f \in owned[o]
      <4>1. refcount[t] = 1
        BY <3>2, <2>2, <1>0 DEF Kept, Private
      <4>2. Here(field[o], F, t) >= 1 /\ Here(field[o], F, t) \in Nat
        BY <3>2, <2>2, <1>2 DEF Here, One, Buffer
      <4>3. refcount'[t] = refcount[t] - Here(field[o], F, t) /\ refcount'[t] \in Nat
        BY <1>6 DEF Recounted, CountsStep
      <4>4. Here(field[o], F, t) = 1
        BY <4>1, <4>2, <4>3
      <4>5. Uses(field[o], F, t) = 1
        BY <4>4, <1>1, UsesHere
      <4> QED
        BY <4>1, <4>5, <1>4 DEF Recount
    <3> QED
      BY <3>1, <3>2
  <2>3. Private(o)'
    BY <2>2, <1>1 DEF Private
  <2>4. Whole(o)'
    BY <1>0, <1>1 DEF Whole, Kept
  <2> QED
    BY <2>1, <2>3, <2>4 DEF Kept
<1> QED
  BY <1>1, <1>6, <1>8, <1>9, <1>10, OneObjectStep

LEMMA ConstructMem ==
  ASSUME MemInv, NEW o \in Obj, NEW name \in Str \cup {Literal}, Construct(o, name)
  PROVE  MemInv'
<1> USE DEF Construct
<1>0. /\ field \in [Obj -> [Field -> Str \cup {Literal, Empty, NULL}]]
      /\ owned \in [Obj -> SUBSET Field] /\ freed \subseteq Str /\ held \subseteq Str
      /\ refcount \in [Str -> Nat] /\ lost \in [Str -> Nat]
  BY DEF MemInv, TypeOK
<1>1. /\ owned'[o] = Field /\ owned' \in [Obj -> SUBSET Field]
      /\ field'[o]["serviceName"] = name
      /\ field'[o]["wBuf"] = Empty /\ field'[o]["rBuf"] = Empty
      /\ field' \in [Obj -> [Field -> Str \cup {Literal, Empty, NULL}]]
      /\ \A p \in Obj \ {o} : field'[p] = field[p] /\ owned'[p] = owned[p]
      /\ freed' = freed /\ held' = held
  BY <1>0 DEF Field, FieldsOf
<1>2. name \in Str => name \in held /\ refcount[name] >= 1 /\ name \notin freed
  <2> SUFFICES ASSUME name \in Str
               PROVE  name \in held /\ refcount[name] >= 1 /\ name \notin freed
    OBVIOUS
  <2>1. name \in held
    BY AddressAssumption
  <2>2. OwnedUses(name) \in Nat
    BY HereCounts
  <2>3. /\ refcount[name] = OwnedUses(name) + (IF name \in held THEN 1 ELSE 0) + lost[name]
        /\ name \in freed => refcount[name] = 0
    BY DEF MemInv, CountsExact
  <2> QED
    BY <2>1, <2>2, <2>3, <1>0
<1>3. \A t \in Str : refcount'[t] = refcount[t] + One(t = name)
  BY <1>0 DEF NameCopied, One
<1>4. refcount' \in [Str -> Nat]
  BY <1>0 DEF NameCopied
<1>5. CountsStep
  BY <1>0, <1>1, <1>2, <1>3, <1>4 DEF CountsStep, One
<1>6. \A t \in Str : lost'[t] = lost[t] + Here(field[o], owned[o], t)
  BY <1>0, UsesHere
<1>7. lost' \in [Str -> Nat]
  <2>1. \A t \in Str : Here(field[o], owned[o], t) \in Nat
    BY DEF Here, One
  <2> QED
    BY <2>1, <1>6, <1>0
<1>8. CountsExact'
  <2> SUFFICES ASSUME NEW t \in Str
               PROVE  /\ refcount'[t] = OwnedUses(t)' + (IF t \in held' THEN 1 ELSE 0) + lost'[t]
                      /\ t \in freed' => refcount'[t] = 0
    BY DEF CountsExact
  <2> DEFINE n == OwnedUses(t)
             h == Here(field[o], owned[o], t)
  <2>1. n \in Nat /\ h \in Nat
    BY HereCounts
  <2>2. Here(field'[o], owned'[o], t) = One(t = name)
    BY <1>1, AddressAssumption DEF Here, One, Field
  <2>3. OwnedUses(t)' = n - h + One(t = name)
    BY <2>2, <1>1, OneChanges
  <2>4. lost'[t] = lost[t] + h
    BY <1>6
  <2>5. /\ refcount[t] = n + (IF t \in held THEN 1 ELSE 0) + lost[t]
        /\ t \in freed => refcount[t] = 0 /\ t # name
        /\ refcount[t] \in Nat /\ lost[t] \in Nat
    BY <1>0, <1>2 DEF MemInv, CountsExact
  <2>6. refcount'[t] = refcount[t] + One(t = name) /\ held' = held /\ freed' = freed
    BY <1>1, <1>3
  <2>7. One(t = name) \in {0, 1} /\ (t # name => One(t = name) = 0)
    BY DEF One
  <2>8. OwnedUses(t)' + (IF t \in held' THEN 1 ELSE 0) + lost'[t] = refcount'[t]
    <3> HIDE DEF n, h
    <3> USE <2>1, <2>3, <2>4, <2>5, <2>6, <2>7
    <3>1. CASE t \in held
      BY <3>1
    <3>2. CASE t \notin held
      BY <3>2
    <3> QED
      BY <3>1, <3>2
  <2> QED
    BY <2>5, <2>6, <2>7, <2>8
<1>9. TypeOK'
  <2>1. phase' \in [Obj -> {"none", "created", "constructing", "live", "cloned",
                            "destructing", "freed", "overlaid"}]
    BY DEF MemInv, TypeOK
  <2> QED
    BY <1>0, <1>1, <1>4, <1>7, <2>1 DEF MemInv, TypeOK
<1>10. Kept(o)'
  <2>1. name \in Str => refcount'[name] > 0
    BY <1>2, <1>3, <1>0 DEF One
  <2>2. Empty \notin Str /\ Empty # NULL /\ name # NULL
    BY AddressAssumption
  <2>3. Allocated(o)'
    BY <2>1, <2>2, <1>1 DEF Allocated, Field
  <2>4. Private(o)'
    BY <2>2, <1>1 DEF Private, Buffer
  <2>5. Whole(o)'
    BY <2>2, <1>1 DEF Whole, Field
  <2> QED
    BY <2>3, <2>4, <2>5 DEF Kept
<1> QED
  BY <1>1, <1>5, <1>8, <1>9, <1>10, OneObjectStep

\* The script's own references.
LEMMA NameMem ==
  ASSUME MemInv, NEW s \in Str, MakeName(s) \/ DropName(s)
  PROVE  MemInv'
<1> USE DEF MakeName, DropName
<1>0. /\ refcount \in [Str -> Nat] /\ freed \subseteq Str /\ held \subseteq Str
      /\ lost \in [Str -> Nat] /\ destructed' = destructed
      /\ UNCHANGED <<field, owned, lost>>
  BY DEF MemInv, TypeOK
<1>1. \A t \in Str : OwnedUses(t) \in Nat /\ OwnedUses(t)' = OwnedUses(t)
  <2> TAKE t \in Str
  <2>1. OwnedUses(t)' = OwnedUses(t)
    BY <1>0 DEF OwnedUses
  <2>2. OwnedUses(t) = Cardinality(Refs(Obj, field, owned, t))
    BY DEF OwnedUses, Refs
  <2>3. Obj \in SUBSET Obj
    OBVIOUS
  <2> QED
    BY <2>1, <2>2, <2>3, FiniteRefs
<1>2. \A t \in Str : /\ refcount[t] = OwnedUses(t) + (IF t \in held THEN 1 ELSE 0) + lost[t]
                     /\ t \in freed => refcount[t] = 0
  BY DEF MemInv, CountsExact
<1>3. \A t \in held : refcount[t] >= 1
  BY <1>0, <1>1, <1>2
<1>4. refcount' \in [Str -> Nat]
  BY <1>0, <1>3
<1>5. CountsStep
  BY <1>0, <1>3, <1>4 DEF CountsStep, Unused
<1>6. CountsExact'
  <2> SUFFICES ASSUME NEW t \in Str
               PROVE  /\ refcount'[t] = OwnedUses(t) + (IF t \in held' THEN 1 ELSE 0) + lost[t]
                      /\ t \in freed' => refcount'[t] = 0
    BY <1>0, <1>1 DEF CountsExact
  <2>0. /\ OwnedUses(t) \in Nat /\ lost[t] \in Nat /\ refcount[t] \in Nat
        /\ refcount[t] = OwnedUses(t) + (IF t \in held THEN 1 ELSE 0) + lost[t]
        /\ t \in freed => refcount[t] = 0
    BY <1>0, <1>1, <1>2
  <2>1. CASE MakeName(s)
    <3>1. /\ refcount'[t] = (IF t = s THEN 1 ELSE refcount[t]) /\ held = {} /\ held' = {s}
          /\ freed' = freed /\ refcount[s] = 0 /\ s \notin freed
      BY <2>1, <1>0 DEF Unused
    <3>2. t = s => OwnedUses(t) = 0 /\ lost[t] = 0
      BY <2>0, <3>1
    <3> QED
      BY <2>0, <3>1, <3>2
  <2>2. CASE DropName(s)
    BY <2>2, <1>0, <1>1, <1>2
  <2> QED
    BY <2>1, <2>2
<1>7. TypeOK'
  BY <1>4, <1>5 DEF MemInv, TypeOK, CountsStep
<1> QED
  BY <1>0, <1>5, <1>6, <1>7, NoObjectStep

\* A misplaced block takes an object's members away: the references are lost.
LEMMA OverlayObjectMem ==
  ASSUME MemInv, NEW o \in Obj, NEW v \in Obj, OverlayObject(o, v)
  PROVE  MemInv'
<1> USE DEF OverlayObject
<1>0. /\ field \in [Obj -> [Field -> Str \cup {Literal, Empty, NULL}]]
      /\ owned \in [Obj -> SUBSET Field]
      /\ refcount \in [Str -> Nat] /\ lost \in [Str -> Nat]
  BY DEF MemInv, TypeOK
<1>1. NoFields \in [Field -> {NULL}] /\ \A f \in Field : NoFields[f] = NULL
  BY DEF NoFields, Field
<1>2. /\ owned'[v] = {} /\ field'[v] = NoFields /\ owned' \in [Obj -> SUBSET Field]
      /\ field' \in [Obj -> [Field -> Str \cup {Literal, Empty, NULL}]]
      /\ \A p \in Obj \ {v} : field'[p] = field[p] /\ owned'[p] = owned[p]
      /\ UNCHANGED <<destructed, refcount, freed, held>>
  BY <1>0, <1>1 DEF strings
<1>3. CountsStep
  BY <1>0, <1>2 DEF MemInv, TypeOK, CountsStep
<1>4. \A t \in Str : lost'[t] = lost[t] + Here(field[v], owned[v], t)
  BY <1>0, UsesHere
<1>5. lost' \in [Str -> Nat]
  <2>1. \A t \in Str : Here(field[v], owned[v], t) \in Nat
    BY DEF Here, One
  <2> QED
    BY <2>1, <1>4, <1>0
<1>6. CountsExact'
  <2> SUFFICES ASSUME NEW t \in Str
               PROVE  /\ refcount'[t] = OwnedUses(t)' + (IF t \in held' THEN 1 ELSE 0) + lost'[t]
                      /\ t \in freed' => refcount'[t] = 0
    BY DEF CountsExact
  <2> DEFINE n == OwnedUses(t)
             h == Here(field[v], owned[v], t)
             k == IF t \in held THEN 1 ELSE 0
  <2>1. n \in Nat /\ h \in Nat /\ h <= n /\ k \in Nat
    BY HereCounts
  <2>2. Here(field'[v], owned'[v], t) = 0
    BY <1>2 DEF Here, One
  <2>3. OwnedUses(t)' = n - h
    BY <2>1, <2>2, <1>2, OneChanges
  <2>4. lost'[t] = lost[t] + h /\ lost[t] \in Nat
    BY <1>0, <1>4
  <2>5. refcount[t] = n + k + lost[t] /\ (t \in freed => refcount[t] = 0)
    BY DEF MemInv, CountsExact
  <2>6. refcount'[t] = refcount[t] /\ (t \in freed' => t \in freed)
    BY <1>2
  <2>7. (IF t \in held' THEN 1 ELSE 0) = k
    BY <1>2
  <2> HIDE DEF n, h, k
  <2> QED
    BY <2>1, <2>3, <2>4, <2>5, <2>6, <2>7
<1>7. TypeOK'
  <2>1. /\ phase' \in [Obj -> {"none", "created", "constructing", "live", "cloned",
                               "destructing", "freed", "overlaid"}]
        /\ misfreed' \subseteq Obj
    BY DEF MemInv, TypeOK
  <2> QED
    BY <1>2, <1>5, <2>1 DEF MemInv, TypeOK
<1>8. Kept(v)'
  BY <1>1, <1>2, AddressAssumption DEF Kept, Allocated, Private, Whole, Field, Buffer
<1> QED
  BY <1>2, <1>3, <1>6, <1>7, <1>8, OneObjectStep

\* The steps that leave all strings and fields as they are.
LEMMA QuietMem ==
  ASSUME MemInv, UNCHANGED <<field, owned, strings, held, lost>>, TypeOK',
         destructed \subseteq destructed'
  PROVE  MemInv'
<1> USE DEF strings
<1>1. \A s \in Str : OwnedUses(s)' = OwnedUses(s)
  BY DEF OwnedUses
<1>2. CountsExact'
  BY <1>1 DEF MemInv, CountsExact
<1>3. CountsStep
  BY DEF MemInv, TypeOK, CountsStep
<1> QED
  BY <1>2, <1>3, NoObjectStep

\* Objects come, are done with and go.
LEMMA LifeMem ==
  ASSUME MemInv, NEW o \in Obj,
         \/ Create(o) \/ Constructed(o) \/ ConstructorThrows(o) \/ Resurrect(o) \/ FreeObject(o)
         \/ \E c \in Obj : Clone(o, c)
  PROVE  MemInv'
<1> USE DEF Create, Constructed, ConstructorThrows, Resurrect, FreeObject, Clone, strings
<1>1. UNCHANGED <<field, owned, strings, held, lost>>
  OBVIOUS
<1>2. TypeOK'
  BY DEF MemInv, TypeOK
<1>3. destructed \subseteq destructed'
  BY DEF MemInv, TypeOK
<1> QED
  BY <1>1, <1>2, <1>3, QuietMem

\* Memory that is not the object's is used, or a misplaced block harms nobody.
LEMMA StrayMem ==
  ASSUME MemInv, NEW o \in Obj,
         \/ \E method \in Method : DereferenceNull(o, method) \/ UseFreed(o, method)
         \/ \E method \in Method \cup {"__construct"} : UseForeign(o, method)
         \/ DestroyOverlaid(o) \/ OverlayOther(o)
  PROVE  MemInv'
<1> USE DEF DereferenceNull, UseFreed, UseForeign, DestroyOverlaid, OverlayOther, strings
<1>1. UNCHANGED <<field, owned, strings, held, lost>> /\ destructed \subseteq destructed'
  OBVIOUS
<1>2. TypeOK'
  BY DEF MemInv, TypeOK
<1> QED
  BY <1>1, <1>2, QuietMem

LEMMA StepMem == MemInv /\ [Next]_vars => MemInv'
<1> SUFFICES ASSUME MemInv, [Next]_vars PROVE MemInv'
  OBVIOUS
<1>1. ASSUME NEW s \in Str, MakeName(s) \/ DropName(s) PROVE MemInv'
  BY <1>1, NameMem
<1>2. ASSUME NEW o \in Obj,
             \/ Create(o) \/ Constructed(o) \/ ConstructorThrows(o) \/ Resurrect(o) \/ FreeObject(o)
             \/ \E c \in Obj : Clone(o, c)
      PROVE  MemInv'
  BY <1>2, LifeMem
<1>3. ASSUME NEW o \in Obj, NEW name \in Str \cup {Literal}, Construct(o, name) PROVE MemInv'
  BY <1>3, ConstructMem
<1>4. ASSUME NEW o \in Obj, NEW s \in Str, Write(o, s) \/ FlushAnswered(o, s) PROVE MemInv'
  BY <1>4, WriteMem, FlushAnsweredMem
<1>5. ASSUME NEW o \in Obj, FlushBailsOut(o) PROVE MemInv'
  BY <1>5, FlushBailsOutMem
<1>6. ASSUME NEW o \in Obj,
             \/ \E method \in Method : DereferenceNull(o, method) \/ UseFreed(o, method)
             \/ \E method \in Method \cup {"__construct"} : UseForeign(o, method)
             \/ DestroyOverlaid(o) \/ OverlayOther(o)
      PROVE  MemInv'
  BY <1>6, StrayMem
<1>7. ASSUME NEW o \in Obj, Destroy(o) PROVE MemInv'
  BY <1>7, DestroyMem
<1>8. ASSUME NEW o \in Obj, NEW v \in Obj, OverlayObject(o, v) PROVE MemInv'
  BY <1>8, OverlayObjectMem
<1>9. CASE BailOut \/ EndRequest
  <2>1. TypeOK' /\ destructed \subseteq destructed'
    BY <1>9 DEF BailOut, EndRequest, Fatal, strings, MemInv, TypeOK
  <2> QED
    BY <1>9, <2>1, QuietMem DEF BailOut, EndRequest
<1>10. CASE UNCHANGED vars
  <2>1. TypeOK' /\ destructed \subseteq destructed'
    BY <1>10 DEF vars, strings, MemInv, TypeOK
  <2> QED
    BY <1>10, <2>1, QuietMem DEF vars
<1> QED
  BY <1>1, <1>2, <1>3, <1>4, <1>5, <1>6, <1>7, <1>8, <1>9, <1>10 DEF Next

-----------------------------------------------------------------------------
\* Theorems.

LEMMA AlwaysMem == Spec => []MemInv
  BY InitMem, StepMem, PTL DEF Spec

\* The state of the objects and their strings keeps its types, for any finite
\* number of objects and any strings.
THEOREM MemoryTypeCorrect == Spec => []TypeOK
<1>1. MemInv => TypeOK
  BY DEF MemInv
<1> QED
  BY <1>1, AlwaysMem, PTL

\* A string is released as often as it was counted: its count is the number of
\* references that exist, that a second constructor has dropped or that were in
\* members another block was laid over, whatever the order of calls, destruction
\* and fatal errors.
THEOREM CountsStayExact == Spec => []CountsExact
<1>1. MemInv => CountsExact
  BY DEF MemInv
<1> QED
  BY <1>1, AlwaysMem, PTL
=============================================================================
