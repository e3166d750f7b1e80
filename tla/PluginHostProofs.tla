-------------------------- MODULE PluginHostProofs --------------------------
(***************************************************************************)
(* Theorems about the loader, the registry and the life of a process, for  *)
(* any directories, files, libraries and services that satisfy the         *)
(* assumption of PluginHost.                                               *)
(***************************************************************************)
EXTENDS PluginHost, FiniteSetTheorems, TLAPS

-----------------------------------------------------------------------------
\* How often a library is among the handles.

At(handles, lib) == {i \in 1 .. Len(handles) : handles[i] = lib}

LEMMA CountEmpty ==
  ASSUME NEW lib
  PROVE  Cardinality(At(<< >>, lib)) = 0
<1>1. At(<< >>, lib) = {}
  BY DEF At
<1> QED
  BY <1>1, FS_EmptySet

LEMMA CountFinite ==
  ASSUME NEW h \in Seq(Image), NEW lib
  PROVE  IsFiniteSet(At(h, lib)) /\ Cardinality(At(h, lib)) \in Nat
<1>1. IsFiniteSet(1 .. Len(h))
  BY FS_Interval
<1>2. At(h, lib) \subseteq 1 .. Len(h)
  BY DEF At
<1>3. IsFiniteSet(At(h, lib))
  BY <1>1, <1>2, FS_Subset
<1> QED
  BY <1>3, FS_CardinalityType

LEMMA CountPositive ==
  ASSUME NEW h \in Seq(Image), NEW i \in 1 .. Len(h)
  PROVE  Cardinality(At(h, h[i])) > 0
<1>1. At(h, h[i]) # {}
  BY DEF At
<1> QED
  BY <1>1, CountFinite, FS_EmptySet

LEMMA CountAppend ==
  ASSUME NEW h \in Seq(Image), NEW x \in Image, NEW lib
  PROVE  Cardinality(At(Append(h, x), lib))
           = Cardinality(At(h, lib)) + (IF x = lib THEN 1 ELSE 0)
<1>1. Len(Append(h, x)) = Len(h) + 1 /\ \A i \in 1 .. Len(h) : Append(h, x)[i] = h[i]
  OBVIOUS
<1>2. Append(h, x)[Len(h) + 1] = x /\ Len(h) \in Nat
  OBVIOUS
<1>3. CASE x = lib
  <2>1. At(Append(h, x), lib) = At(h, lib) \cup {Len(h) + 1}
    BY <1>1, <1>2, <1>3 DEF At
  <2>2. Len(h) + 1 \notin At(h, lib)
    BY <1>2 DEF At
  <2> QED
    BY <1>3, <2>1, <2>2, CountFinite, FS_AddElement
<1>4. CASE x # lib
  <2>1. At(Append(h, x), lib) = At(h, lib)
    BY <1>1, <1>2, <1>4 DEF At
  <2> QED
    BY <1>4, <2>1, CountFinite
<1> QED
  BY <1>3, <1>4

LEMMA CountTail ==
  ASSUME NEW h \in Seq(Image), h # << >>, NEW lib
  PROVE  Cardinality(At(Tail(h), lib))
           = Cardinality(At(h, lib)) - (IF Head(h) = lib THEN 1 ELSE 0)
<1> DEFINE rest == At(h, lib) \ {1}
           down == [i \in rest |-> i - 1]
<1>1. Len(h) \in Nat /\ Len(h) > 0 /\ Head(h) = h[1]
  OBVIOUS
<1>2. Tail(h) \in Seq(Image) /\ Len(Tail(h)) = Len(h) - 1
  OBVIOUS
<1>3. \A i \in 1 .. Len(h) - 1 : Tail(h)[i] = h[i + 1]
  OBVIOUS
<1>4. IsFiniteSet(rest)
      /\ Cardinality(rest) = IF 1 \in At(h, lib) THEN Cardinality(At(h, lib)) - 1
                             ELSE Cardinality(At(h, lib))
  BY CountFinite, FS_RemoveElement
<1>5. 1 \in At(h, lib) <=> Head(h) = lib
  BY <1>1 DEF At
<1>6. \A i \in rest : i \in Nat /\ i - 1 \in At(Tail(h), lib)
  BY <1>1, <1>2, <1>3 DEF At
<1>7. \A j \in At(Tail(h), lib) : j \in Nat /\ j + 1 \in rest
  BY <1>1, <1>2, <1>3 DEF At
<1>8. down \in Bijection(rest, At(Tail(h), lib))
  <2>1. down \in [rest -> At(Tail(h), lib)]
    BY <1>6
  <2>2. \A i, j \in rest : down[i] = down[j] => i = j
    BY <1>6
  <2>3. \A j \in At(Tail(h), lib) : j + 1 \in rest /\ down[j + 1] = j
    BY <1>7
  <2>4. \A j \in At(Tail(h), lib) : \E i \in rest : down[i] = j
    BY <2>3
  <2> QED
    BY <2>1, <2>2, <2>4 DEF Bijection, Injection, Surjection, IsInjective
<1>9. ExistsBijection(rest, At(Tail(h), lib))
  BY <1>8 DEF ExistsBijection
<1>10. Cardinality(At(Tail(h), lib)) = Cardinality(rest)
  BY <1>4, <1>9, FS_Bijection
<1> QED
  BY <1>4, <1>5, <1>10, CountFinite

LEMMA HeadAndTail ==
  ASSUME NEW S, NEW q \in Seq(S), q # << >>
  PROVE  /\ Len(q) \in Nat /\ Len(q) > 0
         /\ Head(q) \in S /\ Head(q) = q[1]
         /\ Tail(q) \in Seq(S) /\ Len(Tail(q)) = Len(q) - 1
         /\ \A i \in 1 .. Len(q) - 1 : Tail(q)[i] = q[i + 1]
OBVIOUS

-----------------------------------------------------------------------------
\* The inductive invariant.

\* A library is mapped as often as there are handles for it.
Counted == \A lib \in Image : mapped[lib] = Cardinality(At(plugin_handles, lib))

\* What each stage of the process goes with.
Stages ==
  /\ stage = "scanning" => ~core_initialized
  /\ stage # "scanning" => calls = << >>
  /\ stage = "serving" <=> serving # NULL
  /\ stage = "serving" => core_initialized
  /\ stage \in {"closing", "gone"} => \A s \in Service : processors[s] = NULL
  /\ stage = "gone" => plugin_handles = << >>
  /\ stage # "scanning" /\ ~core_initialized =>
       plugin_handles = << >> /\ \A s \in Service : processors[s] = NULL

\* Registrations to come are those of the library opened last.
CallsOfLast ==
  calls # << >> =>
    /\ plugin_handles # << >>
    /\ \A i \in DOMAIN calls : Registers(plugin_handles[Len(plugin_handles)], calls[i].service)

\* What the scan has opened so far, and who owns each name.
Pending(s) == \E i \in DOMAIN calls : calls[i].service = s

OpenedSoFar ==
  stage = "scanning" =>
    /\ steady \subseteq appeared
    /\ \A f \in steady : file[f] = "whole"
    /\ \A f \in seen \cap steady \cap SoNamed \cap Loadable :
         \E i \in DOMAIN plugin_handles : plugin_handles[i] = ImageOf[f]

LastHasName ==
  stage = "scanning" =>
    \A s \in Service :
      /\ processors[s] # NULL =>
           /\ processors[s].load \in DOMAIN plugin_handles
           /\ Registers(plugin_handles[processors[s].load], s)
      /\ \A i \in DOMAIN plugin_handles :
           Registers(plugin_handles[i], s) =>
             \/ i = Len(plugin_handles) /\ Pending(s)
             \/ processors[s] # NULL /\ i <= processors[s].load

\* The code of every processor that has an owner is mapped.
CodeMapped ==
  \A b \in Owned(processors, serving) :
    \E i \in DOMAIN plugin_handles : plugin_handles[i] = b.lib

HostInv == /\ TypeOK /\ Counted /\ Stages /\ CallsOfLast
           /\ OpenedSoFar /\ LastHasName /\ CodeMapped

-----------------------------------------------------------------------------
\* The deployer touches nothing of the process.
LEMMA DeployerAside ==
  ASSUME Deployer \/ UNCHANGED vars
  PROVE  UNCHANGED <<stage, core_initialized, registry, plugin_dir, seen>>
BY DEF Deployer, MakeDir, StartCopy, FinishCopy, Remove, Change, vars, registry, disk, scan

\* The registry a registration leaves.
LEMMA RegisterKeepsTypes ==
  ASSUME TypeOK, NEW s \in Service, NEW lib \in Image, NEW load \in Nat, NEW object \in Nat,
         Register(s, lib, load, object)
  PROVE  /\ processors' \in [Service -> Block \cup {NULL}]
         /\ blocks' \in Nat /\ freed' \subseteq Block
<1>1. [nr |-> blocks + 1, lib |-> lib, load |-> load, object |-> object] \in Block
  BY DEF Block, TypeOK
<1>2. processors' \in [Service -> Block \cup {NULL}] /\ blocks' \in Nat
  BY <1>1 DEF Register, TableWith, TypeOK
<1>3. Owned(processors, serving) \subseteq Block
  BY DEF Owned, ServingOwns, TypeOK
<1> QED
  BY <1>2, <1>3 DEF Register, Release, TypeOK

\* The library opened last is there while registrations are to come.
LEMMA CallerKnown ==
  ASSUME TypeOK, CallsOfLast, calls # << >>
  PROVE  /\ Head(calls).service \in Service /\ Head(calls).object \in Nat
         /\ Len(plugin_handles) \in Nat /\ Len(plugin_handles) > 0
         /\ plugin_handles[Len(plugin_handles)] \in Image
         /\ Tail(calls) \in Seq([service : Service, object : Nat])
<1> DEFINE Call == [service : Service, object : Nat]
<1>0. \A c \in Call : c.service \in Service /\ c.object \in Nat
  OBVIOUS
<1>1. calls \in Seq(Call)
  BY DEF TypeOK
<1> HIDE DEF Call
<1>2. Head(calls) \in Call /\ Tail(calls) \in Seq(Call)
  BY <1>1, HeadAndTail
<1>3. Len(plugin_handles) \in Nat /\ Len(plugin_handles) > 0
      /\ plugin_handles[Len(plugin_handles)] \in Image
  BY DEF TypeOK, CallsOfLast
<1> QED
  BY <1>0, <1>2, <1>3 DEF Call

LEMMA InitHolds == Init => HostInv
<1> SUFFICES ASSUME Init PROVE HostInv
  OBVIOUS
<1>1. TypeOK
  <2>1. file \in [File -> {"absent", "partial", "whole"}]
    BY DEF Init
  <2>2. calls \in Seq([service : Service, object : Nat]) /\ plugin_handles \in Seq(Image)
    BY DEF Init
  <2>3. mapped \in [Image -> Nat] /\ processors \in [Service -> Block \cup {NULL}]
    BY DEF Init
  <2>4. changes \in 0 .. MaxChanges /\ blocks \in Nat
    BY PluginAssumption DEF Init
  <2>5. /\ stage = "off" /\ core_initialized \in BOOLEAN
        /\ serving = NULL /\ freed = {} /\ plugin_dir = NULL
        /\ dirs \subseteq Dir /\ seen = {} /\ appeared = {} /\ steady = {}
    BY DEF Init
  <2> QED
    BY <2>1, <2>2, <2>3, <2>4, <2>5 DEF TypeOK
<1>2. Counted
  BY CountEmpty DEF Init, Counted
<1>3. Stages /\ CallsOfLast /\ OpenedSoFar /\ LastHasName
  BY DEF Init, Stages, CallsOfLast, OpenedSoFar, LastHasName
<1>4. CodeMapped
  BY DEF Init, CodeMapped, Owned, ServingOwns
<1> QED
  BY <1>1, <1>2, <1>3, <1>4 DEF HostInv

LEMMA TypeStep ==
  ASSUME HostInv, [Next]_vars
  PROVE  TypeOK'
<1> USE DEF HostInv
<1>1. CASE Deployer \/ UNCHANGED vars
  <2>1. UNCHANGED <<stage, core_initialized, registry, plugin_dir, seen>>
    BY <1>1, DeployerAside
  <2>2. /\ file' \in [File -> {"absent", "partial", "whole"}]
        /\ dirs' \subseteq Dir
    BY <1>1 DEF TypeOK, Deployer, MakeDir, StartCopy, FinishCopy, Remove, vars, disk
  <2>3. appeared' \subseteq File /\ steady' \subseteq File
    BY <1>1 DEF TypeOK, Deployer, MakeDir, StartCopy, FinishCopy, Remove, vars, scan
  <2>4. changes' \in 0 .. MaxChanges
    BY <1>1, PluginAssumption
    DEF TypeOK, Deployer, MakeDir, StartCopy, FinishCopy, Remove, Change, vars, disk
  <2> QED
    BY <2>1, <2>2, <2>3, <2>4 DEF TypeOK, registry
<1>2. CASE MINIT
  BY <1>2 DEF TypeOK, MINIT, registry, disk, scan
<1>3. ASSUME NEW d \in Dir \cup {NULL}, RINITAgain(d) \/ RINITScan(d) \/ RINITNoDir(d)
      PROVE  TypeOK'
  BY <1>3 DEF TypeOK, RINITAgain, RINITScan, RINITNoDir, StartRequest, WholeIn, EntriesOf,
              registry, disk, scan
<1>4. ASSUME NEW f \in File, SkipEntry(f)
      PROVE  TypeOK'
  BY <1>4 DEF TypeOK, SkipEntry, NextEntry, SeenWith, disk
<1>5. ASSUME NEW f \in File, load_plugin(f)
      PROVE  TypeOK'
  <2>1. ImageOf[f] \in Image
    BY DEF Image
  <2>2. plugin_handles' \in Seq(Image) /\ mapped' \in [Image -> Nat]
    BY <1>5, <2>1 DEF TypeOK, load_plugin, KeptHandles
  <2>3. calls' \in Seq([service : Service, object : Nat])
    <3>1. Offers[ImageOf[f]] \in Seq([service : Service, object : Nat])
      BY <2>1, PluginAssumption
    <3>2. << >> \in Seq([service : Service, object : Nat])
      OBVIOUS
    <3> QED
      BY <1>5, <3>1, <3>2 DEF load_plugin
  <2> QED
    BY <1>5, <2>2, <2>3 DEF TypeOK, load_plugin, NextEntry, SeenWith, disk
<1>6. CASE RegisterNext
  <2>1. /\ processors' \in [Service -> Block \cup {NULL}]
        /\ blocks' \in Nat /\ freed' \subseteq Block
    BY <1>6, CallerKnown, RegisterKeepsTypes DEF RegisterNext
  <2>2. calls' \in Seq([service : Service, object : Nat])
    BY <1>6, CallerKnown DEF RegisterNext
  <2> QED
    BY <1>6, <2>1, <2>2 DEF TypeOK, RegisterNext, disk, scan
<1>7. CASE EndScan
  BY <1>7 DEF TypeOK, EndScan, registry, disk
<1>8. ASSUME NEW s \in Service, Serve(s)
      PROVE  TypeOK'
  BY <1>8 DEF TypeOK, Serve, disk, scan
<1>9. ASSUME NEW s \in Service, HotSwap(s)
      PROVE  TypeOK'
  <2>1. serving.lib \in Image
    BY <1>9 DEF TypeOK, Stages, HotSwap, Block
  <2>2. blocks + 1 \in Nat
    BY DEF TypeOK
  <2>3. /\ processors' \in [Service -> Block \cup {NULL}]
        /\ blocks' \in Nat /\ freed' \subseteq Block
    BY <1>9, <2>1, <2>2, RegisterKeepsTypes DEF HotSwap
  <2> QED
    BY <1>9, <2>3 DEF TypeOK, HotSwap, disk, scan
<1>10. CASE Served
  BY <1>10 DEF TypeOK, Served, Release, Owned, ServingOwns, disk, scan
<1>11. CASE EndRequest
  BY <1>11 DEF TypeOK, EndRequest, registry, disk, scan
<1>12. CASE MSHUTDOWN
  BY <1>12 DEF TypeOK, MSHUTDOWN, Release, Owned, ServingOwns, disk, scan
<1>13. CASE CloseNext
  <2> DEFINE lib == Head(plugin_handles)
  <2>1. lib \in Image /\ Tail(plugin_handles) \in Seq(Image)
    BY <1>13 DEF TypeOK, CloseNext
  <2>2. lib = plugin_handles[1] /\ 1 \in 1 .. Len(plugin_handles)
    BY <1>13 DEF TypeOK, CloseNext
  <2>3. mapped[lib] \in Nat /\ mapped[lib] > 0
    BY <2>1, <2>2, CountPositive DEF TypeOK, Counted
  <2>4. mapped[lib] - 1 \in Nat
    BY <2>3
  <2>5. mapped' \in [Image -> Nat]
    BY <1>13, <2>4 DEF TypeOK, CloseNext
  <2> QED
    BY <1>13, <2>1, <2>5 DEF TypeOK, CloseNext, HandlesLeft, disk, scan
<1>14. CASE Closed
  BY <1>14 DEF TypeOK, Closed, registry, disk, scan
<1> QED
  BY <1>1, <1>2, <1>3, <1>4, <1>5, <1>6, <1>7, <1>8, <1>9, <1>10, <1>11, <1>12, <1>13, <1>14
  DEF Next, Scan

LEMMA CountedStep ==
  ASSUME HostInv, [Next]_vars
  PROVE  Counted'
<1> USE DEF HostInv
<1>1. CASE UNCHANGED <<plugin_handles, mapped>>
  BY <1>1 DEF Counted
<1>2. ASSUME NEW f \in File, load_plugin(f)
      PROVE  Counted'
  <2>1. ImageOf[f] \in Image
    BY DEF Image
  <2>2. ASSUME NEW lib \in Image
        PROVE  mapped'[lib] = Cardinality(At(plugin_handles', lib))
    <3>1. Cardinality(At(plugin_handles', lib))
            = Cardinality(At(plugin_handles, lib)) + (IF ImageOf[f] = lib THEN 1 ELSE 0)
      BY <1>2, <2>1, CountAppend DEF TypeOK, load_plugin, KeptHandles
    <3>2. mapped'[lib] = IF ImageOf[f] = lib THEN mapped[lib] + 1 ELSE mapped[lib]
      BY <1>2, <2>1, <2>2 DEF TypeOK, load_plugin
    <3>3. mapped[lib] = Cardinality(At(plugin_handles, lib)) /\ mapped[lib] \in Nat
      BY DEF TypeOK, Counted
    <3> QED
      BY <3>1, <3>2, <3>3
  <2> QED
    BY <2>2 DEF Counted
<1>3. CASE CloseNext
  <2>1. plugin_handles \in Seq(Image) /\ plugin_handles # << >>
    BY <1>3 DEF TypeOK, CloseNext
  <2>2. Head(plugin_handles) \in Image
    BY <2>1, HeadAndTail
  <2>3. ASSUME NEW lib \in Image
        PROVE  mapped'[lib] = Cardinality(At(plugin_handles', lib))
    <3>1. Cardinality(At(plugin_handles', lib))
            = Cardinality(At(plugin_handles, lib))
                - (IF Head(plugin_handles) = lib THEN 1 ELSE 0)
      BY <1>3, <2>1, CountTail DEF CloseNext, HandlesLeft
    <3>2. mapped'[lib] = IF Head(plugin_handles) = lib THEN mapped[lib] - 1 ELSE mapped[lib]
      BY <1>3, <2>2, <2>3 DEF TypeOK, CloseNext
    <3>3. mapped[lib] = Cardinality(At(plugin_handles, lib)) /\ mapped[lib] \in Nat
      BY DEF TypeOK, Counted
    <3> QED
      BY <3>1, <3>2, <3>3
  <2> QED
    BY <2>3 DEF Counted
<1>4. \/ UNCHANGED <<plugin_handles, mapped>>
      \/ \E f \in File : load_plugin(f)
      \/ CloseNext
  <2>1. Deployer \/ UNCHANGED vars => UNCHANGED <<plugin_handles, mapped>>
    BY DeployerAside DEF registry
  <2> QED
    BY <2>1 DEF Next, Scan, MINIT, RINITAgain, RINITScan, RINITNoDir, SkipEntry, RegisterNext,
                EndScan, Serve, HotSwap, Served, EndRequest, MSHUTDOWN, Closed, registry
<1> QED
  BY <1>1, <1>2, <1>3, <1>4

LEMMA StagesStep ==
  ASSUME HostInv, [Next]_vars
  PROVE  Stages'
<1> USE DEF HostInv
<1>1. CASE UNCHANGED <<stage, core_initialized, registry>>
  BY <1>1 DEF Stages, registry
<1>2. CASE MINIT
  BY <1>2 DEF Stages, MINIT, registry
<1>3. ASSUME NEW d \in Dir \cup {NULL}, RINITAgain(d) \/ RINITScan(d) \/ RINITNoDir(d)
      PROVE  Stages'
  BY <1>3 DEF Stages, RINITAgain, RINITScan, RINITNoDir, StartRequest, NeedsScan, registry
<1>4. ASSUME NEW f \in File, SkipEntry(f) \/ load_plugin(f)
      PROVE  Stages'
  BY <1>4 DEF Stages, SkipEntry, load_plugin, NextEntry
<1>5. CASE RegisterNext
  BY <1>5 DEF Stages, RegisterNext
<1>6. CASE EndScan
  BY <1>6 DEF Stages, EndScan, registry
<1>7. ASSUME NEW s \in Service, Serve(s)
      PROVE  Stages'
  BY <1>7 DEF Stages, Serve
<1>8. ASSUME NEW s \in Service, HotSwap(s)
      PROVE  Stages'
  BY <1>8 DEF Stages, HotSwap
<1>9. CASE Served
  BY <1>9 DEF Stages, Served
<1>10. CASE EndRequest
  BY <1>10 DEF Stages, EndRequest, registry
<1>11. CASE MSHUTDOWN
  BY <1>11 DEF Stages, MSHUTDOWN
<1>12. CASE CloseNext
  <2>1. plugin_handles # << >>
    BY <1>12 DEF CloseNext
  <2> QED
    BY <1>12, <2>1 DEF Stages, CloseNext
<1>13. CASE Closed
  BY <1>13 DEF Stages, Closed, registry
<1> QED
  BY <1>1, <1>2, <1>3, <1>4, <1>5, <1>6, <1>7, <1>8, <1>9, <1>10, <1>11, <1>12, <1>13,
     DeployerAside DEF Next, Scan

LEMMA CallsStep ==
  ASSUME HostInv, [Next]_vars
  PROVE  CallsOfLast'
<1> USE DEF HostInv
<1>1. CASE UNCHANGED <<plugin_handles, calls>>
  BY <1>1 DEF CallsOfLast
<1>2. ASSUME NEW f \in File, load_plugin(f)
      PROVE  CallsOfLast'
  <2> DEFINE lib == ImageOf[f]
             h == Append(plugin_handles, lib)
  <2>1. lib \in Image /\ plugin_handles' = h
    BY <1>2 DEF Image, load_plugin, KeptHandles
  <2>2. h # << >> /\ h[Len(h)] = lib
    BY <2>1 DEF TypeOK
  <2>3. calls' = IF lib \in HasRegister THEN Offers[lib] ELSE << >>
    BY <1>2 DEF load_plugin
  <2>4. calls' # << >> =>
          \A i \in DOMAIN calls' : Registers(lib, calls'[i].service)
    BY <2>3 DEF Registers
  <2> QED
    BY <2>1, <2>2, <2>4 DEF CallsOfLast
<1>3. CASE RegisterNext
  <2>1. calls # << >> /\ calls' = Tail(calls) /\ plugin_handles' = plugin_handles
    BY <1>3 DEF RegisterNext
  <2>2. DOMAIN calls = 1 .. Len(calls) /\ Len(calls) \in Nat
        /\ DOMAIN calls' = 1 .. Len(calls) - 1
        /\ \A i \in 1 .. Len(calls) - 1 : calls'[i] = calls[i + 1]
    BY <2>1, HeadAndTail DEF TypeOK
  <2>3. \A i \in DOMAIN calls' : i + 1 \in DOMAIN calls /\ calls'[i] = calls[i + 1]
    BY <2>2
  <2> QED
    BY <2>1, <2>3 DEF CallsOfLast
<1>4. CASE CloseNext
  BY <1>4 DEF Stages, CallsOfLast, CloseNext
<1>5. \/ UNCHANGED <<plugin_handles, calls>>
      \/ \E f \in File : load_plugin(f)
      \/ RegisterNext \/ CloseNext
  <2>1. Deployer \/ UNCHANGED vars => UNCHANGED <<plugin_handles, calls>>
    BY DeployerAside DEF registry
  <2> QED
    BY <2>1 DEF Next, Scan, MINIT, RINITAgain, RINITScan, RINITNoDir, SkipEntry,
                EndScan, Serve, HotSwap, Served, EndRequest, MSHUTDOWN, Closed, registry
<1> QED
  BY <1>1, <1>2, <1>3, <1>4, <1>5

LEMMA OpenedStep ==
  ASSUME HostInv, [Next]_vars
  PROVE  OpenedSoFar'
<1> USE DEF HostInv
<1>1. CASE stage' # "scanning"
  BY <1>1 DEF OpenedSoFar
<1>2. ASSUME UNCHANGED <<stage, plugin_handles, seen, steady>>,
             appeared \subseteq appeared' \/ stage # "scanning",
             \A f \in steady : file'[f] = file[f] \/ file'[f] = "whole"
      PROVE  OpenedSoFar'
  BY <1>2 DEF OpenedSoFar
<1>3. CASE Deployer \/ UNCHANGED vars
  <2>1. UNCHANGED <<stage, plugin_handles, seen>>
    BY <1>3, DeployerAside DEF registry
  <2>2. steady' \subseteq steady /\ appeared \subseteq appeared'
    BY <1>3 DEF Deployer, MakeDir, StartCopy, FinishCopy, Remove, Change, vars, scan
  <2>3. \A f \in steady' : stage = "scanning" => file'[f] = "whole"
    <3> SUFFICES ASSUME NEW f \in steady', stage = "scanning"
                 PROVE  file'[f] = "whole"
      OBVIOUS
    <3>1. f \in File /\ f \in steady /\ file[f] = "whole"
      BY <2>2 DEF OpenedSoFar, TypeOK
    <3>2. CASE UNCHANGED file
      BY <3>1, <3>2
    <3>3. ASSUME NEW g \in File, StartCopy(g) \/ FinishCopy(g)
          PROVE  file'[f] = "whole"
      BY <3>1, <3>3 DEF TypeOK, StartCopy, FinishCopy
    <3>4. ASSUME NEW g \in File, Remove(g)
          PROVE  file'[f] = "whole"
      BY <3>1, <3>4 DEF TypeOK, Remove
    <3> QED
      BY <1>3, <3>2, <3>3, <3>4 DEF Deployer, MakeDir, vars, disk
  <2> QED
    BY <2>1, <2>2, <2>3 DEF OpenedSoFar
<1>4. ASSUME NEW d \in Dir \cup {NULL}, RINITScan(d)
      PROVE  OpenedSoFar'
  BY <1>4 DEF OpenedSoFar, RINITScan, StartRequest, WholeIn, EntriesOf, disk
<1>5. ASSUME NEW f \in File, SkipEntry(f)
      PROVE  OpenedSoFar'
  <2>1. stage = "scanning" /\ stage' = "scanning" /\ seen' = seen \cup {f}
        /\ UNCHANGED <<plugin_handles, file, appeared, steady>>
    BY <1>5 DEF SkipEntry, NextEntry, SeenWith, disk
  <2>2. f \notin steady \cap SoNamed \cap Loadable
    BY <1>5, <2>1 DEF SkipEntry, Opens, OpenedSoFar
  <2> QED
    BY <2>1, <2>2 DEF OpenedSoFar
<1>6. ASSUME NEW f \in File, load_plugin(f)
      PROVE  OpenedSoFar'
  <2>1. stage = "scanning" /\ stage' = "scanning" /\ seen' = seen \cup {f}
        /\ UNCHANGED <<file, appeared, steady>>
    BY <1>6 DEF load_plugin, NextEntry, SeenWith, disk
  <2>2. ImageOf[f] \in Image /\ plugin_handles' = Append(plugin_handles, ImageOf[f])
    BY <1>6 DEF load_plugin, KeptHandles, Image
  <2>3. /\ Len(plugin_handles) \in Nat
        /\ DOMAIN plugin_handles = 1 .. Len(plugin_handles)
        /\ DOMAIN plugin_handles' = 1 .. Len(plugin_handles) + 1
        /\ plugin_handles'[Len(plugin_handles) + 1] = ImageOf[f]
        /\ \A i \in DOMAIN plugin_handles : plugin_handles'[i] = plugin_handles[i]
    BY <2>2 DEF TypeOK
  <2>4. \E i \in DOMAIN plugin_handles' : plugin_handles'[i] = ImageOf[f]
    BY <2>3
  <2>5. \A g : (\E i \in DOMAIN plugin_handles : plugin_handles[i] = ImageOf[g])
                => \E i \in DOMAIN plugin_handles' : plugin_handles'[i] = ImageOf[g]
    BY <2>3
  <2> QED
    BY <2>1, <2>4, <2>5 DEF OpenedSoFar
<1>7. CASE RegisterNext
  BY <1>7 DEF OpenedSoFar, RegisterNext, disk, scan
<1>8. \/ stage' # "scanning"
      \/ Deployer \/ UNCHANGED vars
      \/ \E d \in Dir \cup {NULL} : RINITScan(d)
      \/ \E f \in File : SkipEntry(f) \/ load_plugin(f)
      \/ RegisterNext
  BY DEF Next, Scan, MINIT, RINITAgain, RINITNoDir, EndScan, Serve, HotSwap, Served, EndRequest,
         MSHUTDOWN, CloseNext, Closed
<1> QED
  BY <1>1, <1>3, <1>4, <1>5, <1>6, <1>7, <1>8

\* A registration gives the name, and no other, to the new block.
LEMMA RegisterGives ==
  ASSUME TypeOK, NEW s \in Service, NEW lib \in Image, NEW load \in Nat, NEW object \in Nat,
         Register(s, lib, load, object)
  PROVE  /\ processors'[s] # NULL
         /\ processors'[s] = [nr |-> blocks + 1, lib |-> lib, load |-> load, object |-> object]
         /\ \A t \in Service \ {s} : processors'[t] = processors[t]
<1>1. [nr |-> blocks + 1, lib |-> lib, load |-> load, object |-> object] \in Block
  BY DEF Block, TypeOK
<1>2. processors'[s] = [nr |-> blocks + 1, lib |-> lib, load |-> load, object |-> object]
  BY DEF Register, TableWith, TypeOK
<1>3. \A t \in Service \ {s} : processors'[t] = processors[t]
  BY DEF Register, TableWith, TypeOK
<1> QED
  BY <1>1, <1>2, <1>3, PluginAssumption

LEMMA LastHasNameStep ==
  ASSUME HostInv, [Next]_vars
  PROVE  LastHasName'
<1> USE DEF HostInv
<1>1. CASE stage' # "scanning"
  BY <1>1 DEF LastHasName
<1>2. CASE UNCHANGED <<stage, plugin_handles, processors, calls>>
  BY <1>2 DEF LastHasName, Pending
<1>3. ASSUME NEW d \in Dir \cup {NULL}, RINITScan(d)
      PROVE  LastHasName'
  <2>1. plugin_handles' = << >> /\ \A s \in Service : processors'[s] = NULL
    BY <1>3 DEF Stages, RINITScan, StartRequest, NeedsScan, registry
  <2>2. DOMAIN plugin_handles' = {}
    BY <2>1
  <2> QED
    BY <2>1, <2>2 DEF LastHasName
<1>4. ASSUME NEW f \in File, load_plugin(f)
      PROVE  LastHasName'
  <2> DEFINE lib == ImageOf[f]
             n == Len(plugin_handles)
  <2>1. stage = "scanning" /\ calls = << >> /\ processors' = processors
    BY <1>4 DEF load_plugin, NextEntry
  <2>2. lib \in Image /\ plugin_handles' = Append(plugin_handles, lib)
    BY <1>4 DEF load_plugin, KeptHandles, Image
  <2>3. /\ n \in Nat
        /\ DOMAIN plugin_handles = 1 .. n
        /\ DOMAIN plugin_handles' = 1 .. n + 1 /\ Len(plugin_handles') = n + 1
        /\ plugin_handles'[n + 1] = lib
        /\ \A i \in 1 .. n : plugin_handles'[i] = plugin_handles[i]
    BY <2>2 DEF TypeOK
  <2>4. \A s \in Service : ~Pending(s)
    BY <2>1 DEF Pending
  <2>5. \A s \in Service : Registers(lib, s) => Pending(s)'
    BY <1>4 DEF load_plugin, Registers, Pending
  <2> HIDE DEF lib, n
  <2> SUFFICES ASSUME NEW s \in Service
               PROVE  /\ processors[s] # NULL =>
                           /\ processors[s].load \in DOMAIN plugin_handles'
                           /\ Registers(plugin_handles'[processors[s].load], s)
                      /\ \A i \in DOMAIN plugin_handles' :
                           Registers(plugin_handles'[i], s) =>
                             \/ i = Len(plugin_handles') /\ Pending(s)'
                             \/ processors[s] # NULL /\ i <= processors[s].load
    BY <2>1 DEF LastHasName
  <2>6. ASSUME processors[s] # NULL
        PROVE  /\ processors[s].load \in DOMAIN plugin_handles'
               /\ Registers(plugin_handles'[processors[s].load], s)
    <3>1. processors[s].load \in 1 .. n /\ Registers(plugin_handles[processors[s].load], s)
      BY <2>1, <2>3, <2>6 DEF LastHasName
    <3> QED
      BY <2>3, <3>1
  <2>7. ASSUME NEW i \in DOMAIN plugin_handles', Registers(plugin_handles'[i], s)
        PROVE  \/ i = Len(plugin_handles') /\ Pending(s)'
               \/ processors[s] # NULL /\ i <= processors[s].load
    <3>1. CASE i = n + 1
      BY <2>3, <2>5, <2>7, <3>1
    <3>2. CASE i \in 1 .. n
      BY <2>1, <2>3, <2>4, <2>7, <3>2 DEF LastHasName
    <3> QED
      BY <2>3, <2>7, <3>1, <3>2
  <2> QED
    BY <2>6, <2>7
<1>5. CASE RegisterNext
  <2> DEFINE n == Len(plugin_handles)
             t == Head(calls).service
  <2>1. stage = "scanning" /\ calls # << >> /\ calls' = Tail(calls)
        /\ plugin_handles' = plugin_handles
    BY <1>5 DEF RegisterNext
  <2>2. t \in Service /\ n \in Nat /\ n > 0 /\ plugin_handles[n] \in Image
        /\ DOMAIN plugin_handles = 1 .. n
    BY <2>1, CallerKnown DEF TypeOK
  <2>3. processors'[t] # NULL /\ processors'[t].load = n
        /\ \A s \in Service \ {t} : processors'[s] = processors[s]
    <3> DEFINE lib == plugin_handles[n]
               object == Head(calls).object
    <3>1. Register(t, lib, n, object) /\ object \in Nat
      BY <1>5, <2>1, CallerKnown DEF RegisterNext
    <3> HIDE DEF lib, object, n, t
    <3>2. lib \in Image /\ n \in Nat /\ t \in Service
      BY <2>2 DEF lib
    <3>3. processors'[t] # NULL
          /\ processors'[t] = [nr |-> blocks + 1, lib |-> lib, load |-> n, object |-> object]
          /\ \A s \in Service \ {t} : processors'[s] = processors[s]
      BY <3>1, <3>2, RegisterGives
    <3> QED
      BY <3>3
  <2>4. DOMAIN calls = 1 .. Len(calls) /\ Len(calls) \in Nat /\ Len(calls) > 0
        /\ Head(calls) = calls[1]
        /\ DOMAIN calls' = 1 .. Len(calls) - 1
        /\ \A i \in 1 .. Len(calls) - 1 : calls'[i] = calls[i + 1]
    BY <2>1, HeadAndTail DEF TypeOK
  <2>5. Registers(plugin_handles[n], t)
    BY <2>1, <2>4 DEF CallsOfLast
  <2>6. \A s \in Service \ {t} : Pending(s) => Pending(s)'
    <3> SUFFICES ASSUME NEW s \in Service \ {t}, NEW i \in DOMAIN calls, calls[i].service = s
                 PROVE  Pending(s)'
      BY DEF Pending
    <3>1. i # 1
      BY <2>4
    <3>2. i - 1 \in DOMAIN calls' /\ calls'[i - 1] = calls[i]
      BY <2>4, <3>1
    <3> QED
      BY <3>2 DEF Pending
  <2> HIDE DEF n, t
  <2>7. ASSUME NEW s \in Service \ {t}
        PROVE  /\ processors'[s] # NULL =>
                    /\ processors'[s].load \in DOMAIN plugin_handles
                    /\ Registers(plugin_handles[processors'[s].load], s)
               /\ \A i \in DOMAIN plugin_handles :
                    Registers(plugin_handles[i], s) =>
                      \/ i = Len(plugin_handles) /\ Pending(s)'
                      \/ processors'[s] # NULL /\ i <= processors'[s].load
    BY <2>1, <2>3, <2>6 DEF LastHasName
  <2>8. /\ processors'[t].load \in DOMAIN plugin_handles
        /\ Registers(plugin_handles[processors'[t].load], t)
        /\ \A i \in DOMAIN plugin_handles : i <= processors'[t].load
    BY <2>2, <2>3, <2>5
  <2> QED
    BY <2>1, <2>3, <2>7, <2>8 DEF LastHasName
<1>6. \/ stage' # "scanning"
      \/ UNCHANGED <<stage, plugin_handles, processors, calls>>
      \/ \E d \in Dir \cup {NULL} : RINITScan(d)
      \/ \E f \in File : load_plugin(f)
      \/ RegisterNext
  <2>1. Deployer \/ UNCHANGED vars => UNCHANGED <<stage, plugin_handles, processors, calls>>
    BY DeployerAside DEF registry
  <2> QED
    BY <2>1 DEF Next, Scan, SkipEntry, NextEntry, MINIT, RINITAgain, RINITNoDir, EndScan, Serve,
                HotSwap, Served, EndRequest, MSHUTDOWN, CloseNext, Closed
<1> QED
  BY <1>1, <1>2, <1>3, <1>4, <1>5, <1>6

\* What is owned is owned by a name or by the call that is served, and a
\* registration adds its block and nothing else.
LEMMA OwnedIs ==
  ASSUME NEW table \in [Service -> Block \cup {NULL}], NEW b, NEW x
  PROVE  x \in Owned(table, b) <=>
           x # NULL /\ (x = b \/ \E s \in Service : x = table[s])
BY DEF Owned, ServingOwns

LEMMA RegisterOwns ==
  ASSUME TypeOK, NEW s \in Service, NEW lib \in Image, NEW load \in Nat, NEW object \in Nat,
         Register(s, lib, load, object), serving' = serving
  PROVE  Owned(processors', serving') \subseteq
           Owned(processors, serving)
             \cup {[nr |-> blocks + 1, lib |-> lib, load |-> load, object |-> object]}
<1>1. processors' \in [Service -> Block \cup {NULL}]
  BY RegisterKeepsTypes
<1>2. processors \in [Service -> Block \cup {NULL}]
  BY DEF TypeOK
<1>3. /\ processors'[s] = [nr |-> blocks + 1, lib |-> lib, load |-> load, object |-> object]
      /\ \A t \in Service \ {s} : processors'[t] = processors[t]
  BY RegisterGives
<1> QED
  BY <1>1, <1>2, <1>3, OwnedIs

\* Every step but a registration owns no more than before.
LEMMA OwnedShrinks ==
  ASSUME HostInv, [Next]_vars
  PROVE  \/ Owned(processors', serving') \subseteq Owned(processors, serving)
         \/ RegisterNext
         \/ \E s \in Service : HotSwap(s)
<1> USE DEF HostInv
<1>1. CASE UNCHANGED <<processors, serving>>
  BY <1>1
<1>2. ASSUME NEW s \in Service, Serve(s)
      PROVE  Owned(processors', serving') \subseteq Owned(processors, serving)
  BY <1>2 DEF Serve, Owned, ServingOwns
<1>3. CASE Served
  BY <1>3 DEF Served, Owned, ServingOwns
<1>4. CASE MSHUTDOWN
  BY <1>4 DEF MSHUTDOWN, Owned, ServingOwns
<1>5. \/ UNCHANGED <<processors, serving>>
      \/ \E s \in Service : Serve(s) \/ HotSwap(s)
      \/ Served \/ MSHUTDOWN \/ RegisterNext
  <2>1. Deployer \/ UNCHANGED vars => UNCHANGED <<processors, serving>>
    BY DeployerAside DEF registry
  <2> QED
    BY <2>1 DEF Next, Scan, SkipEntry, NextEntry, load_plugin, MINIT, RINITAgain, RINITScan,
                RINITNoDir, EndScan, EndRequest, CloseNext, Closed, registry
<1> QED
  BY <1>1, <1>2, <1>3, <1>4, <1>5

LEMMA CodeMappedStep ==
  ASSUME HostInv, [Next]_vars
  PROVE  CodeMapped'
<1> USE DEF HostInv
<1>1. CASE Owned(processors', serving') \subseteq Owned(processors, serving)
  <2>1. CASE plugin_handles' = plugin_handles
    BY <1>1, <2>1 DEF CodeMapped
  <2>2. ASSUME NEW f \in File, load_plugin(f)
        PROVE  CodeMapped'
    <3>1. ImageOf[f] \in Image /\ plugin_handles' = Append(plugin_handles, ImageOf[f])
      BY <2>2 DEF load_plugin, KeptHandles, Image
    <3>2. \A i \in DOMAIN plugin_handles :
            i \in DOMAIN plugin_handles' /\ plugin_handles'[i] = plugin_handles[i]
      BY <3>1 DEF TypeOK
    <3> QED
      BY <1>1, <3>2 DEF CodeMapped
  <2>3. CASE CloseNext
    <3>1. Owned(processors, serving) = {}
      BY <2>3 DEF Stages, CloseNext, Owned, ServingOwns
    <3> QED
      BY <1>1, <3>1 DEF CodeMapped
  <2>4. \/ plugin_handles' = plugin_handles
        \/ \E f \in File : load_plugin(f)
        \/ CloseNext
    <3>1. Deployer \/ UNCHANGED vars => plugin_handles' = plugin_handles
      BY DeployerAside DEF registry
    <3> QED
      BY <3>1 DEF Next, Scan, MINIT, RINITAgain, RINITScan, RINITNoDir, SkipEntry, RegisterNext,
                  EndScan, Serve, HotSwap, Served, EndRequest, MSHUTDOWN, Closed, registry
  <2> QED
    BY <2>1, <2>2, <2>3, <2>4
<1>2. ASSUME NEW s \in Service, NEW lib \in Image, NEW load \in Nat, NEW object \in Nat,
             Register(s, lib, load, object),
             UNCHANGED <<plugin_handles, serving>>,
             \E i \in DOMAIN plugin_handles : plugin_handles[i] = lib
      PROVE  CodeMapped'
  <2> DEFINE b == [nr |-> blocks + 1, lib |-> lib, load |-> load, object |-> object]
  <2>1. b.lib = lib
    OBVIOUS
  <2>2. Owned(processors', serving') \subseteq Owned(processors, serving) \cup {b}
    BY <1>2, RegisterOwns
  <2> HIDE DEF b
  <2> QED
    BY <1>2, <2>1, <2>2 DEF CodeMapped
<1>3. CASE RegisterNext
  <2> DEFINE n == Len(plugin_handles)
  <2>1. calls # << >> /\ Register(Head(calls).service, plugin_handles[n], n, Head(calls).object)
        /\ UNCHANGED <<plugin_handles, serving>>
    BY <1>3 DEF RegisterNext
  <2>2. n \in DOMAIN plugin_handles /\ n \in Nat /\ plugin_handles[n] \in Image
    BY <2>1, CallerKnown DEF TypeOK
  <2> HIDE DEF n
  <2> QED
    BY <1>2, <2>1, <2>2, CallerKnown
<1>4. ASSUME NEW s \in Service, HotSwap(s)
      PROVE  CodeMapped'
  <2>1. Register(s, serving.lib, 0, blocks + 1) /\ UNCHANGED <<plugin_handles, serving>>
    BY <1>4 DEF HotSwap
  <2>2. serving # NULL /\ serving \in Block
    BY <1>4 DEF HotSwap, Stages, TypeOK
  <2>3. serving \in Owned(processors, serving)
    BY <2>2 DEF Owned, ServingOwns
  <2>4. serving.lib \in Image /\ blocks + 1 \in Nat
    BY <2>2 DEF Block, TypeOK
  <2>5. \E i \in DOMAIN plugin_handles : plugin_handles[i] = serving.lib
    BY <2>3 DEF CodeMapped
  <2> QED
    BY <1>2, <2>1, <2>4, <2>5
<1> QED
  BY <1>1, <1>3, <1>4, OwnedShrinks

LEMMA HostInvariant == Spec => []HostInv
<1>1. Init => HostInv
  BY InitHolds
<1>2. HostInv /\ [Next]_vars => HostInv'
  BY TypeStep, CountedStep, StagesStep, CallsStep, OpenedStep, LastHasNameStep, CodeMappedStep
  DEF HostInv
<1> QED
  BY <1>1, <1>2, PTL DEF Spec

-----------------------------------------------------------------------------
\* Who owns and who has deleted what.

\* No plugin passes a pointer to one processor twice: shared_ptrs made from it
\* separately would each delete it.
DistinctObjects ==
  \A lib \in Image : \A i, j \in DOMAIN Offers[lib] :
    Offers[lib][i].object = Offers[lib][j].object => i = j

Known == freed \cup Owned(processors, serving)

\* Blocks are numbered as they are made; a processor registered while serving
\* has the number of its block.
Numbered ==
  \A b \in Known : b.nr <= blocks /\ (b.load = 0 => b.object = b.nr)

\* Until the libraries are closed a block is of one of the loads so far.
OfPastLoads ==
  stage \notin {"closing", "gone"} => \A b \in Known : b.load <= Len(plugin_handles)

\* The objects still to be registered are new.
Untaken ==
  \A i \in DOMAIN calls :
    /\ \A b \in Known : b.load = Len(plugin_handles) => b.object # calls[i].object
    /\ \A j \in DOMAIN calls : calls[j].object = calls[i].object => i = j

\* Each processor has one block, and what has an owner is not deleted.
OneBlockEach == \A b, c \in Known : SameProcessor(b, c) => b = c
Apart == freed \cap Owned(processors, serving) = {}

OwnerInv == Numbered /\ OfPastLoads /\ Untaken /\ OneBlockEach /\ Apart

LEMMA KnownAreBlocks ==
  ASSUME TypeOK
  PROVE  Known \subseteq Block /\ \A b \in Known : b.nr \in Nat /\ b.load \in Nat /\ b.object \in Nat
<1>1. Known \subseteq Block
  BY DEF TypeOK, Known, Owned, ServingOwns
<1> QED
  BY <1>1 DEF Block

\* Exactly what loses its last owner is deleted, in every step.
LEMMA FreedGrows ==
  ASSUME HostInv, [Next]_vars
  PROVE  freed' = freed \cup (Owned(processors, serving) \ Owned(processors', serving'))
<1> USE DEF HostInv
<1>1. CASE UNCHANGED <<processors, serving, freed>>
  BY <1>1
<1>2. ASSUME NEW s \in Service, Serve(s)
      PROVE  freed' = freed \cup (Owned(processors, serving) \ Owned(processors', serving'))
  BY <1>2 DEF Serve, Stages, Owned, ServingOwns
<1>3. CASE Served
  BY <1>3 DEF Served, Release
<1>4. CASE MSHUTDOWN
  BY <1>4 DEF MSHUTDOWN, Release
<1>5. ASSUME NEW s \in Service, HotSwap(s)
      PROVE  freed' = freed \cup (Owned(processors, serving) \ Owned(processors', serving'))
  BY <1>5 DEF HotSwap, Register, Release
<1>6. CASE RegisterNext
  BY <1>6 DEF RegisterNext, Register, Release
<1>7. \/ UNCHANGED <<processors, serving, freed>>
      \/ \E s \in Service : Serve(s) \/ HotSwap(s)
      \/ Served \/ MSHUTDOWN \/ RegisterNext
  <2>1. Deployer \/ UNCHANGED vars => UNCHANGED <<processors, serving, freed>>
    BY DeployerAside DEF registry
  <2> QED
    BY <2>1 DEF Next, Scan, SkipEntry, NextEntry, load_plugin, MINIT, RINITAgain, RINITScan,
                RINITNoDir, EndScan, EndRequest, CloseNext, Closed, registry
<1> QED
  BY <1>1, <1>2, <1>3, <1>4, <1>5, <1>6, <1>7

\* A process that is closing its libraries goes on doing so.
LEMMA ClosesForGood ==
  ASSUME HostInv, [Next]_vars
  PROVE  stage \in {"closing", "gone"} => stage' \in {"closing", "gone"}
<1>1. Deployer \/ UNCHANGED vars => stage' = stage
  BY DeployerAside
<1> QED
  BY <1>1 DEF Next, Scan, SkipEntry, NextEntry, load_plugin, MINIT, RINITAgain, RINITScan, RINITNoDir,
              StartRequest, EndScan, EndRequest, CloseNext, Closed, RegisterNext, Serve, HotSwap,
              Served, MSHUTDOWN

\* A step that makes no block.
LEMMA NoNewBlock ==
  ASSUME HostInv, OwnerInv, [Next]_vars,
         Owned(processors', serving') \subseteq Owned(processors, serving)
  PROVE  Known' \subseteq Known /\ OneBlockEach' /\ Apart'
<1>1. freed' = freed \cup (Owned(processors, serving) \ Owned(processors', serving'))
  BY FreedGrows
<1>2. Known' \subseteq Known
  BY <1>1 DEF Known
<1>3. Apart'
  BY <1>1 DEF OwnerInv, Apart
<1>4. OneBlockEach'
  BY <1>2 DEF OwnerInv, OneBlockEach
<1> QED
  BY <1>2, <1>3, <1>4

\* A step that makes the block b of a processor that is not known yet.
LEMMA NewBlock ==
  ASSUME HostInv, OwnerInv, [Next]_vars,
         NEW b \in Block, b.nr = blocks + 1, blocks' = blocks + 1,
         b.load = 0 => b.object = b.nr,
         Owned(processors', serving') \subseteq Owned(processors, serving) \cup {b},
         \A c \in Known : ~SameProcessor(b, c)
  PROVE  Known' \subseteq Known \cup {b} /\ Numbered' /\ OneBlockEach' /\ Apart'
<1>1. freed' = freed \cup (Owned(processors, serving) \ Owned(processors', serving'))
  BY FreedGrows
<1>2. Known' \subseteq Known \cup {b}
  BY <1>1 DEF Known
<1>3. \A c \in Known : c.nr \in Nat /\ c.nr <= blocks
  BY KnownAreBlocks DEF HostInv, OwnerInv, Numbered
<1>4. blocks \in Nat
  BY DEF HostInv, TypeOK
<1>5. b \notin Known
  BY <1>3, <1>4
<1>6. Apart'
  BY <1>1, <1>5 DEF OwnerInv, Apart, Known
<1>7. Numbered'
  BY <1>2, <1>3, <1>4 DEF OwnerInv, Numbered
<1>8. \A c \in Known : ~SameProcessor(c, b)
  BY DEF SameProcessor
<1>9. OneBlockEach'
  BY <1>2, <1>8 DEF OwnerInv, OneBlockEach
<1> QED
  BY <1>2, <1>6, <1>7, <1>9

LEMMA OwnerStep ==
  ASSUME HostInv, HostInv', OwnerInv, DistinctObjects, [Next]_vars
  PROVE  OwnerInv'
<1>0. TypeOK /\ Stages /\ CallsOfLast /\ Stages'
  BY DEF HostInv
<1>1. CASE RegisterNext
  <2> DEFINE n == Len(plugin_handles)
             lib == plugin_handles[n]
             object == Head(calls).object
             b == [nr |-> blocks + 1, lib |-> lib, load |-> n, object |-> object]
  <2>1. calls # << >> /\ calls' = Tail(calls) /\ plugin_handles' = plugin_handles
        /\ stage' = stage /\ serving' = serving
    BY <1>1 DEF RegisterNext
  <2>2. Register(Head(calls).service, lib, n, object)
    BY <1>1 DEF RegisterNext
  <2>3. n \in Nat /\ n > 0 /\ lib \in Image /\ object \in Nat /\ Head(calls).service \in Service
    BY <1>0, <2>1, CallerKnown
  <2>4. DOMAIN calls = 1 .. Len(calls) /\ Len(calls) \in Nat /\ Len(calls) > 0
        /\ object = calls[1].object
        /\ DOMAIN calls' = 1 .. Len(calls) - 1
        /\ \A i \in 1 .. Len(calls) - 1 : calls'[i] = calls[i + 1]
    BY <1>0, <2>1, HeadAndTail DEF TypeOK
  <2>5. b \in Block /\ b.nr = blocks + 1 /\ b.load = n /\ b.object = object
    BY <1>0, <2>3 DEF Block, TypeOK
  <2>6. blocks' = blocks + 1
    BY <2>2 DEF Register
  <2> HIDE DEF n, lib, object
  <2>7. Owned(processors', serving') \subseteq Owned(processors, serving) \cup {b}
    BY <1>0, <2>1, <2>2, <2>3, RegisterOwns
  <2> HIDE DEF b
  <2>8. \A c \in Known : ~SameProcessor(b, c)
    BY <2>4, <2>5 DEF OwnerInv, Untaken, SameProcessor, n
  <2>9. Known' \subseteq Known \cup {b} /\ Numbered' /\ OneBlockEach' /\ Apart'
    BY <2>3, <2>5, <2>6, <2>7, <2>8, NewBlock
  <2>10. OfPastLoads'
    BY <2>1, <2>3, <2>5, <2>9 DEF OwnerInv, OfPastLoads, n
  <2>11. Untaken'
    <3> SUFFICES ASSUME NEW i \in DOMAIN calls'
                 PROVE  /\ \A c \in Known' : c.load = n => c.object # calls'[i].object
                        /\ \A j \in DOMAIN calls' :
                             calls'[j].object = calls'[i].object => i = j
      BY <2>1 DEF Untaken, n
    <3>1. i \in Nat /\ 1 \in DOMAIN calls /\ i + 1 \in DOMAIN calls /\ i + 1 # 1
          /\ calls'[i] = calls[i + 1]
      BY <2>4
    <3>2. calls[i + 1].object # object
      BY <2>4, <3>1 DEF OwnerInv, Untaken
    <3>3. \A c \in Known : c.load = n => c.object # calls[i + 1].object
      BY <3>1 DEF OwnerInv, Untaken, n
    <3>4. \A j \in DOMAIN calls' :
            j \in Nat /\ j + 1 \in DOMAIN calls /\ calls'[j] = calls[j + 1]
      BY <2>4
    <3>5. \A j \in DOMAIN calls' : calls'[j].object = calls'[i].object => i = j
      BY <3>1, <3>4 DEF OwnerInv, Untaken
    <3> QED
      BY <2>5, <2>9, <3>1, <3>2, <3>3, <3>5
  <2> QED
    BY <2>9, <2>10, <2>11 DEF OwnerInv
<1>2. ASSUME NEW s \in Service, HotSwap(s)
      PROVE  OwnerInv'
  <2> DEFINE b == [nr |-> blocks + 1, lib |-> serving.lib, load |-> 0, object |-> blocks + 1]
  <2>1. Register(s, serving.lib, 0, blocks + 1) /\ serving' = serving /\ stage' = stage
        /\ stage = "serving" /\ UNCHANGED <<plugin_handles, calls>>
    BY <1>2 DEF HotSwap
  <2>2. serving.lib \in Image /\ blocks \in Nat /\ blocks + 1 \in Nat
    BY <1>0, <2>1 DEF Block, Stages, TypeOK
  <2>3. b \in Block /\ b.nr = blocks + 1 /\ b.load = 0 /\ b.object = blocks + 1
    BY <2>2 DEF Block
  <2>4. blocks' = blocks + 1
    BY <2>1 DEF Register
  <2>5. Owned(processors', serving') \subseteq Owned(processors, serving) \cup {b}
    BY <1>0, <2>1, <2>2, RegisterOwns
  <2> HIDE DEF b
  <2>6. \A c \in Known : c.nr \in Nat /\ c.nr <= blocks /\ (c.load = 0 => c.object = c.nr)
    BY <1>0, KnownAreBlocks DEF OwnerInv, Numbered
  <2>7. \A c \in Known : ~SameProcessor(b, c)
    BY <2>2, <2>3, <2>6 DEF SameProcessor
  <2>8. Known' \subseteq Known \cup {b} /\ Numbered' /\ OneBlockEach' /\ Apart'
    BY <2>3, <2>4, <2>5, <2>7, NewBlock
  <2>9. Len(plugin_handles) \in Nat
    BY <1>0 DEF TypeOK
  <2>10. OfPastLoads'
    BY <2>1, <2>3, <2>8, <2>9 DEF OwnerInv, OfPastLoads
  <2>11. calls' = << >>
    BY <1>0, <2>1 DEF Stages
  <2>12. Untaken'
    BY <2>11 DEF Untaken
  <2> QED
    BY <2>8, <2>10, <2>12 DEF OwnerInv
<1>3. CASE Owned(processors', serving') \subseteq Owned(processors, serving)
           /\ ~RegisterNext /\ ~\E s \in Service : HotSwap(s)
  <2>1. Known' \subseteq Known /\ OneBlockEach' /\ Apart'
    BY <1>3, NoNewBlock
  <2>2. blocks' = blocks
    <3>1. Deployer \/ UNCHANGED vars => blocks' = blocks
      BY DeployerAside DEF registry
    <3> QED
      BY <1>3, <3>1
      DEF Next, Scan, SkipEntry, NextEntry, load_plugin, MINIT, RINITAgain, RINITScan, RINITNoDir,
          EndScan, EndRequest, CloseNext, Closed, Serve, Served, MSHUTDOWN, registry
  <2>3. Numbered'
    BY <2>1, <2>2 DEF OwnerInv, Numbered
  <2>4. ASSUME NEW f \in File, load_plugin(f)
        PROVE  OfPastLoads' /\ Untaken'
    <3> DEFINE lib == ImageOf[f]
    <3>1. lib \in Image /\ plugin_handles' = Append(plugin_handles, lib)
          /\ stage = "scanning" /\ stage' = stage
      BY <2>4 DEF load_plugin, NextEntry, KeptHandles, Image
    <3>2. Len(plugin_handles) \in Nat /\ Len(plugin_handles') = Len(plugin_handles) + 1
      BY <1>0, <3>1 DEF TypeOK
    <3>3. \A b \in Known' : b.load \in Nat /\ b.load <= Len(plugin_handles)
      BY <1>0, <2>1, <3>1, KnownAreBlocks DEF OwnerInv, OfPastLoads
    <3>4. OfPastLoads'
      BY <3>2, <3>3 DEF OfPastLoads
    <3>5. calls' = Offers[lib] \/ calls' = << >>
      BY <2>4 DEF load_plugin
    <3>6. \A i, j \in DOMAIN calls' : calls'[j].object = calls'[i].object => i = j
      BY <3>1, <3>5 DEF DistinctObjects
    <3>7. \A b \in Known' : b.load # Len(plugin_handles')
      BY <3>2, <3>3
    <3>8. Untaken'
      BY <3>6, <3>7 DEF Untaken
    <3> QED
      BY <3>4, <3>8
  <2>5. CASE CloseNext
    <3>1. stage' = "closing"
      BY <2>5 DEF CloseNext
    <3>2. calls' = << >>
      BY <1>0, <3>1 DEF Stages
    <3> QED
      BY <3>1, <3>2, <2>1, <2>3 DEF OwnerInv, OfPastLoads, Untaken
  <2>6. CASE UNCHANGED plugin_handles /\ (calls' = calls \/ calls' = << >>)
    <3>1. OfPastLoads'
      BY <2>1, <2>6, ClosesForGood DEF OwnerInv, OfPastLoads
    <3>2. Untaken'
      BY <2>1, <2>6 DEF OwnerInv, Untaken
    <3> QED
      BY <2>1, <2>3, <3>1, <3>2 DEF OwnerInv
  <2>7. \/ \E f \in File : load_plugin(f)
        \/ CloseNext
        \/ UNCHANGED plugin_handles /\ (calls' = calls \/ calls' = << >>)
    <3>1. Deployer \/ UNCHANGED vars => UNCHANGED <<plugin_handles, calls>>
      BY DeployerAside DEF registry
    <3> QED
      BY <1>3, <3>1
      DEF Next, Scan, SkipEntry, MINIT, RINITAgain, RINITScan, RINITNoDir,
          EndScan, EndRequest, Closed, Serve, Served, MSHUTDOWN, registry
  <2> QED
    BY <2>1, <2>3, <2>4, <2>5, <2>6, <2>7 DEF OwnerInv
<1> QED
  BY <1>1, <1>2, <1>3, OwnedShrinks

-----------------------------------------------------------------------------
\* The theorems.

\* All variables keep their types, counts of handles included: no library is
\* closed more often than it was opened.
THEOREM HostTypeCorrect == Spec => []TypeOK
BY HostInvariant, PTL DEF HostInv

\* A process that has shut down has closed every library it opened, those
\* without an entry point too.
THEOREM ClosesAllLibraries == Spec => []NothingLeftMapped
<1>1. HostInv => NothingLeftMapped
  BY CountEmpty DEF HostInv, Stages, Counted, NothingLeftMapped
<1> QED
  BY <1>1, HostInvariant, PTL

\* The scan loads every plugin that was whole in the directory from its start
\* to its end, whatever the deployer did meanwhile, and gives each service to
\* the last of those that register it.
THEOREM ScanLoadsAll == Spec => ScanComplete
<1> DEFINE Complete ==
      stage = "scanning" /\ stage' = "script" =>
       /\ \A f \in steady \cap SoNamed \cap Loadable :
            \E i \in DOMAIN plugin_handles : plugin_handles[i] = ImageOf[f]
       /\ \A s \in Service :
            LET from == {i \in DOMAIN plugin_handles : Registers(plugin_handles[i], s)}
            IN  IF from = {} THEN processors[s] = NULL
                ELSE /\ processors[s] # NULL
                     /\ processors[s].load \in from
                     /\ \A i \in from : i <= processors[s].load
<1>1. ASSUME HostInv, [Next]_vars
      PROVE  Complete
  <2> SUFFICES ASSUME stage = "scanning", stage' = "script"
               PROVE  /\ \A f \in steady \cap SoNamed \cap Loadable :
                           \E i \in DOMAIN plugin_handles : plugin_handles[i] = ImageOf[f]
                      /\ \A s \in Service :
                           LET from == {i \in DOMAIN plugin_handles :
                                          Registers(plugin_handles[i], s)}
                           IN  IF from = {} THEN processors[s] = NULL
                               ELSE /\ processors[s] # NULL
                                    /\ processors[s].load \in from
                                    /\ \A i \in from : i <= processors[s].load
    OBVIOUS
  <2>1. EndScan
    <3>1. Deployer \/ UNCHANGED vars => stage' = stage
      BY DeployerAside
    <3> QED
      BY <1>1, <3>1
      DEF Next, Scan, SkipEntry, NextEntry, load_plugin, MINIT, RINITAgain, RINITScan, RINITNoDir,
          StartRequest, EndRequest, CloseNext, Closed, RegisterNext, Serve, HotSwap, Served,
          MSHUTDOWN
  <2>2. calls = << >> /\ steady \subseteq seen
    BY <1>1, <2>1 DEF EndScan, MayEnd, HostInv, OpenedSoFar
  <2>3. \A s \in Service : ~Pending(s)
    BY <2>2 DEF Pending
  <2>4. \A f \in steady \cap SoNamed \cap Loadable :
          \E i \in DOMAIN plugin_handles : plugin_handles[i] = ImageOf[f]
    BY <1>1, <2>2 DEF HostInv, OpenedSoFar
  <2>5. ASSUME NEW s \in Service
        PROVE  /\ processors[s] # NULL =>
                    /\ processors[s].load \in DOMAIN plugin_handles
                    /\ Registers(plugin_handles[processors[s].load], s)
               /\ \A i \in DOMAIN plugin_handles :
                    Registers(plugin_handles[i], s) =>
                      processors[s] # NULL /\ i <= processors[s].load
    BY <1>1, <2>3, <2>5 DEF HostInv, LastHasName
  <2> QED
    BY <2>4, <2>5
<1>2. HostInv /\ [Next]_vars => [Complete]_vars
  BY <1>1
<1> QED
  BY <1>2, HostInvariant, PTL DEF Spec, ScanComplete

\* Once the process is initialized, only a plugin that serves gives a service to
\* another library, to itself, and none is taken away before the shutdown.
THEOREM RegistryStays == Spec => RegistryFrozen
<1> DEFINE OwnDoing(s) ==
             LibraryOf(s)' # LibraryOf(s) =>
               /\ stage = "serving" /\ stage' = "serving"
               /\ LibraryOf(s)' = serving.lib
           Frozen ==
             core_initialized /\ stage' # "closing" => \A s \in Service : OwnDoing(s)
<1>1. ASSUME HostInv, [Next]_vars
      PROVE  Frozen
  <2> SUFFICES ASSUME core_initialized, stage' # "closing"
               PROVE  \A s \in Service : OwnDoing(s)
    OBVIOUS
  <2>1. CASE UNCHANGED processors
    BY <2>1 DEF LibraryOf
  <2>2. ASSUME NEW s \in Service, HotSwap(s)
        PROVE  \A t \in Service : OwnDoing(t)
    <3>1. /\ Register(s, serving.lib, 0, blocks + 1)
          /\ stage = "serving" /\ stage' = "serving"
      BY <2>2 DEF HotSwap
    <3>2. serving.lib \in Image /\ blocks + 1 \in Nat
      BY <1>1, <2>2 DEF HotSwap, HostInv, Stages, TypeOK, Block
    <3>3. /\ processors'[s] # NULL
          /\ processors'[s] = [nr |-> blocks + 1, lib |-> serving.lib, load |-> 0,
                               object |-> blocks + 1]
          /\ \A t \in Service \ {s} : processors'[t] = processors[t]
      BY <1>1, <3>1, <3>2, RegisterGives DEF HostInv
    <3>4. processors'[s].lib = serving.lib
      BY <3>3
    <3> QED
      BY <3>1, <3>3, <3>4 DEF LibraryOf
  <2>3. UNCHANGED processors \/ \E s \in Service : HotSwap(s)
    <3>1. Deployer \/ UNCHANGED vars => UNCHANGED processors
      BY DeployerAside DEF registry
    <3>2. ~RegisterNext
      BY <1>1 DEF RegisterNext, HostInv, Stages
    <3> QED
      BY <1>1, <3>1, <3>2
      DEF Next, Scan, SkipEntry, NextEntry, load_plugin, MINIT, RINITAgain, RINITScan, RINITNoDir,
          EndScan, EndRequest, CloseNext, Closed, Serve, Served, MSHUTDOWN, registry
  <2> QED
    BY <2>1, <2>2, <2>3
<1>2. HostInv /\ [Next]_vars => [Frozen]_vars
  BY <1>1
<1> QED
  BY <1>2, HostInvariant, PTL DEF Spec, RegistryFrozen

\* If no plugin registers an object twice, a processor in the registry or in
\* use is alive, its code is mapped, and none is deleted twice: whatever names
\* plugins compete for, however a plugin replaces its processors while it
\* serves, and at shutdown.
THEOREM ProcessorsStayLive ==
  ASSUME DistinctObjects
  PROVE  Spec => []ProcessorsLive
<1>1. Init => OwnerInv
  BY DEF Init, OwnerInv, Numbered, OfPastLoads, Untaken, OneBlockEach, Apart, Known, Owned,
         ServingOwns
<1>2. HostInv /\ HostInv' /\ OwnerInv /\ [Next]_vars => OwnerInv'
  BY OwnerStep
<1>3. HostInv /\ OwnerInv => ProcessorsLive
  <2> SUFFICES ASSUME HostInv, OwnerInv
               PROVE  ProcessorsLive
    OBVIOUS
  <2>1. ASSUME NEW b \in Owned(processors, serving)
        PROVE  mapped[b.lib] > 0
    <3>1. PICK i \in DOMAIN plugin_handles : plugin_handles[i] = b.lib
      BY DEF HostInv, CodeMapped
    <3>2. plugin_handles \in Seq(Image) /\ i \in 1 .. Len(plugin_handles)
      BY DEF HostInv, TypeOK
    <3>3. b.lib \in Image
      BY <3>1, <3>2
    <3> QED
      BY <3>1, <3>2, <3>3, CountPositive DEF HostInv, Counted
  <2>2. \A b \in Owned(processors, serving) : \A c \in freed : ~SameProcessor(b, c)
    BY DEF OwnerInv, OneBlockEach, Apart, Known
  <2>3. \A b, c \in freed : SameProcessor(b, c) => b = c
    BY DEF OwnerInv, OneBlockEach, Known
  <2>4. {serving} \ {NULL} \subseteq Owned(processors, serving)
    BY DEF Owned, ServingOwns
  <2> QED
    BY <2>1, <2>2, <2>3, <2>4 DEF ProcessorsLive
<1> QED
  BY <1>1, <1>2, <1>3, HostInvariant, PTL DEF Spec

=============================================================================
