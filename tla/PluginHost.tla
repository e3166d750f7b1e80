---------------------------- MODULE PluginHost ----------------------------
(***************************************************************************)
(* One PHP process with the thrift_bridge extension: module and request    *)
(* start-up and shutdown, the scan of the plugin directory, the registry   *)
(* of processors (ProcessorFactory) and the libraries they live in.        *)
(*                                                                         *)
(* Everything in the process runs on one thread.  A deployer works on the  *)
(* plugin directories at the same time: it copies files in, which takes    *)
(* time, and removes them.  Names that register on the same service name   *)
(* and two names of one library are allowed.                               *)
(***************************************************************************)
EXTENDS Integers, Sequences, FiniteSets

CONSTANTS
  Dir,          \* paths plugin_dir may be set to
  DefaultDir,   \* "./plugins"
  Unreadable,   \* those opendir fails on although they exist
  File,         \* the files a deployer may put there
  DirOf,        \* the directory of each file
  SoNamed,      \* the files whose name ends in ".so" and is longer than that
  Loadable,     \* the files dlopen accepts once they are whole
  ImageOf,      \* the library a file is: two names may be one library
  HasRegister,  \* the libraries that export register_thrift_processors
  Offers,       \* for each library, what that function registers, in order:
                \* records of a service name and the number of the object
  Service,      \* service names
  NULL,
  MaxChanges,   \* bound: what the deployer does
  MaxHotSwaps   \* bound: processors a plugin registers while serving

Image == {ImageOf[f] : f \in File}

\* A shared_ptr control block and the processor it deletes: object nr of the
\* library, made in its load-th load.
Block == [nr : Nat, lib : Image, load : Nat, object : Nat]

ASSUME PluginAssumption ==
  /\ DefaultDir \in Dir /\ NULL \notin Dir /\ Unreadable \subseteq Dir
  /\ DirOf \in [File -> Dir]
  /\ SoNamed \subseteq File /\ Loadable \subseteq File
  /\ HasRegister \subseteq Image
  /\ Offers \in [Image -> Seq([service : Service, object : Nat])]
  /\ NULL \notin Block /\ MaxChanges \in Nat

VARIABLES
  stage,             \* where the process is
  core_initialized, plugin_handles,
  processors,        \* for each service, the control block it holds, or NULL
  mapped,            \* for each library, the dlopen calls not undone
  calls,             \* registrations a plugin has still to make
  serving,           \* the block process_thrift_data_generic holds, or NULL
  freed,             \* the control blocks whose count has dropped to zero
  blocks,            \* the number of control blocks made
  plugin_dir,        \* the INI setting in the present request
  file,              \* for each file: absent, partial or whole
  dirs,              \* the directories that exist
  changes,           \* the number of changes the deployer has made
  seen,              \* the files readdir has returned
  appeared,          \* the files there at some time since opendir
  steady             \* the files of plugin_dir whole ever since RINIT

registry == <<plugin_handles, processors, mapped, calls, serving, freed, blocks>>
scan == <<seen, appeared>>
disk == <<file, dirs, changes>>
vars == <<stage, core_initialized, registry, plugin_dir, disk, scan, steady>>

SameProcessor(b, c) == b.lib = c.lib /\ b.load = c.load /\ b.object = c.object

Init ==
  /\ stage = "off" /\ core_initialized = FALSE
  /\ plugin_handles = << >> /\ calls = << >> /\ serving = NULL
  /\ processors = [s \in Service |-> NULL]
  /\ mapped = [l \in Image |-> 0]
  /\ freed = {} /\ blocks = 0
  /\ plugin_dir = NULL
  /\ dirs \in SUBSET Dir
  /\ file \in [File -> {"absent", "whole"}]
  /\ \A f \in File : file[f] = "whole" => DirOf[f] \in dirs
  /\ changes = 0
  /\ seen = {} /\ appeared = {} /\ steady = {}

-----------------------------------------------------------------------------
\* The deployer.

Change ==
  /\ changes < MaxChanges
  /\ changes' = changes + 1
  /\ UNCHANGED <<stage, core_initialized, registry, plugin_dir, seen>>

MakeDir(d) ==
  /\ Change
  /\ d \notin dirs /\ dirs' = dirs \cup {d}
  /\ UNCHANGED <<file, appeared, steady>>

StartCopy(f) ==
  /\ Change
  /\ file[f] = "absent" /\ DirOf[f] \in dirs
  /\ file' = [file EXCEPT ![f] = "partial"]
  /\ appeared' = IF stage = "scanning" THEN appeared \cup {f} ELSE appeared
  /\ UNCHANGED <<dirs, steady>>

FinishCopy(f) ==
  /\ file[f] = "partial"
  /\ file' = [file EXCEPT ![f] = "whole"]
  /\ UNCHANGED <<stage, core_initialized, registry, plugin_dir, dirs, changes, scan, steady>>

Remove(f) ==
  /\ Change
  /\ file[f] # "absent"
  /\ file' = [file EXCEPT ![f] = "absent"]
  /\ steady' = steady \ {f}
  /\ UNCHANGED <<dirs, appeared>>

-----------------------------------------------------------------------------
\* Ownership of processors.

\* Faulty variant: getProcessor hands out a raw pointer.
ServingOwnsNothing(b) == {}

\* getProcessor returns a shared_ptr: the call that is served owns its block.
ServingOwns(b) == {b} \ {NULL}

Owned(table, b) == ({table[s] : s \in Service} \ {NULL}) \cup ServingOwns(b)

\* Blocks that lose their last owner delete their processor.
Release(table, b) == freed' = freed \cup (Owned(processors, serving) \ Owned(table, b))

\* Faulty variant: std::map::insert keeps what a name has.
TableFirstWins(service, b) ==
  IF processors[service] # NULL THEN processors ELSE [processors EXCEPT ![service] = b]

\* registerProcessor: the last to register a name has it.
TableWith(service, b) == [processors EXCEPT ![service] = b]

\* staticRegisterCallback: a new control block for the pointer the plugin
\* passes takes the place of what the name had.
Register(service, lib, load, object) ==
  LET b == [nr |-> blocks + 1, lib |-> lib, load |-> load, object |-> object]
  IN  /\ processors' = TableWith(service, b)
      /\ blocks' = blocks + 1
      /\ Release(processors', serving)

-----------------------------------------------------------------------------
\* Start of the module and of requests.

MINIT ==
  /\ stage = "off" /\ stage' = "idle"
  /\ UNCHANGED <<core_initialized, registry, plugin_dir, disk, scan, steady>>

WholeIn(d) == {f \in File : DirOf[f] = d /\ file[f] = "whole"}
EntriesOf(d) == {f \in File : DirOf[f] = d /\ file[f] # "absent"}

Path(d) == IF d = NULL THEN DefaultDir ELSE d

CanOpen(d) == d \in dirs \ Unreadable

\* RINIT with plugin_dir set to d.
StartRequest(d) ==
  /\ stage = "idle"
  /\ plugin_dir' = d
  /\ steady' = WholeIn(Path(d))

\* Faulty variant: every request scans the directory.
NeedsScanAlways == TRUE

\* initialize_core_lib returns at once in every request but the first.
NeedsScan == ~core_initialized

RINITAgain(d) ==
  /\ ~NeedsScan /\ StartRequest(d)
  /\ stage' = "script"
  /\ UNCHANGED <<core_initialized, registry, disk, scan>>

RINITScan(d) ==
  /\ NeedsScan /\ StartRequest(d)
  /\ CanOpen(Path(d))
  /\ stage' = "scanning"
  /\ seen' = {} /\ appeared' = EntriesOf(Path(d))
  /\ UNCHANGED <<core_initialized, registry, disk>>

\* opendir fails, on a missing directory or with another error: the process
\* goes on without a plugin and counts as initialized.
RINITNoDir(d) ==
  /\ NeedsScan /\ StartRequest(d)
  /\ ~CanOpen(Path(d))
  /\ core_initialized' = TRUE
  /\ stage' = "script"
  /\ UNCHANGED <<registry, disk, scan>>

-----------------------------------------------------------------------------
\* The scan.

\* Each pass of the loop asks readdir for the next entry.
SeenWith(f) == seen \cup {f}

\* readdir returns an entry it has not returned yet, one added or removed
\* since opendir too; names that are not plugins are skipped.
NextEntry(f) ==
  /\ stage = "scanning" /\ calls = << >>
  /\ f \in appeared \ seen
  /\ seen' = SeenWith(f)
  /\ UNCHANGED <<stage, core_initialized, processors, serving, freed, blocks,
                 plugin_dir, disk, appeared, steady>>

Opens(f) == f \in SoNamed /\ f \in Loadable /\ file[f] = "whole"

SkipEntry(f) ==
  /\ NextEntry(f) /\ ~Opens(f)
  /\ UNCHANGED <<plugin_handles, mapped, calls>>

\* Faulty variant: the handle is kept once the entry point is found.
KeptHandlesOfPlugins(lib) ==
  IF lib \in HasRegister THEN Append(plugin_handles, lib) ELSE plugin_handles

\* load_plugin: the handle is kept before the entry point is looked up.
KeptHandles(lib) == Append(plugin_handles, lib)

load_plugin(f) ==
  /\ NextEntry(f) /\ Opens(f)
  /\ LET lib == ImageOf[f]
     IN  /\ mapped' = [mapped EXCEPT ![lib] = @ + 1]
         /\ plugin_handles' = KeptHandles(lib)
         /\ calls' = IF lib \in HasRegister THEN Offers[lib] ELSE << >>

\* The plugin's register function registers its next processor.
RegisterNext ==
  /\ stage = "scanning" /\ calls # << >>
  /\ LET n == Len(plugin_handles)
     IN  Register(Head(calls).service, plugin_handles[n], n, Head(calls).object)
  /\ calls' = Tail(calls)
  /\ UNCHANGED <<stage, core_initialized, plugin_handles, mapped, serving,
                 plugin_dir, disk, scan, steady>>

\* readdir may end once it has returned every file there all the time.
MayEnd == appeared \cap steady \subseteq seen

EndScan ==
  /\ stage = "scanning" /\ calls = << >> /\ MayEnd
  /\ core_initialized' = TRUE
  /\ stage' = "script"
  /\ seen' = {} /\ appeared' = {}
  /\ UNCHANGED <<registry, plugin_dir, disk, steady>>

-----------------------------------------------------------------------------
\* Scripts and shutdown.

\* A flush of a transport for service s; without a processor it changes nothing.
Serve(s) ==
  /\ stage = "script" /\ core_initialized
  /\ processors[s] # NULL
  /\ serving' = processors[s]
  /\ stage' = "serving"
  /\ UNCHANGED <<core_initialized, plugin_handles, processors, mapped, calls, freed,
                 blocks, plugin_dir, disk, scan, steady>>

\* The plugin that serves kept the callback and registers a new processor, under
\* a name of its own, a name of another's or one that nobody had.
HotSwap(s) ==
  /\ stage = "serving"
  /\ Cardinality({b \in freed \cup Owned(processors, serving) : b.load = 0}) < MaxHotSwaps
  /\ Register(s, serving.lib, 0, blocks + 1)
  /\ UNCHANGED <<stage, core_initialized, plugin_handles, mapped, calls, serving,
                 plugin_dir, disk, scan, steady>>

Served ==
  /\ stage = "serving"
  /\ serving' = NULL
  /\ Release(processors, NULL)
  /\ stage' = "script"
  /\ UNCHANGED <<core_initialized, plugin_handles, processors, mapped, calls, blocks,
                 plugin_dir, disk, scan, steady>>

EndRequest ==
  /\ stage = "script" /\ stage' = "idle"
  /\ steady' = {}
  /\ UNCHANGED <<core_initialized, registry, plugin_dir, disk, scan>>

\* global_factory.clean() comes before any handle is closed.
MSHUTDOWN ==
  /\ stage = "idle" /\ stage' = "closing"
  /\ processors' = [s \in Service |-> NULL]
  /\ Release(processors', serving)
  /\ UNCHANGED <<core_initialized, plugin_handles, mapped, calls, serving, blocks,
                 plugin_dir, disk, scan, steady>>

\* Faulty variant: a handle that is closed is closed again.
HandlesUncleared == plugin_handles

\* The loop over plugin_handles: the sequence holds those still to be closed.
HandlesLeft == Tail(plugin_handles)

CloseNext ==
  /\ stage = "closing" /\ plugin_handles # << >>
  /\ mapped' = [mapped EXCEPT ![Head(plugin_handles)] = @ - 1]
  /\ plugin_handles' = HandlesLeft
  /\ UNCHANGED <<stage, core_initialized, processors, calls, serving, freed, blocks,
                 plugin_dir, disk, scan, steady>>

Closed ==
  /\ stage = "closing" /\ plugin_handles = << >>
  /\ stage' = "gone"
  /\ UNCHANGED <<core_initialized, registry, plugin_dir, disk, scan, steady>>

-----------------------------------------------------------------------------

Deployer ==
  \/ \E d \in Dir : MakeDir(d)
  \/ \E f \in File : StartCopy(f) \/ FinishCopy(f) \/ Remove(f)

Scan == \/ \E f \in File : SkipEntry(f) \/ load_plugin(f)
        \/ RegisterNext \/ EndScan

Next ==
  \/ Deployer
  \/ MINIT
  \/ \E d \in Dir \cup {NULL} : RINITAgain(d) \/ RINITScan(d) \/ RINITNoDir(d)
  \/ Scan
  \/ \E s \in Service : Serve(s) \/ HotSwap(s)
  \/ Served \/ EndRequest
  \/ MSHUTDOWN \/ CloseNext \/ Closed

Spec == Init /\ [][Next]_vars

-----------------------------------------------------------------------------

TypeOK ==
  /\ stage \in {"off", "idle", "scanning", "script", "serving", "closing", "gone"}
  /\ core_initialized \in BOOLEAN
  /\ plugin_handles \in Seq(Image)
  /\ processors \in [Service -> Block \cup {NULL}]
  /\ mapped \in [Image -> Nat]
  /\ calls \in Seq([service : Service, object : Nat])
  /\ serving \in Block \cup {NULL}
  /\ freed \subseteq Block /\ blocks \in Nat
  /\ plugin_dir \in Dir \cup {NULL}
  /\ file \in [File -> {"absent", "partial", "whole"}]
  /\ dirs \subseteq Dir /\ changes \in 0..MaxChanges
  /\ seen \subseteq File /\ appeared \subseteq File /\ steady \subseteq File

\* A processor in the registry or in use is alive and its code is mapped, and
\* no processor is deleted twice: not when a later plugin takes its name, not
\* when its own plugin replaces it while it serves, not at shutdown.
ProcessorsLive ==
  /\ \A b \in Owned(processors, serving) \cup ({serving} \ {NULL}) :
       /\ mapped[b.lib] > 0
       /\ \A c \in freed : ~SameProcessor(b, c)
  /\ \A b, c \in freed : SameProcessor(b, c) => b = c

\* What a scan ends with: every plugin whole in the directory from start to
\* end has been loaded whatever the deployer did meanwhile, and each service
\* belongs to the last plugin loaded that registers it.
Registers(lib, s) == lib \in HasRegister /\ \E i \in DOMAIN Offers[lib] : Offers[lib][i].service = s

ScanComplete ==
  [][stage = "scanning" /\ stage' = "script" =>
       /\ \A f \in steady \cap SoNamed \cap Loadable :
            \E i \in DOMAIN plugin_handles : plugin_handles[i] = ImageOf[f]
       /\ \A s \in Service :
            LET from == {i \in DOMAIN plugin_handles : Registers(plugin_handles[i], s)}
            IN  IF from = {} THEN processors[s] = NULL
                ELSE /\ processors[s] # NULL
                     /\ processors[s].load \in from
                     /\ \A i \in from : i <= processors[s].load]_vars

\* Once the process is initialized, a service stays until the shutdown, and only a
\* plugin that serves gives it to another library, namely to itself: no request and
\* nothing that is deployed or set in plugin_dir between requests changes what
\* scripts find.
LibraryOf(s) == IF processors[s] = NULL THEN NULL ELSE processors[s].lib

RegistryFrozen ==
  [][core_initialized /\ stage' # "closing" =>
       \A s \in Service :
         LibraryOf(s)' # LibraryOf(s) =>
           /\ stage = "serving" /\ stage' = "serving"
           /\ LibraryOf(s)' = serving.lib]_vars

\* A process that has shut down has closed every library it opened, those
\* without an entry point too.
NothingLeftMapped == stage = "gone" => \A l \in Image : mapped[l] = 0

\* What README.md says: the extension loads all services under plugin_dir.  A
\* script finds each service of the plugins that were in plugin_dir, whole,
\* when its request started and still are.
LoadsAllServices ==
  stage = "script" =>
    \A f \in steady \cap SoNamed \cap Loadable :
      \A s \in Service : Registers(ImageOf[f], s) => processors[s] # NULL
=============================================================================
