-------------------------- MODULE TransportObject --------------------------
(***************************************************************************)
(* The memory of ThriftBridgeTransport objects in one request: the counted *)
(* strings their fields refer to, the order of destruction, and what a     *)
(* fatal error in the middle of a method leaves behind (thrift_bridge.c).  *)
(*                                                                         *)
(* The Zend engine is modelled from how the handlers are used: new leaves  *)
(* the fields null until __construct has run, which a subclass need not    *)
(* call; dtor_obj is called once for an object, when its last reference    *)
(* goes, or when it is found in a cycle or at the end of the request, where*)
(* other objects still reach it; an object whose constructor threw, and    *)
(* every object there is at a fatal error, never gets it; shutdown         *)
(* functions run after a fatal error all the same, and the destructors of  *)
(* what they make.  An object is freed at the address of its zend_object   *)
(* less the offset in its handlers.  What the strings contain is in        *)
(* BridgeTransport.                                                        *)
(***************************************************************************)
EXTENDS Integers, FiniteSets

CONSTANTS
  Obj,       \* the transport objects a script makes
  Str,       \* counted strings, each allocated at most once
  Literal,   \* an interned string: a service name written in the script
  Empty,     \* ZSTR_EMPTY_ALLOC(), interned
  NULL,
  MaxCount   \* bound: the references to one string

ASSUME AddressAssumption ==
  /\ Literal # Empty /\ NULL # Empty /\ NULL # Literal
  /\ {Literal, Empty, NULL} \cap Str = {}
  /\ MaxCount \in Nat
  /\ IsFiniteSet(Obj)

VARIABLES
  phase,       \* for each object, where it is in its life
  field,       \* its serviceName, wBuf and rBuf
  owned,       \* the fields whose reference is the object's to release
  destructed,  \* the objects with IS_OBJ_DESTRUCTOR_CALLED
  misfreed,    \* the objects freed by an address inside their block, and not
               \* at its start, while nothing has been given that address
  refcount,    \* for each string, its count; 0 before it is allocated
  freed,       \* the strings whose count has dropped to zero
  held,        \* the strings the script itself has a reference to
  request,     \* "running", "bailed" out by a fatal error, "died" or "over"
  stray,       \* the method that used null or freed memory first, or NULL
  lost         \* history: for each string, the references dropped unreleased

strings == <<refcount, freed>>
vars == <<phase, field, owned, destructed, misfreed, strings, held, request, stray, lost>>

Field == {"serviceName", "wBuf", "rBuf"}
NoFields == [serviceName |-> NULL, wBuf |-> NULL, rBuf |-> NULL]

Init ==
  /\ phase = [o \in Obj |-> "none"]
  /\ field = [o \in Obj |-> NoFields]
  /\ owned = [o \in Obj |-> {}]
  /\ destructed = {} /\ misfreed = {}
  /\ refcount = [s \in Str |-> 0] /\ freed = {} /\ held = {}
  /\ request = "running" /\ stray = NULL
  /\ lost = [s \in Str |-> 0]

-----------------------------------------------------------------------------
\* Counted strings.  Interned ones and null are not counted.

Unused(s) == refcount[s] = 0 /\ s \notin freed

\* The references to s among the fields F of an object.
Uses(fields, F, s) == Cardinality({f \in F : fields[f] = s})

\* zend_string_release of each field in F of o, and fresh strings with a count
\* of one.
Recount(o, F, fresh) ==
  /\ \A s \in fresh : Unused(s)
  /\ refcount' = [s \in Str |-> IF s \in fresh THEN 1 ELSE refcount[s] - Uses(field[o], F, s)]
  /\ freed' = freed \cup {s \in Str : refcount[s] > 0 /\ refcount[s] = Uses(field[o], F, s)}

Sound(o, F) == \A f \in F : field[o][f] # NULL /\ field[o][f] \notin freed

\* PHP code runs and has a reference to o: a script, a constructor, a
\* destructor or a shutdown function.  Nothing is said of a process that has
\* used memory it should not.
Runs == request \in {"running", "bailed"} /\ stray = NULL

MayCall(o) == Runs /\ phase[o] \in {"created", "constructing", "live", "destructing"}

-----------------------------------------------------------------------------
\* The script's own strings.

MakeName(s) ==
  /\ request = "running" /\ Runs /\ held = {} /\ Unused(s)
  /\ refcount' = [refcount EXCEPT ![s] = 1]
  /\ held' = {s}
  /\ UNCHANGED <<phase, field, owned, destructed, misfreed, freed, request, stray, lost>>

DropName(s) ==
  /\ Runs /\ s \in held
  /\ held' = held \ {s}
  /\ refcount' = [refcount EXCEPT ![s] = @ - 1]
  /\ freed' = IF refcount[s] = 1 THEN freed \cup {s} ELSE freed
  /\ UNCHANGED <<phase, field, owned, destructed, misfreed, request, stray, lost>>

-----------------------------------------------------------------------------
\* Construction.

\* create_object: every field null.
Create(o) ==
  /\ Runs /\ phase[o] = "none"
  /\ phase' = [phase EXCEPT ![o] = "created"]
  /\ UNCHANGED <<field, owned, destructed, misfreed, strings, held, request, stray, lost>>

\* Faulty variant: the service name is kept without counting the reference.
NameKept(count, name) == count

\* zend_string_copy counts a reference, unless the string is interned.
NameCopied(count, name) == IF name \in Str THEN [count EXCEPT ![name] = @ + 1] ELSE count

FieldsOf(name) == [serviceName |-> name, wBuf |-> Empty, rBuf |-> Empty]

\* __construct: called by new, by a subclass, or again on an object that has run
\* it.  What the fields referred to is overwritten, not released.
Construct(o, name) ==
  /\ MayCall(o) /\ name \in held \cup {Literal}
  /\ name \in Str => refcount[name] < MaxCount
  /\ refcount' = NameCopied(refcount, name)
  /\ field' = [field EXCEPT ![o] = FieldsOf(name)]
  /\ lost' = [s \in Str |-> lost[s] + Uses(field[o], owned[o], s)]
  /\ owned' = [owned EXCEPT ![o] = Field]
  /\ phase' = [phase EXCEPT ![o] = IF @ = "created" THEN "constructing" ELSE @]
  /\ UNCHANGED <<destructed, misfreed, freed, held, request, stray>>

\* new is over; the constructor of a subclass need not have called ours.
Constructed(o) ==
  /\ Runs /\ phase[o] \in {"created", "constructing"}
  /\ phase' = [phase EXCEPT ![o] = "live"]
  /\ UNCHANGED <<field, owned, destructed, misfreed, strings, held, request, stray, lost>>

\* The constructor throws, ours for want of a service name or a subclass's
\* after it has called ours; a reference to the object may have been kept.
ConstructorThrows(o) ==
  /\ Runs /\ phase[o] \in {"created", "constructing"}
  /\ phase' = [phase EXCEPT ![o] = "live"]
  /\ destructed' = destructed \cup {o}
  /\ UNCHANGED <<field, owned, misfreed, strings, held, request, stray, lost>>

\* clone: the class installs no clone_obj, and the engine's makes a plain
\* object, not preceded by the members of the struct.
Clone(o, c) ==
  /\ MayCall(o) /\ phase[c] = "none"
  /\ phase' = [phase EXCEPT ![c] = "cloned"]
  /\ UNCHANGED <<field, owned, destructed, misfreed, strings, held, request, stray, lost>>

-----------------------------------------------------------------------------
\* Methods.

Write(o, s) ==
  /\ MayCall(o) /\ Sound(o, {"wBuf"})
  /\ Recount(o, {"wBuf"}, {s})
  /\ field' = [field EXCEPT ![o].wBuf = s]
  /\ owned' = [owned EXCEPT ![o] = @ \cup {"wBuf"}]
  /\ UNCHANGED <<phase, destructed, misfreed, held, request, stray, lost>>

\* Faulty variant: flush drops the request without releasing it.
ReleasesReplyOnly == {"rBuf"}

\* The strings flush releases when it has a reply.
ReleasedByFlush == {"rBuf", "wBuf"}

FlushAnswered(o, s) ==
  /\ MayCall(o) /\ Sound(o, Field)
  /\ Recount(o, ReleasedByFlush, {s})
  /\ field' = [field EXCEPT ![o].rBuf = s, ![o].wBuf = Empty]
  /\ owned' = [owned EXCEPT ![o] = @ \cup {"wBuf", "rBuf"}]
  /\ UNCHANGED <<phase, destructed, misfreed, held, request, stray, lost>>

\* A fatal error: the objects there are count as destructed, and what was running
\* is abandoned.
Fatal ==
  /\ request' = "bailed"
  /\ destructed' = destructed \cup {o \in Obj : phase[o] # "none"}

\* zend_string_init runs out of memory: rBuf has been released already.  (The
\* malloc'ed response, which only free() at the end would release, is not here.)
FlushBailsOut(o) ==
  /\ MayCall(o) /\ Sound(o, Field)
  /\ Recount(o, {"rBuf"}, {})
  /\ owned' = [owned EXCEPT ![o] = @ \ {"rBuf"}]
  /\ Fatal
  /\ UNCHANGED <<phase, field, misfreed, held, stray, lost>>

\* A fatal error elsewhere: in write's or read's allocation, before anything has
\* changed, or in other PHP code.
BailOut ==
  /\ Runs
  /\ Fatal
  /\ UNCHANGED <<phase, field, owned, misfreed, strings, held, stray, lost>>

\* The fields a method dereferences.
Needs(method) ==
  CASE method = "write" -> {"wBuf"}
    [] method = "read" -> {"rBuf"}
    [] method = "flush" -> {"serviceName", "wBuf"}
    [] method = "flush answered" -> Field

Method == {"write", "read", "flush", "flush answered"}

\* read tests rBuf for null.
TestedForNull(method) == IF method = "read" THEN {"rBuf"} ELSE {}

\* A method dereferences a null field: the process dies.
DereferenceNull(o, method) ==
  /\ MayCall(o)
  /\ \E f \in Needs(method) \ TestedForNull(method) : field[o][f] = NULL
  /\ request' = "died"
  /\ stray' = [obj |-> o, method |-> method]
  /\ UNCHANGED <<phase, field, owned, destructed, misfreed, strings, held, lost>>

\* A method uses a string that has been freed.
UseFreed(o, method) ==
  /\ MayCall(o) /\ \E f \in Needs(method) : field[o][f] \in freed
  /\ stray' = [obj |-> o, method |-> method]
  /\ UNCHANGED <<phase, field, owned, destructed, misfreed, strings, held, request, lost>>

\* A method runs on an object whose members are not in front of its zend_object,
\* or no longer its own.
UseForeign(o, method) ==
  /\ Runs /\ phase[o] \in {"cloned", "overlaid"}
  /\ stray' = [obj |-> o, method |-> method]
  /\ UNCHANGED <<phase, field, owned, destructed, misfreed, strings, held, request, lost>>

-----------------------------------------------------------------------------
\* Destruction.

\* The fields dtor_object releases; they are not set to null.
ReleasedByDtor(o) == {f \in Field : field[o][f] # NULL}

\* dtor_object releases the strings and then calls the __destruct of a
\* subclass, which has the object for as long as it runs.
Destroy(o) ==
  /\ Runs
  /\ phase[o] = "live" /\ o \notin destructed
  /\ destructed' = destructed \cup {o}
  /\ phase' = [phase EXCEPT ![o] = "destructing"]
  /\ LET released == ReleasedByDtor(o)
     IN  IF Sound(o, released)
           THEN Recount(o, released, {}) /\ stray' = stray
           ELSE UNCHANGED strings /\ stray' = [obj |-> o, method |-> "dtor_object"]
  /\ owned' = [owned EXCEPT ![o] = {}]
  /\ UNCHANGED <<field, misfreed, held, request, lost>>

\* dtor_object releases whatever now lies where the members were.
DestroyOverlaid(o) ==
  /\ Runs /\ phase[o] = "overlaid" /\ o \notin destructed
  /\ destructed' = destructed \cup {o}
  /\ stray' = [obj |-> o, method |-> "dtor_object"]
  /\ UNCHANGED <<phase, field, owned, misfreed, strings, held, request, lost>>

\* The object is still referenced when its destructor is over.
Resurrect(o) ==
  /\ Runs /\ phase[o] = "destructing"
  /\ phase' = [phase EXCEPT ![o] = "live"]
  /\ UNCHANGED <<field, owned, destructed, misfreed, strings, held, request, stray, lost>>

\* MINIT has copied the standard handlers, whose offset is 0, although the
\* zend_object comes last in the struct.
HandlersOffset == 0
StdOffset == 32

\* The engine frees the memory of the object: the address it computes is the
\* block's only with the right offset.
FreeObject(o) ==
  /\ Runs /\ o \in destructed
  /\ phase[o] \in {"destructing", "live"}
  /\ phase' = [phase EXCEPT ![o] = "freed"]
  /\ misfreed' = IF HandlersOffset = StdOffset THEN misfreed ELSE misfreed \cup {o}
  /\ UNCHANGED <<field, owned, destructed, strings, held, request, stray, lost>>

\* The allocator hands out the address inside o's block, for a transport object or
\* for anything else of that size: the end of what is put there lies over the
\* members of v, the object behind o, ...
OverlayObject(o, v) ==
  /\ Runs /\ o \in misfreed
  /\ phase[v] \in {"created", "constructing", "live", "destructing"}
  /\ misfreed' = misfreed \ {o}
  /\ phase' = [phase EXCEPT ![v] = "overlaid"]
  /\ field' = [field EXCEPT ![v] = NoFields]
  /\ lost' = [s \in Str |-> lost[s] + Uses(field[v], owned[v], s)]
  /\ owned' = [owned EXCEPT ![v] = {}]
  /\ UNCHANGED <<destructed, strings, held, request, stray>>

\* ... or over other memory of the process, or of nobody.
OverlayOther(o) ==
  /\ Runs /\ o \in misfreed
  /\ misfreed' = misfreed \ {o}
  /\ stray' \in {NULL, [obj |-> o, method |-> "free_obj"]}
  /\ UNCHANGED <<phase, field, owned, destructed, strings, held, request, lost>>

\* The end of the request: every object has had its destructor, or never will.
EndRequest ==
  /\ Runs
  /\ \A o \in Obj : o \in destructed \/ phase[o] \in {"none", "cloned"}
  /\ \A o \in Obj : phase[o] # "destructing"
  /\ request' = "over"
  /\ UNCHANGED <<phase, field, owned, destructed, misfreed, strings, held, stray, lost>>

-----------------------------------------------------------------------------

Next ==
  \/ \E s \in Str : MakeName(s) \/ DropName(s)
  \/ \E o \in Obj :
       \/ Create(o) \/ Constructed(o) \/ ConstructorThrows(o)
       \/ \E name \in Str \cup {Literal} : Construct(o, name)
       \/ \E c \in Obj : Clone(o, c)
       \/ \E s \in Str : Write(o, s) \/ FlushAnswered(o, s)
       \/ FlushBailsOut(o)
       \/ \E method \in Method : DereferenceNull(o, method) \/ UseFreed(o, method)
       \/ \E method \in Method \cup {"__construct"} : UseForeign(o, method)
       \/ Destroy(o) \/ DestroyOverlaid(o) \/ Resurrect(o) \/ FreeObject(o)
       \/ \E v \in Obj : OverlayObject(o, v)
       \/ OverlayOther(o)
  \/ BailOut \/ EndRequest

Spec == Init /\ [][Next]_vars

-----------------------------------------------------------------------------

TypeOK ==
  /\ phase \in [Obj -> {"none", "created", "constructing", "live", "cloned",
                        "destructing", "freed", "overlaid"}]
  /\ field \in [Obj -> [Field -> Str \cup {Literal, Empty, NULL}]]
  /\ owned \in [Obj -> SUBSET Field]
  /\ destructed \subseteq Obj /\ misfreed \subseteq Obj
  /\ refcount \in [Str -> Nat] /\ freed \subseteq Str /\ held \subseteq Str
  /\ request \in {"running", "bailed", "died", "over"}
  /\ stray \in [obj : Obj,
               method : Method \cup {"__construct", "dtor_object", "free_obj"}] \cup {NULL}
  /\ lost \in [Str -> Nat]

\* The count of a string is the references there are: the script's, those of
\* fields, and those that a second __construct has dropped or that were in members
\* written over by a misplaced block.  So no object ever frees a service name that
\* the script or another object still uses, and all that outlives its use is what
\* was lost in one of these ways and what objects that never got their destructor
\* refer to.
OwnedUses(s) ==
  Cardinality({of \in Obj \X Field : of[2] \in owned[of[1]] /\ field[of[1]][of[2]] = s})

CountsExact ==
  \A s \in Str :
    /\ refcount[s] = OwnedUses(s) + (IF s \in held THEN 1 ELSE 0) + lost[s]
    /\ s \in freed => refcount[s] = 0
=============================================================================
