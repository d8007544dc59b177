--------------------------- MODULE ClassProtection ---------------------------
(***************************************************************************)
(* How savers and stores come to ask a lens: integrations/checkpoint.py    *)
(* and integrations/store.py patch Python classes while the program        *)
(* defines more of them, protects instances and calls their methods.       *)
(*                                                                         *)
(* A class is its method table, `own', and its method resolution order,    *)
(* which ends before the abstract base (BaseCheckpointSaver, BaseStore).   *)
(* A method is the class whose source has its body, in a number of lens    *)
(* wrappers.  Single inheritance: Mro[c] is c followed by its parent's.    *)
(* One action is one call of the integration, one class statement, or one  *)
(* step of a call of a saver's method: through a wrapper, or in a body.    *)
(***************************************************************************)
EXTENDS Integers, Sequences

CONSTANTS
    Classes,     \* the subclasses of BaseCheckpointSaver and of BaseStore
    Kind,        \* [Classes -> {"saver", "store"}]
    Mro,         \* [Classes -> Seq(Classes)]
    Body,        \* [Classes -> [Methods -> Bodies]]: what the source defines
    Slotted,     \* classes whose instances refuse a new __class__ or attribute
    Instances,   \* the savers and stores
    ClassOf,     \* [Instances -> Classes]
    Lenses,
    GlobalLens,  \* the one install_global_callback makes
    NoLens,
    Base,        \* stands for the abstract base, whose methods raise
    NoMethod,    \* the class has no such attribute of its own
    NoTable      \* there is no protected subclass

\* A body does the work itself, or leaves it to super() or to the synchronous
\* method of self, as MemorySaver.aput does.
Bodies == {"absent", "works", "super", "delegates"}
Reads == {"get_tuple", "aget_tuple"}
Methods == {"put", "aput"} \cup Reads
MethodsOf == [saver |-> Methods, store |-> {"put", "aput"}]
Sync(m) == IF m = "aput" THEN "put" ELSE "get_tuple"

Method == [of : Classes \cup {Base}, wraps : Nat]
Table == [Methods -> Method \cup {NoMethod}]

ASSUME ClassesAssumption ==
    /\ Kind \in [Classes -> {"saver", "store"}]
    /\ Mro \in [Classes -> Seq(Classes)]
    /\ \A c \in Classes : Len(Mro[c]) > 0 /\ Mro[c][1] = c
    /\ Body \in [Classes -> [Methods -> Bodies]]
    /\ \A c \in Classes : Body[c]["put"] # "delegates" /\ Body[c]["get_tuple"] # "delegates"
    /\ ClassOf \in [Instances -> Classes]
    /\ GlobalLens \in Lenses /\ NoLens \notin Lenses
    /\ Base \notin Classes
\* Single inheritance: behind a class in an mro comes the rest of its own mro.
ASSUME MroAssumption ==
    \A c \in Classes : \A k \in 1 .. Len(Mro[c]) :
        /\ Mro[Mro[c][k]] = SubSeq(Mro[c], k, Len(Mro[c]))
        /\ Kind[Mro[c][k]] = Kind[c]
ASSUME NoneAssumption ==
    NoMethod \notin Method \cup Methods /\ NoTable \notin Table

VARIABLES
    defined,   \* classes whose class statement has run
    own,       \* the methods each class has of its own
    flagged,   \* classes with the protected flag of their own
    hooked,    \* kinds whose base has the __init_subclass__ hook
    global,    \* _GLOBAL_LENS
    cached,    \* [Classes -> the table of its protected subclass]
    bound,     \* [Instances -> the table its class was swapped for]
    lensOf,    \* [Instances -> _lens]
    call,      \* what each instance is being called for
    met        \* history: a method of each instance a call of which met a lens

classVars == <<defined, own, flagged, hooked, global, cached>>
vars == <<classVars, bound, lensOf, call, met>>

\* A call: the method called and the one running, the body and the wrappers
\* ahead of it, the wrappers a read has to come back through, and what it met.
Call == [via : Methods, method : Methods, of : Classes \cup {Base}, wraps : Nat,
         owed : Nat, bodies : Nat, seen : Nat, by : SUBSET Lenses,
         auto : BOOLEAN, swapped : Lenses \cup {NoLens},
         at : {"idle", "running", "worked", "refused", "raised"}]
Idle == [via |-> "put", method |-> "put", of |-> Base, wraps |-> 0, owed |-> 0, bodies |-> 0,
         seen |-> 0, by |-> {}, auto |-> FALSE, swapped |-> NoLens,
         at |-> "idle"]

TypeOK ==
    /\ defined \subseteq Classes
    /\ own \in [Classes -> Table]
    /\ flagged \subseteq Classes
    /\ hooked \subseteq {"saver", "store"}
    /\ global \in Lenses \cup {NoLens}
    /\ cached \in [Classes -> Table \cup {NoTable}]
    /\ bound \in [Instances -> Table \cup {NoTable}]
    /\ lensOf \in [Instances -> Lenses \cup {NoLens}]
    /\ call \in [Instances -> Call]
    /\ met \in [Instances -> Methods \cup {NoMethod}]

Init ==
    /\ defined = {}
    /\ own = [c \in Classes |-> [m \in Methods |->
                 IF Body[c][m] = "absent" THEN NoMethod ELSE [of |-> c, wraps |-> 0]]]
    /\ flagged = {}
    /\ hooked = {}
    /\ global = NoLens
    /\ cached = [c \in Classes |-> NoTable]
    /\ bound = [i \in Instances |-> NoTable]
    /\ lensOf = [i \in Instances |-> NoLens]
    /\ call = [i \in Instances |-> Idle]
    /\ met = [i \in Instances |-> NoMethod]

-----------------------------------------------------------------------------
(* Attribute lookup, and the wrappers.                                     *)

\* The method m that the classes of an mro from position k on give.
Has(mro, k, m) == k \in 1 .. Len(mro) /\ own[mro[k]][m] # NoMethod
Resolve(mro, k, m) ==
    LET first == {i \in 1 .. Len(mro) :
                     i >= k /\ Has(mro, i, m) /\ \A j \in k .. i - 1 : ~Has(mro, j, m)}
    IN IF first # {} THEN own[mro[CHOOSE i \in first : TRUE]][m]
                     ELSE [of |-> Base, wraps |-> 0]

\* Regression: the flag looked for in the class's own attributes only.
ClassFlagged_Own(c) == c \in flagged

\* getattr(cls, FLAG, False), and is_saver_protected, is_store_protected.
ClassFlagged(c) == \E i \in 1 .. Len(Mro[c]) : Mro[c][i] \in flagged
IsProtected(i) == bound[i] # NoTable \/ ClassFlagged(ClassOf[i])

\* The wrapped methods of a class, in the class of its kind's wrappers.
Wrapped(c) ==
    [m \in Methods |->
        IF m \in MethodsOf[Kind[c]]
        THEN [Resolve(Mro[c], 1, m) EXCEPT !.wraps = @ + 1]
        ELSE own[c][m]]

\* _patch_in_place of each class of a set of which none derives from another.
PatchInPlace(classes) ==
    /\ own' = [c \in Classes |-> IF c \in classes THEN Wrapped(c) ELSE own[c]]
    /\ flagged' = flagged \cup classes

\* The explicit lens wins, or else the global one.
Resolved(lens) == IF lens # NoLens THEN lens ELSE global

-----------------------------------------------------------------------------
(* Class statements and protection.                                        *)

\* Regression: no __init_subclass__ hook.
Define_NoHook(c) ==
    /\ c \notin defined
    /\ \A i \in 2 .. Len(Mro[c]) : Mro[c][i] \in defined
    /\ defined' = defined \cup {c}
    /\ UNCHANGED <<own, flagged, hooked, global, cached, bound, lensOf, call, met>>

\* A class statement, with the __init_subclass__ hook of its base.
Define(c) ==
    /\ c \notin defined
    /\ \A i \in 2 .. Len(Mro[c]) : Mro[c][i] \in defined
    /\ defined' = defined \cup {c}
    /\ IF Kind[c] \in hooked /\ ~ClassFlagged(c)
       THEN PatchInPlace({c}) ELSE UNCHANGED <<own, flagged>>
    /\ UNCHANGED <<hooked, global, cached, bound, lensOf, call, met>>

\* The classes the walk over __subclasses__ patches.  It patches a class before
\* it reaches the class's subclasses, which then have the flag by inheritance
\* and are passed over: what is left are classes directly below the base.
Walked(kind) ==
    {c \in defined : Kind[c] = kind /\ Len(Mro[c]) = 1 /\ c \notin flagged}

\* install_saver_auto_protection(lens) and install_store_auto_protection(lens):
\* the lens decides whether to patch, the wrappers do not get it.
AutoProtect(kinds) ==
    /\ PatchInPlace(UNION {Walked(kind) : kind \in kinds})
    /\ hooked' = hooked \cup kinds
    /\ UNCHANGED <<defined, cached, bound, lensOf, call, met>>

InstallSavers(lens) ==
    Resolved(lens) # NoLens /\ AutoProtect({"saver"}) /\ UNCHANGED global
InstallStores(lens) ==
    Resolved(lens) # NoLens /\ AutoProtect({"store"}) /\ UNCHANGED global

\* install_global_callback; later calls return the lens there is.
InstallGlobal ==
    /\ global = NoLens
    /\ global' = GlobalLens
    /\ AutoProtect({"saver", "store"})

\* type(name, (cls,), namespace), of savers once for each class.
ProtectedTable(c) == IF cached[c] # NoTable THEN cached[c] ELSE Wrapped(c)

\* Regression: an instance that is protected gets the lens all the same.
ProtectAgain_Rebinds(i, lens) ==
    /\ IsProtected(i)
    /\ lensOf' = [lensOf EXCEPT ![i] = lens]
    /\ UNCHANGED <<classVars, bound, call, met>>

\* protect_saver(instance, lens) and protect_store(instance, lens).
ProtectAgain(i, lens) ==
    /\ IsProtected(i)
    /\ UNCHANGED <<classVars, bound, lensOf, call, met>>

ProtectBySwap(i, lens) ==
    LET c == ClassOf[i] IN
    /\ ~IsProtected(i) /\ Resolved(lens) # NoLens
    /\ c \notin Slotted
    /\ bound' = [bound EXCEPT ![i] = ProtectedTable(c)]
    /\ lensOf' = [lensOf EXCEPT ![i] = Resolved(lens)]
    /\ cached' = IF Kind[c] = "saver" THEN [cached EXCEPT ![c] = ProtectedTable(c)]
                                      ELSE cached
    /\ UNCHANGED <<defined, own, flagged, hooked, global, call, met>>

ProtectInPlace(i, lens) ==
    LET c == ClassOf[i] IN
    /\ ~IsProtected(i) /\ Resolved(lens) # NoLens
    /\ c \in Slotted
    /\ cached' = IF Kind[c] = "saver" THEN [cached EXCEPT ![c] = ProtectedTable(c)]
                                      ELSE cached
    /\ PatchInPlace({c})
    /\ UNCHANGED <<defined, hooked, global, bound, lensOf, call, met>>

Protect(i) ==
    /\ ClassOf[i] \in defined
    /\ \E lens \in Lenses \cup {NoLens} :
          ProtectAgain(i, lens) \/ ProtectBySwap(i, lens) \/ ProtectInPlace(i, lens)

-----------------------------------------------------------------------------
(* Calls of the methods.                                                   *)

Dispatch(i, m) == IF bound[i] # NoTable THEN bound[i][m] ELSE Resolve(Mro[ClassOf[i]], 1, m)

\* Regression: the global lens comes first.
LensFor_GlobalFirst(i) == IF global # NoLens THEN global ELSE lensOf[i]

\* getattr(self, "_lens", None), or the global lens: looked up in every wrapper.
LensFor(i) == IF lensOf[i] # NoLens THEN lensOf[i] ELSE global

Frame(record, m, method) ==
    [record EXCEPT !.method = m, !.of = method.of, !.wraps = method.wraps]

\* Auto-protection of the instance's kind is installed and has a lens.
AutoOn(i) == global # NoLens /\ Kind[ClassOf[i]] \in hooked

Begin(i, m) ==
    /\ call[i].at = "idle"
    /\ ClassOf[i] \in defined
    /\ m \in MethodsOf[Kind[ClassOf[i]]]
    /\ Dispatch(i, m) # NoMethod
    /\ call' = [call EXCEPT ![i] = Frame(
          [Idle EXCEPT !.via = m, !.at = "running", !.swapped = lensOf[i],
                       !.auto = AutoOn(i)],
          m, Dispatch(i, m))]
    /\ UNCHANGED <<classVars, bound, lensOf, met>>

\* The wrapper asks the lens there is: decide_checkpoint may refuse,
\* inspect_memory_write only looks.
Inspected(i) ==
    IF LensFor(i) = NoLens THEN call[i]
    ELSE [call[i] EXCEPT !.seen = @ + 1, !.by = @ \cup {LensFor(i)}]

MayRefuse(i) == Kind[ClassOf[i]] = "saver" /\ LensFor(i) # NoLens

\* The put and aput wrappers ask before the method they wrap.
BeforeWrite(i) ==
    /\ call[i].at = "running" /\ call[i].wraps > 0 /\ call[i].method \notin Reads
    /\ \/ call' = [call EXCEPT ![i] = [Inspected(i) EXCEPT !.wraps = @ - 1]]
       \/ MayRefuse(i) /\ call' = [call EXCEPT ![i] = [Inspected(i) EXCEPT !.at = "refused"]]
    /\ UNCHANGED <<classVars, bound, lensOf, met>>

\* The get_tuple and aget_tuple wrappers call the method they wrap first.
BeforeRead(i) ==
    /\ call[i].at = "running" /\ call[i].wraps > 0 /\ call[i].method \in Reads
    /\ call' = [call EXCEPT ![i].wraps = @ - 1, ![i].owed = @ + 1]
    /\ UNCHANGED <<classVars, bound, lensOf, met>>

\* Regression: asks on the way back without a wrapper to come back through.
AfterRead_Again(i) ==
    /\ call[i].at = "worked" /\ call[i].method \in Reads
    /\ call' = [call EXCEPT ![i] = [Inspected(i) EXCEPT !.owed = @ - 1]]
    /\ UNCHANGED <<classVars, bound, lensOf, met>>

AfterRead(i) ==
    /\ call[i].at = "worked" /\ call[i].owed > 0
    /\ \/ call' = [call EXCEPT ![i] = [Inspected(i) EXCEPT !.owed = @ - 1]]
       \/ MayRefuse(i) /\ call' = [call EXCEPT ![i] = [Inspected(i) EXCEPT !.at = "refused"]]
    /\ UNCHANGED <<classVars, bound, lensOf, met>>

\* The body of the class call[i].of; super() goes on behind it in the mro.
After(c, mro) == CHOOSE k \in 1 .. Len(mro) : mro[k] = c

RunBody(i) ==
    LET running == [call[i] EXCEPT !.bodies = @ + 1]
        m == running.method
        mro == Mro[ClassOf[i]]
    IN
    /\ call[i].at = "running" /\ call[i].wraps = 0
    /\ call' = [call EXCEPT ![i] =
          IF running.of = Base THEN [running EXCEPT !.at = "raised"]
          ELSE CASE Body[running.of][m] = "super" ->
                       Frame(running, m, Resolve(mro, After(running.of, mro) + 1, m))
                 [] Body[running.of][m] = "delegates" ->
                       Frame(running, Sync(m), Dispatch(i, Sync(m)))
                 [] OTHER -> [running EXCEPT !.at = "worked"]]
    /\ UNCHANGED <<classVars, bound, lensOf, met>>

\* The call is over: it worked, was refused, or the abstract base raised.
Done(i) == call[i].at = "worked" /\ call[i].owed = 0

Return(i) ==
    /\ Done(i) \/ call[i].at \in {"refused", "raised"}
    /\ \/ UNCHANGED met
       \/ Done(i) /\ call[i].seen > 0 /\ met[i] = NoMethod
             /\ met' = [met EXCEPT ![i] = call[i].via]
    /\ call' = [call EXCEPT ![i] = Idle]
    /\ UNCHANGED <<classVars, bound, lensOf>>

CallStep(i) ==
    \/ (\E m \in Methods : Begin(i, m))
    \/ BeforeWrite(i) \/ BeforeRead(i) \/ AfterRead(i) \/ RunBody(i) \/ Return(i)

Next ==
    \/ \E c \in Classes : Define(c)
    \/ \E lens \in Lenses \cup {NoLens} : InstallSavers(lens) \/ InstallStores(lens)
    \/ InstallGlobal
    \/ \E i \in Instances : Protect(i) \/ CallStep(i)

Spec == Init /\ [][Next]_vars

-----------------------------------------------------------------------------
(* Properties.                                                             *)

\* A call meets a lens at most once for each body it runs through, in whatever
\* order classes were defined, patched and swapped: wrappers do not stack up.
InspectedOncePerBody ==
    \A i \in Instances : call[i].at = "worked" => call[i].seen <= call[i].bodies

\* "Every put/aput/get_tuple/aget_tuple call goes through the lens"
\* (README.md:461-462): with auto-protection installed and a global lens, no
\* call of a saver or store works unseen.
AutoProtected ==
    \A i \in Instances : Done(i) /\ call[i].auto => call[i].seen > 0

\* An instance whose class was swapped for one lens meets that lens and no
\* other, whatever is installed or patched around it later.
SwappedKeepsLens ==
    \A i \in Instances :
        Done(i) /\ call[i].swapped # NoLens => call[i].by = {call[i].swapped}

\* Protection is never lost: once a method of an instance met a lens, all its
\* later calls do, though classes above it are patched in between.
StaysInspected ==
    \A i \in Instances : Done(i) /\ call[i].via = met[i] => call[i].seen > 0
=============================================================================
