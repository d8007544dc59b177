------------------------ MODULE ClassProtectionProofs ------------------------
(***************************************************************************)
(* Theorems about ClassProtection, for any classes, sources and instances: *)
(* its type, that wrappers do not stack up, and that a swapped instance    *)
(* keeps its lens, in whatever order classes are defined, patched and      *)
(* swapped.                                                                *)
(***************************************************************************)
EXTENDS ClassProtection, TLAPS

Kinds == {"saver", "store"}

\* A class has a wrapped method of its own only when it has the flag of its own,
\* and no method has two wrappers.
OwnOnce ==
    \A c \in Classes, m \in Methods :
        own[c][m] # NoMethod => own[c][m].wraps = 0 \/ (own[c][m].wraps = 1 /\ c \in flagged)

\* A protected subclass has each of its kind's methods, in one wrapper.
TableOf(c, table) ==
    \A m \in MethodsOf[Kind[c]] : table[m] # NoMethod /\ table[m].wraps = 1
TablesOnce ==
    /\ \A c \in Classes : cached[c] # NoTable => TableOf(c, cached[c])
    /\ \A i \in Instances : bound[i] # NoTable => TableOf(ClassOf[i], bound[i])

\* A call that runs is of a method of its kind, and has as many inspections
\* behind and before it as it has had bodies, or one more.
Balanced(c, methods) ==
    /\ c.at \in {"running", "worked"} => c.method \in methods /\ c.via \in methods
    /\ c.at = "running" => c.wraps + c.owed + c.seen <= c.bodies + 1
    /\ c.at = "worked" => c.owed + c.seen <= c.bodies
CallBalance(i) == Balanced(call[i], MethodsOf[Kind[ClassOf[i]]])

IInv == TypeOK /\ OwnOnce /\ TablesOnce /\ \A i \in Instances : CallBalance(i)

-----------------------------------------------------------------------------
(* Facts of the operators.                                                 *)

\* Attribute lookup finds a method, of a class of the mro or of the base.
LEMMA ResolveType ==
    ASSUME TypeOK, NEW c \in Classes, NEW k, NEW m \in Methods
    PROVE  Resolve(Mro[c], k, m) \in Method
<1> DEFINE first == {i \in 1 .. Len(Mro[c]) :
               i >= k /\ Has(Mro[c], i, m) /\ \A j \in k .. i - 1 : ~Has(Mro[c], j, m)}
<1>1. CASE first # {}
  <2>1. PICK i : i = (CHOOSE x \in first : TRUE)
        OBVIOUS
  <2>2. i \in first
        BY <1>1, <2>1
  <2>3. i \in 1 .. Len(Mro[c]) /\ own[Mro[c][i]][m] # NoMethod
        BY <2>2 DEF Has
  <2>4. Mro[c][i] \in Classes
        BY <2>3, ClassesAssumption
  <2>5. own[Mro[c][i]][m] \in Method
        BY <2>3, <2>4 DEF TypeOK, Table
  <2>6. Resolve(Mro[c], k, m) = own[Mro[c][i]][m]
        BY <1>1, <2>1 DEF Resolve
  <2>7. QED
        BY <2>5, <2>6
<1>2. CASE first = {}
  <2>1. Resolve(Mro[c], k, m) = [of |-> Base, wraps |-> 0]
        BY <1>2 DEF Resolve
  <2>2. QED
        BY <2>1 DEF Method
<1>3. QED
    BY <1>1, <1>2

\* It finds at most one wrapper, and none if no class of the mro has the flag.
LEMMA ResolveOnce ==
    ASSUME TypeOK, OwnOnce, NEW c \in Classes, NEW k, NEW m \in Methods
    PROVE  /\ Resolve(Mro[c], k, m).wraps <= 1
           /\ ~ClassFlagged(c) => Resolve(Mro[c], k, m).wraps = 0
<1> DEFINE first == {i \in 1 .. Len(Mro[c]) :
               i >= k /\ Has(Mro[c], i, m) /\ \A j \in k .. i - 1 : ~Has(Mro[c], j, m)}
<1>1. CASE first # {}
  <2>1. PICK i : i = (CHOOSE x \in first : TRUE)
        OBVIOUS
  <2>2. i \in first
        BY <1>1, <2>1
  <2>3. i \in 1 .. Len(Mro[c]) /\ own[Mro[c][i]][m] # NoMethod
        BY <2>2 DEF Has
  <2>4. Mro[c][i] \in Classes
        BY <2>3, ClassesAssumption
  <2>5. \/ own[Mro[c][i]][m].wraps = 0
        \/ own[Mro[c][i]][m].wraps = 1 /\ Mro[c][i] \in flagged
        BY <2>3, <2>4 DEF OwnOnce
  <2>6. Resolve(Mro[c], k, m) = own[Mro[c][i]][m]
        BY <1>1, <2>1 DEF Resolve
  <2>7. QED
        BY <2>3, <2>5, <2>6 DEF ClassFlagged
<1>2. CASE first = {}
  <2>1. Resolve(Mro[c], k, m) = [of |-> Base, wraps |-> 0]
        BY <1>2 DEF Resolve
  <2>2. QED
        BY <2>1
<1>3. QED
    BY <1>1, <1>2

\* The kinds' methods are methods.
LEMMA KindMethods ==
    ASSUME NEW c \in Classes
    PROVE  /\ MethodsOf[Kind[c]] \subseteq Methods
           /\ Kind[c] \in Kinds
    BY ClassesAssumption DEF MethodsOf, Methods, Reads, Kinds

\* Wrapping a class that has no flag gives each method of its kind one wrapper.
LEMMA WrappedOnce ==
    ASSUME TypeOK, OwnOnce, NEW c \in Classes, ~ClassFlagged(c)
    PROVE  /\ Wrapped(c) \in Table
           /\ TableOf(c, Wrapped(c))
           /\ \A m \in Methods :
                 Wrapped(c)[m] # NoMethod => Wrapped(c)[m].wraps \in {0, 1}
<1>1. ASSUME NEW m \in Methods, m \in MethodsOf[Kind[c]]
      PROVE  /\ Wrapped(c)[m] \in Method
             /\ Wrapped(c)[m].wraps = 1
  <2>1. Wrapped(c)[m] = [Resolve(Mro[c], 1, m) EXCEPT !.wraps = @ + 1]
        BY <1>1 DEF Wrapped
  <2>2. Resolve(Mro[c], 1, m) \in Method /\ Resolve(Mro[c], 1, m).wraps = 0
        BY ResolveType, ResolveOnce
  <2>3. QED
        BY <2>1, <2>2 DEF Method
<1>2. ASSUME NEW m \in Methods, m \notin MethodsOf[Kind[c]]
      PROVE  /\ Wrapped(c)[m] \in Method \cup {NoMethod}
             /\ Wrapped(c)[m] # NoMethod => Wrapped(c)[m].wraps \in {0, 1}
    BY <1>2 DEF Wrapped, TypeOK, Table, OwnOnce
<1>3. Wrapped(c) = [m \in Methods |-> Wrapped(c)[m]]
    BY DEF Wrapped
<1>4. Wrapped(c) \in Table
    BY <1>1, <1>2, <1>3 DEF Table
<1>5. QED
    BY <1>1, <1>2, <1>4, KindMethods, NoneAssumption DEF TableOf

\* A flag of its own flags a class; so the classes the walk patches have none.
LEMMA WalkedUnflagged ==
    ASSUME TypeOK, NEW kind \in Kinds, NEW c \in Walked(kind)
    PROVE  c \in Classes /\ ~ClassFlagged(c)
    BY ClassesAssumption DEF Walked, ClassFlagged, TypeOK

-----------------------------------------------------------------------------
(* The steps.                                                              *)

\* Patching classes that have no flag keeps every method in one wrapper.
LEMMA PatchStep ==
    ASSUME IInv, NEW patched \in SUBSET Classes,
           \A c \in patched : ~ClassFlagged(c),
           PatchInPlace(patched)
    PROVE  own' \in [Classes -> Table] /\ flagged' \subseteq Classes /\ OwnOnce'
<1> USE DEF IInv
<1>1. \A c \in Classes : own'[c] = IF c \in patched THEN Wrapped(c) ELSE own[c]
    BY DEF PatchInPlace
<1>2. own' \in [Classes -> Table]
    BY <1>1, WrappedOnce DEF PatchInPlace, TypeOK
<1>3. flagged' \subseteq Classes /\ flagged \subseteq flagged' /\ patched \subseteq flagged'
    BY DEF PatchInPlace, TypeOK
<1>4. ASSUME NEW c \in Classes, NEW m \in Methods, own'[c][m] # NoMethod
      PROVE  own'[c][m].wraps = 0 \/ (own'[c][m].wraps = 1 /\ c \in flagged')
  <2>1. CASE c \in patched
        BY <1>1, <1>3, <1>4, <2>1, WrappedOnce
  <2>2. CASE c \notin patched
        BY <1>1, <1>3, <1>4, <2>2 DEF OwnOnce
  <2>3. QED
        BY <2>1, <2>2
<1>5. QED
    BY <1>2, <1>3, <1>4 DEF OwnOnce

LEMMA DefineStep ==
    ASSUME IInv, NEW c \in Classes, Define(c)
    PROVE  IInv'
<1>1. own' \in [Classes -> Table] /\ flagged' \subseteq Classes /\ OwnOnce'
  <2>1. CASE Kind[c] \in hooked /\ ~ClassFlagged(c)
        BY <2>1, PatchStep DEF Define
  <2>2. CASE ~(Kind[c] \in hooked /\ ~ClassFlagged(c))
        BY <2>2 DEF Define, IInv, TypeOK, OwnOnce
  <2>3. QED
        BY <2>1, <2>2
<1>2. TypeOK'
    BY <1>1 DEF Define, IInv, TypeOK
<1>3. TablesOnce' /\ \A i \in Instances : CallBalance(i)'
    BY DEF Define, IInv, TablesOnce, TableOf, CallBalance, Balanced
<1>4. QED
    BY <1>1, <1>2, <1>3 DEF IInv

LEMMA AutoProtectStep ==
    ASSUME IInv, NEW kinds \in SUBSET Kinds, AutoProtect(kinds),
           global' \in Lenses \cup {NoLens}
    PROVE  IInv'
<1> DEFINE patched == UNION {Walked(kind) : kind \in kinds}
<1>1. \A c \in patched : c \in Classes /\ ~ClassFlagged(c)
    BY WalkedUnflagged DEF IInv
<1>2. own' \in [Classes -> Table] /\ flagged' \subseteq Classes /\ OwnOnce'
    BY <1>1, PatchStep DEF AutoProtect
<1>3. TypeOK'
    BY <1>2 DEF AutoProtect, IInv, TypeOK, Kinds
<1>4. TablesOnce' /\ \A i \in Instances : CallBalance(i)'
    BY DEF AutoProtect, IInv, TablesOnce, TableOf, CallBalance, Balanced
<1>5. QED
    BY <1>2, <1>3, <1>4 DEF IInv

\* The table of a protected subclass of a class without the flag.
LEMMA ProtectedTableOnce ==
    ASSUME IInv, NEW c \in Classes, ~ClassFlagged(c)
    PROVE  ProtectedTable(c) \in Table /\ TableOf(c, ProtectedTable(c))
    BY WrappedOnce, NoneAssumption DEF ProtectedTable, IInv, TypeOK, TablesOnce

LEMMA ProtectStep ==
    ASSUME IInv, NEW i \in Instances, NEW lens \in Lenses \cup {NoLens},
           ProtectAgain(i, lens) \/ ProtectBySwap(i, lens) \/ ProtectInPlace(i, lens)
    PROVE  IInv'
<1> DEFINE c == ClassOf[i]
<1>1. c \in Classes
    BY ClassesAssumption
<1>2. CASE ProtectAgain(i, lens)
    BY <1>2 DEF ProtectAgain, classVars, IInv, TypeOK, OwnOnce, TablesOnce, TableOf,
                      CallBalance, Balanced
<1>3. CASE ProtectBySwap(i, lens)
  <2>1. ~ClassFlagged(c)
        BY <1>3 DEF ProtectBySwap, IsProtected
  <2>2. ProtectedTable(c) \in Table /\ TableOf(c, ProtectedTable(c))
        BY <1>1, <2>1, ProtectedTableOnce
  <2>3. TypeOK'
    <3>1. bound' \in [Instances -> Table \cup {NoTable}]
          BY <1>3, <2>2 DEF ProtectBySwap, IInv, TypeOK
    <3>2. cached' \in [Classes -> Table \cup {NoTable}]
          BY <1>3, <2>2 DEF ProtectBySwap, IInv, TypeOK
    <3>3. lensOf' \in [Instances -> Lenses \cup {NoLens}]
          BY <1>3 DEF ProtectBySwap, Resolved, IInv, TypeOK
    <3>4. QED
          BY <1>3, <3>1, <3>2, <3>3 DEF ProtectBySwap, IInv, TypeOK
  <2>4. TablesOnce'
    <3>1. ASSUME NEW d \in Classes, cached'[d] # NoTable
          PROVE  TableOf(d, cached'[d])
          BY <1>1, <1>3, <2>2, <3>1 DEF ProtectBySwap, IInv, TypeOK, TablesOnce
    <3>2. ASSUME NEW j \in Instances, bound'[j] # NoTable
          PROVE  TableOf(ClassOf[j], bound'[j])
          BY <1>3, <2>2, <3>2 DEF ProtectBySwap, IInv, TypeOK, TablesOnce
    <3>3. QED
          BY <3>1, <3>2 DEF TablesOnce, TableOf
  <2>5. OwnOnce' /\ \A j \in Instances : CallBalance(j)'
        BY <1>3 DEF ProtectBySwap, IInv, OwnOnce, CallBalance, Balanced
  <2>6. QED
        BY <2>3, <2>4, <2>5 DEF IInv
<1>4. CASE ProtectInPlace(i, lens)
  <2>1. ~ClassFlagged(c)
        BY <1>4 DEF ProtectInPlace, IsProtected
  <2>2. ProtectedTable(c) \in Table /\ TableOf(c, ProtectedTable(c))
        BY <1>1, <2>1, ProtectedTableOnce
  <2>3. own' \in [Classes -> Table] /\ flagged' \subseteq Classes /\ OwnOnce'
        BY <1>1, <1>4, <2>1, PatchStep DEF ProtectInPlace
  <2>4. cached' \in [Classes -> Table \cup {NoTable}]
        BY <1>4, <2>2 DEF ProtectInPlace, IInv, TypeOK
  <2>5. TypeOK'
        BY <1>4, <2>3, <2>4 DEF ProtectInPlace, IInv, TypeOK
  <2>6. TablesOnce'
    <3>1. ASSUME NEW d \in Classes, cached'[d] # NoTable
          PROVE  TableOf(d, cached'[d])
          BY <1>1, <1>4, <2>2, <3>1 DEF ProtectInPlace, IInv, TypeOK, TablesOnce
    <3>2. QED
          BY <1>4, <3>1 DEF ProtectInPlace, IInv, TablesOnce, TableOf
  <2>7. \A j \in Instances : CallBalance(j)'
        BY <1>4 DEF ProtectInPlace, IInv, CallBalance, Balanced
  <2>8. QED
        BY <2>3, <2>5, <2>6, <2>7 DEF IInv
<1>5. QED
    BY <1>2, <1>3, <1>4

\* A method called on an instance is in at most one wrapper.
LEMMA DispatchOnce ==
    ASSUME IInv, NEW i \in Instances, NEW m \in MethodsOf[Kind[ClassOf[i]]]
    PROVE  Dispatch(i, m) \in Method /\ Dispatch(i, m).wraps <= 1 /\ m \in Methods
<1>1. ClassOf[i] \in Classes /\ m \in Methods
    BY ClassesAssumption, KindMethods
<1>2. CASE bound[i] # NoTable
  <2>1. bound[i][m] \in Method \cup {NoMethod}
        BY <1>1, <1>2 DEF IInv, TypeOK, Table
  <2>2. bound[i][m] # NoMethod /\ bound[i][m].wraps = 1
        BY <1>2 DEF IInv, TablesOnce, TableOf
  <2>3. QED
        BY <1>1, <1>2, <2>1, <2>2 DEF Dispatch
<1>3. CASE bound[i] = NoTable
    BY <1>1, <1>3, ResolveType, ResolveOnce DEF Dispatch, IInv, Method
<1>4. QED
    BY <1>2, <1>3

\* A call step changes one call to another of its type and in balance.
LEMMA CallChange ==
    ASSUME IInv, NEW i \in Instances, NEW new \in Call,
           call' = [call EXCEPT ![i] = new],
           Balanced(new, MethodsOf[Kind[ClassOf[i]]]),
           UNCHANGED <<classVars, bound, lensOf>>,
           met' \in [Instances -> Methods \cup {NoMethod}]
    PROVE  IInv'
<1>1. call' \in [Instances -> Call]
    BY DEF IInv, TypeOK
<1>2. TypeOK'
    BY <1>1 DEF IInv, TypeOK, classVars
<1>3. OwnOnce' /\ TablesOnce'
    BY DEF IInv, OwnOnce, TablesOnce, TableOf, classVars
<1>4. ASSUME NEW j \in Instances PROVE CallBalance(j)'
  <2>1. CASE j = i
    <3>1. call'[j] = new
          BY <2>1 DEF IInv, TypeOK
    <3>2. QED
          BY <2>1, <3>1 DEF CallBalance
  <2>2. CASE j # i
    <3>1. call'[j] = call[j]
          BY <2>2 DEF IInv, TypeOK
    <3>2. QED
          BY <3>1 DEF IInv, CallBalance
  <2>3. QED
        BY <2>1, <2>2
<1>5. QED
    BY <1>2, <1>3, <1>4 DEF IInv

\* The same, of a step that leaves met alone.
LEMMA CallChangeOnly ==
    ASSUME IInv, NEW i \in Instances, NEW new \in Call,
           call' = [call EXCEPT ![i] = new],
           Balanced(new, MethodsOf[Kind[ClassOf[i]]]),
           UNCHANGED <<classVars, bound, lensOf, met>>
    PROVE  IInv'
<1>1. met' \in [Instances -> Methods \cup {NoMethod}]
    BY DEF IInv, TypeOK
<1>2. QED
    BY <1>1, CallChange

\* The next frame of a call: a method behind the body that ran, or another of self.
LEMMA NextFrame ==
    ASSUME NEW c \in Call, NEW methods, NEW m \in Methods, NEW method \in Method,
           m \in methods, c.via \in methods, method.wraps <= 1,
           c.at = "running", c.owed + c.seen <= c.bodies
    PROVE  Frame(c, m, method) \in Call /\ Balanced(Frame(c, m, method), methods)
<1> DEFINE new == Frame(c, m, method)
<1>1. new = [c EXCEPT !.method = m, !.of = method.of, !.wraps = method.wraps]
    BY DEF Frame
<1>2. method.of \in Classes \cup {Base} /\ method.wraps \in Nat
    BY DEF Method
<1>3. new \in Call
    BY <1>1, <1>2 DEF Call
<1>4. /\ new.at = "running" /\ new.method = m /\ new.via = c.via /\ new.wraps = method.wraps
      /\ new.owed = c.owed /\ new.seen = c.seen /\ new.bodies = c.bodies
    BY <1>1 DEF Call
<1>5. QED
    BY <1>2, <1>3, <1>4 DEF Balanced, Call

LEMMA BeginStep ==
    ASSUME IInv, NEW i \in Instances, NEW m \in Methods, Begin(i, m)
    PROVE  IInv'
<1> DEFINE started == [Idle EXCEPT !.via = m, !.at = "running", !.swapped = lensOf[i],
                                   !.auto = AutoOn(i)]
           new == Frame(started, m, Dispatch(i, m))
<1>1. m \in MethodsOf[Kind[ClassOf[i]]] /\ call' = [call EXCEPT ![i] = new]
    BY DEF Begin
<1>2. Dispatch(i, m) \in Method /\ Dispatch(i, m).wraps <= 1
    BY <1>1, DispatchOnce
<1>3. AutoOn(i) \in BOOLEAN
    BY DEF AutoOn
<1>4. lensOf[i] \in Lenses \cup {NoLens}
    BY DEF IInv, TypeOK
<1>5. /\ started \in Call /\ started.via = m /\ started.at = "running"
      /\ started.owed = 0 /\ started.seen = 0 /\ started.bodies = 0
    BY <1>3, <1>4 DEF Idle, Call, Methods
<1>6. new \in Call /\ Balanced(new, MethodsOf[Kind[ClassOf[i]]])
  <2> HIDE DEF started
  <2>1. QED
        BY <1>1, <1>2, <1>5, NextFrame
<1>7. QED
    BY <1>1, <1>6, CallChangeOnly DEF Begin

\* Asking a lens changes a call's count and lenses only.
LEMMA InspectedCall ==
    ASSUME IInv, NEW i \in Instances
    PROVE  /\ call[i] \in Call /\ Inspected(i) \in Call
           /\ Inspected(i).seen \in {call[i].seen, call[i].seen + 1}
           /\ Inspected(i).via = call[i].via /\ Inspected(i).method = call[i].method
           /\ Inspected(i).wraps = call[i].wraps /\ Inspected(i).owed = call[i].owed
           /\ Inspected(i).bodies = call[i].bodies /\ Inspected(i).at = call[i].at
<1>1. call[i] \in Call
    BY DEF IInv, TypeOK
<1>2. CASE LensFor(i) = NoLens
    BY <1>1, <1>2 DEF Inspected
<1>3. CASE LensFor(i) # NoLens
  <2>1. LensFor(i) \in Lenses
        BY <1>3 DEF LensFor, IInv, TypeOK
  <2>2. Inspected(i) = [call[i] EXCEPT !.seen = call[i].seen + 1,
                                       !.by = call[i].by \cup {LensFor(i)}]
        BY <1>3 DEF Inspected
  <2>3. call[i].seen + 1 \in Nat /\ call[i].by \cup {LensFor(i)} \in SUBSET Lenses
        BY <1>1, <2>1 DEF Call
  <2>4. QED
        BY <1>1, <2>2, <2>3 DEF Call
<1>4. QED
    BY <1>2, <1>3

\* A call that was refused has no balance to keep.
LEMMA RefusedCall ==
    ASSUME NEW c \in Call, NEW methods
    PROVE  [c EXCEPT !.at = "refused"] \in Call /\ Balanced([c EXCEPT !.at = "refused"], methods)
    BY DEF Call, Balanced

LEMMA BeforeWriteStep ==
    ASSUME IInv, NEW i \in Instances, BeforeWrite(i)
    PROVE  IInv'
<1> DEFINE asking == Inspected(i)
           on == [asking EXCEPT !.wraps = asking.wraps - 1]
           refused == [asking EXCEPT !.at = "refused"]
           methods == MethodsOf[Kind[ClassOf[i]]]
<1>1. /\ asking \in Call /\ call[i] \in Call /\ Balanced(call[i], methods)
      /\ call[i].at = "running" /\ call[i].wraps > 0
    BY InspectedCall DEF BeforeWrite, IInv, CallBalance
<1>2. CASE call' = [call EXCEPT ![i] = on]
  <2>1. asking.wraps - 1 \in Nat
        BY <1>1, InspectedCall DEF Call
  <2>2. on \in Call
        BY <1>1, <2>1 DEF Call
  <2>3. Balanced(on, methods)
    <3>1. /\ on.at = "running" /\ on.method = call[i].method /\ on.via = call[i].via
          /\ on.wraps = call[i].wraps - 1 /\ on.owed = call[i].owed
          /\ on.seen <= call[i].seen + 1 /\ on.bodies = call[i].bodies
          BY <1>1, InspectedCall DEF Call
    <3>2. QED
          BY <1>1, <2>2, <3>1 DEF Balanced, Call
  <2>4. QED
        BY <1>2, <2>2, <2>3, CallChangeOnly DEF BeforeWrite
<1>3. CASE call' = [call EXCEPT ![i] = refused]
    BY <1>1, <1>3, RefusedCall, CallChangeOnly DEF BeforeWrite
<1>4. QED
    BY <1>2, <1>3 DEF BeforeWrite

LEMMA AfterReadStep ==
    ASSUME IInv, NEW i \in Instances, AfterRead(i)
    PROVE  IInv'
<1> DEFINE asking == Inspected(i)
           on == [asking EXCEPT !.owed = asking.owed - 1]
           refused == [asking EXCEPT !.at = "refused"]
           methods == MethodsOf[Kind[ClassOf[i]]]
<1>1. /\ asking \in Call /\ call[i] \in Call /\ Balanced(call[i], methods)
      /\ call[i].at = "worked" /\ call[i].owed > 0
    BY InspectedCall DEF AfterRead, IInv, CallBalance
<1>2. CASE call' = [call EXCEPT ![i] = on]
  <2>1. asking.owed - 1 \in Nat
        BY <1>1, InspectedCall DEF Call
  <2>2. on \in Call
        BY <1>1, <2>1 DEF Call
  <2>3. Balanced(on, methods)
    <3>1. /\ on.at = "worked" /\ on.method = call[i].method /\ on.via = call[i].via
          /\ on.owed = call[i].owed - 1
          /\ on.seen <= call[i].seen + 1 /\ on.bodies = call[i].bodies
          BY <1>1, InspectedCall DEF Call
    <3>2. QED
          BY <1>1, <2>2, <3>1 DEF Balanced, Call
  <2>4. QED
        BY <1>2, <2>2, <2>3, CallChangeOnly DEF AfterRead
<1>3. CASE call' = [call EXCEPT ![i] = refused]
    BY <1>1, <1>3, RefusedCall, CallChangeOnly DEF AfterRead
<1>4. QED
    BY <1>2, <1>3 DEF AfterRead

LEMMA BeforeReadStep ==
    ASSUME IInv, NEW i \in Instances, BeforeRead(i)
    PROVE  IInv'
<1> DEFINE new == [call[i] EXCEPT !.wraps = call[i].wraps - 1, !.owed = call[i].owed + 1]
           methods == MethodsOf[Kind[ClassOf[i]]]
<1>1. /\ call[i] \in Call /\ call[i].at = "running" /\ call[i].wraps > 0
      /\ Balanced(call[i], methods)
    BY DEF BeforeRead, IInv, TypeOK, CallBalance
<1>2. call' = [call EXCEPT ![i] = new]
    BY DEF BeforeRead
<1>3. new \in Call
  <2>1. call[i].wraps - 1 \in Nat /\ call[i].owed + 1 \in Nat
        BY <1>1 DEF Call
  <2>2. QED
        BY <1>1, <2>1 DEF Call
<1>4. Balanced(new, methods)
  <2>1. /\ new.at = "running" /\ new.method = call[i].method /\ new.via = call[i].via
        /\ new.wraps = call[i].wraps - 1 /\ new.owed = call[i].owed + 1
        /\ new.seen = call[i].seen /\ new.bodies = call[i].bodies
        BY <1>1 DEF Call
  <2>2. QED
        BY <1>1, <2>1 DEF Balanced, Call
<1>5. QED
    BY <1>2, <1>3, <1>4, CallChangeOnly DEF BeforeRead

LEMMA RunBodyStep ==
    ASSUME IInv, NEW i \in Instances, RunBody(i)
    PROVE  IInv'
<1> DEFINE running == [call[i] EXCEPT !.bodies = call[i].bodies + 1]
           m == call[i].method
           c == ClassOf[i]
           k == After(call[i].of, Mro[c]) + 1
           methods == MethodsOf[Kind[c]]
           raised == [running EXCEPT !.at = "raised"]
           worked == [running EXCEPT !.at = "worked"]
           above == Frame(running, m, Resolve(Mro[c], k, m))
           sync == Frame(running, Sync(m), Dispatch(i, Sync(m)))
<1>1. /\ call[i] \in Call /\ call[i].at = "running" /\ call[i].wraps = 0
      /\ Balanced(call[i], methods) /\ c \in Classes
    BY ClassesAssumption DEF RunBody, CallBalance, IInv, TypeOK
<1>2. m \in methods /\ m \in Methods /\ call[i].via \in methods
    BY <1>1, KindMethods DEF Balanced
<1>3. running \in Call
  <2>1. call[i].bodies + 1 \in Nat
        BY <1>1 DEF Call
  <2>2. QED
        BY <1>1, <2>1 DEF Call
<1>4. /\ running.of = call[i].of /\ running.method = m /\ running.via = call[i].via
      /\ running.at = "running" /\ running.owed + running.seen <= running.bodies
    BY <1>1 DEF Call, Balanced
<1>5. CASE call' = [call EXCEPT ![i] = raised]
  <2>1. raised \in Call /\ Balanced(raised, methods)
        BY <1>3 DEF Call, Balanced
  <2>2. QED
        BY <1>5, <2>1, CallChangeOnly DEF RunBody
<1>6. CASE call' = [call EXCEPT ![i] = worked]
  <2>1. worked \in Call
        BY <1>3 DEF Call
  <2>2. /\ worked.at = "worked" /\ worked.method = m /\ worked.via = call[i].via
        /\ worked.owed + worked.seen <= worked.bodies
        BY <1>3, <1>4 DEF Call
  <2>3. Balanced(worked, methods)
        BY <1>2, <2>2 DEF Balanced
  <2>4. QED
        BY <1>6, <2>1, <2>3, CallChangeOnly DEF RunBody
<1>7. CASE call' = [call EXCEPT ![i] = above]
  <2>1. Resolve(Mro[c], k, m) \in Method /\ Resolve(Mro[c], k, m).wraps <= 1
        BY <1>1, <1>2, ResolveType, ResolveOnce DEF IInv
  <2>2. above \in Call /\ Balanced(above, methods)
        BY <1>2, <1>3, <1>4, <2>1, NextFrame
  <2>3. QED
        BY <1>7, <2>2, CallChangeOnly DEF RunBody
<1>8. CASE /\ call[i].of # Base /\ Body[call[i].of][m] = "delegates"
           /\ call' = [call EXCEPT ![i] = sync]
  <2>1. call[i].of \in Classes
        BY <1>1, <1>8 DEF Call
  <2>2. m # "put" /\ m # "get_tuple"
        BY <1>8, <2>1, ClassesAssumption
  <2>3. Sync(m) \in methods
        BY <1>1, <1>2, <2>2, KindMethods DEF Sync, MethodsOf, Methods, Reads, Kinds
  <2>4. Dispatch(i, Sync(m)) \in Method /\ Dispatch(i, Sync(m)).wraps <= 1 /\ Sync(m) \in Methods
        BY <2>3, DispatchOnce
  <2>5. sync \in Call /\ Balanced(sync, methods)
        BY <1>2, <1>3, <1>4, <2>3, <2>4, NextFrame
  <2>6. QED
        BY <1>8, <2>5, CallChangeOnly DEF RunBody
<1>9. \/ call' = [call EXCEPT ![i] = raised]
      \/ call' = [call EXCEPT ![i] = worked]
      \/ call' = [call EXCEPT ![i] = above]
      \/ /\ call[i].of # Base /\ Body[call[i].of][m] = "delegates"
         /\ call' = [call EXCEPT ![i] = sync]
  <2>1. call' = [call EXCEPT ![i] =
          IF running.of = Base THEN raised
          ELSE CASE Body[running.of][running.method] = "super" ->
                       Frame(running, running.method,
                             Resolve(Mro[c], After(running.of, Mro[c]) + 1, running.method))
                 [] Body[running.of][running.method] = "delegates" ->
                       Frame(running, Sync(running.method), Dispatch(i, Sync(running.method)))
                 [] OTHER -> worked]
        BY DEF RunBody
  <2>2. call' = [call EXCEPT ![i] =
          IF call[i].of = Base THEN raised
          ELSE CASE Body[call[i].of][m] = "super" -> above
                 [] Body[call[i].of][m] = "delegates" -> sync
                 [] OTHER -> worked]
        BY <1>4, <2>1
  <2>3. QED
        BY <2>2
<1>10. QED
    BY <1>5, <1>6, <1>7, <1>8, <1>9

LEMMA ReturnStep ==
    ASSUME IInv, NEW i \in Instances, Return(i)
    PROVE  IInv'
<1>1. Idle \in Call /\ Balanced(Idle, MethodsOf[Kind[ClassOf[i]]])
    BY DEF Idle, Call, Methods, Balanced
<1>2. met' \in [Instances -> Methods \cup {NoMethod}]
  <2>1. call[i].via \in Methods
        BY DEF IInv, TypeOK, Call
  <2>2. QED
        BY <2>1 DEF Return, IInv, TypeOK
<1>3. QED
    BY <1>1, <1>2, CallChange DEF Return

-----------------------------------------------------------------------------
(* The theorems.                                                           *)

LEMMA InitInv ==
    ASSUME Init
    PROVE  IInv
<1>1. own \in [Classes -> Table] /\ OwnOnce
    BY DEF Init, Table, Method, OwnOnce
<1>2. Idle \in Call
    BY DEF Idle, Call, Methods
<1>3. TypeOK
    BY <1>1, <1>2 DEF Init, TypeOK
<1>4. TablesOnce
    BY DEF Init, TablesOnce
<1>5. ASSUME NEW i \in Instances PROVE CallBalance(i)
    BY DEF Init, CallBalance, Balanced, Idle
<1>6. QED
    BY <1>1, <1>3, <1>4, <1>5 DEF IInv

LEMMA NextStep ==
    ASSUME IInv, Next
    PROVE  IInv'
<1>1. CASE \E c \in Classes : Define(c)
    BY <1>1, DefineStep
<1>2. ASSUME NEW lens \in Lenses \cup {NoLens}, InstallSavers(lens) \/ InstallStores(lens)
      PROVE  IInv'
    BY <1>2, AutoProtectStep DEF InstallSavers, InstallStores, Kinds, IInv, TypeOK
<1>3. CASE InstallGlobal
    BY <1>3, AutoProtectStep, ClassesAssumption DEF InstallGlobal, Kinds
<1>4. ASSUME NEW i \in Instances, Protect(i)
      PROVE  IInv'
    BY <1>4, ProtectStep DEF Protect
<1>5. ASSUME NEW i \in Instances, CallStep(i)
      PROVE  IInv'
    BY <1>5, BeginStep, BeforeWriteStep, BeforeReadStep, AfterReadStep, RunBodyStep, ReturnStep
       DEF CallStep
<1>6. QED
    BY <1>1, <1>2, <1>3, <1>4, <1>5 DEF Next

\* A step that changes nothing keeps the invariant.
LEMMA StutterStep ==
    ASSUME IInv, UNCHANGED vars
    PROVE  IInv'
    BY DEF vars, classVars, IInv, TypeOK, OwnOnce, TablesOnce, TableOf, CallBalance, Balanced

LEMMA Invariance == Spec => []IInv
<1>1. Init => IInv
    BY InitInv
<1>2. IInv /\ [Next]_vars => IInv'
    BY NextStep, StutterStep
<1>3. QED
    BY <1>1, <1>2, PTL DEF Spec

\* Tables, lenses and calls stay what patching, swapping and calling make them:
\* in particular every method a call is dispatched to exists.
THEOREM TypeCorrect == Spec => []TypeOK
<1>1. IInv => TypeOK
    BY DEF IInv
<1>2. QED
    BY <1>1, Invariance, PTL

\* Wrappers do not stack up: for any classes, hierarchy and order of definitions,
\* installs and protections, a call meets a lens at most once for each body.
THEOREM WrappersDoNotStack == Spec => []InspectedOncePerBody
<1>1. IInv => InspectedOncePerBody
  <2>1. ASSUME IInv, NEW i \in Instances, call[i].at = "worked"
        PROVE  call[i].seen <= call[i].bodies
    <3>1. call[i].owed \in Nat /\ call[i].seen \in Nat /\ call[i].bodies \in Nat
          BY <2>1 DEF IInv, TypeOK, Call
    <3>2. call[i].owed + call[i].seen <= call[i].bodies
          BY <2>1 DEF IInv, CallBalance, Balanced
    <3>3. QED
          BY <3>1, <3>2
  <2>2. QED
        BY <2>1 DEF InspectedOncePerBody
<1>2. QED
    BY <1>1, Invariance, PTL

-----------------------------------------------------------------------------
(* The lens of an instance.                                                *)

\* An instance has a lens exactly if its class was swapped, so that the lens is
\* given once.
LensWithTable == \A i \in Instances : bound[i] # NoTable <=> lensOf[i] # NoLens

\* A call of a swapped instance has met the instance's lens, or has a wrapper
\* to go into or to come back through.
KeepsLens(c, lens) ==
    c.swapped # NoLens =>
        /\ c.swapped = lens
        /\ c.by \subseteq {lens}
        /\ c.at = "running" => c.by # {} \/ c.wraps + c.owed > 0
        /\ c.at = "worked"  => c.by # {} \/ c.owed > 0

SwapInv == LensWithTable /\ \A i \in Instances : KeepsLens(call[i], lensOf[i])

\* A step of a call changes that call only.
LEMMA SwapCallChange ==
    ASSUME IInv, SwapInv, NEW i \in Instances, NEW new \in Call,
           call' = [call EXCEPT ![i] = new],
           KeepsLens(new, lensOf[i]),
           UNCHANGED <<bound, lensOf>>
    PROVE  SwapInv'
<1>1. LensWithTable'
    BY DEF SwapInv, LensWithTable
<1>2. ASSUME NEW j \in Instances PROVE KeepsLens(call'[j], lensOf'[j])
  <2>1. call'[j] = IF j = i THEN new ELSE call[j]
        BY DEF IInv, TypeOK
  <2>2. QED
        BY <2>1 DEF SwapInv
<1>3. QED
    BY <1>1, <1>2 DEF SwapInv, KeepsLens

\* A step that gives no lens and is no step of a call.
LEMMA SwapUnmoved ==
    ASSUME SwapInv, UNCHANGED <<bound, lensOf, call>>
    PROVE  SwapInv'
    BY DEF SwapInv, LensWithTable, KeepsLens

\* Asking adds the instance's lens, if the instance has one.
LEMMA InspectedBy ==
    ASSUME IInv, NEW i \in Instances
    PROVE  /\ Inspected(i).swapped = call[i].swapped
           /\ lensOf[i] # NoLens => Inspected(i).by = call[i].by \cup {lensOf[i]}
<1>1. call[i] \in Call
    BY DEF IInv, TypeOK
<1>2. CASE LensFor(i) = NoLens
    BY <1>2 DEF Inspected, LensFor
<1>3. CASE LensFor(i) # NoLens
  <2>1. Inspected(i) = [call[i] EXCEPT !.seen = call[i].seen + 1,
                                       !.by = call[i].by \cup {LensFor(i)}]
        BY <1>3 DEF Inspected
  <2>2. QED
        BY <1>1, <2>1 DEF LensFor, Call
<1>4. QED
    BY <1>2, <1>3

LEMMA SwapProtect ==
    ASSUME IInv, SwapInv, NEW i \in Instances, NEW lens \in Lenses \cup {NoLens},
           ProtectAgain(i, lens) \/ ProtectBySwap(i, lens) \/ ProtectInPlace(i, lens)
    PROVE  SwapInv'
<1> DEFINE c == ClassOf[i]
<1>1. CASE ProtectAgain(i, lens)
    BY <1>1, SwapUnmoved DEF ProtectAgain
<1>2. CASE ProtectInPlace(i, lens)
    BY <1>2, SwapUnmoved DEF ProtectInPlace
<1>3. CASE ProtectBySwap(i, lens)
  <2>1. c \in Classes /\ ~ClassFlagged(c) /\ bound[i] = NoTable
        BY <1>3, ClassesAssumption DEF ProtectBySwap, IsProtected
  <2>2. ProtectedTable(c) # NoTable
        BY <2>1, ProtectedTableOnce, NoneAssumption
  <2>3. /\ bound' = [bound EXCEPT ![i] = ProtectedTable(c)]
        /\ lensOf' = [lensOf EXCEPT ![i] = Resolved(lens)]
        /\ Resolved(lens) # NoLens /\ UNCHANGED call
        BY <1>3 DEF ProtectBySwap
  <2>4. LensWithTable'
    <3>1. ASSUME NEW j \in Instances PROVE bound'[j] # NoTable <=> lensOf'[j] # NoLens
          BY <2>2, <2>3 DEF SwapInv, LensWithTable, IInv, TypeOK
    <3>2. QED
          BY <3>1 DEF LensWithTable
  <2>5. ASSUME NEW j \in Instances PROVE KeepsLens(call'[j], lensOf'[j])
    <3>1. CASE j = i
      <4>1. lensOf[i] = NoLens
            BY <2>1 DEF SwapInv, LensWithTable
      <4>2. call[i].swapped = NoLens
            BY <4>1 DEF SwapInv, KeepsLens
      <4>3. QED
            BY <2>3, <3>1, <4>2 DEF KeepsLens
    <3>2. CASE j # i
          BY <2>3, <3>2 DEF SwapInv, IInv, TypeOK
    <3>3. QED
          BY <3>1, <3>2
  <2>6. QED
        BY <2>4, <2>5 DEF SwapInv, KeepsLens
<1>4. QED
    BY <1>1, <1>2, <1>3

LEMMA SwapBegin ==
    ASSUME IInv, SwapInv, NEW i \in Instances, NEW m \in Methods, Begin(i, m)
    PROVE  SwapInv'
<1> DEFINE started == [Idle EXCEPT !.via = m, !.at = "running", !.swapped = lensOf[i],
                                   !.auto = AutoOn(i)]
           new == Frame(started, m, Dispatch(i, m))
<1>1. m \in MethodsOf[Kind[ClassOf[i]]] /\ call' = [call EXCEPT ![i] = new]
    BY DEF Begin
<1>2. Dispatch(i, m) \in Method
    BY <1>1, DispatchOnce
<1>3. /\ started \in Call /\ started.at = "running" /\ started.swapped = lensOf[i]
      /\ started.owed = 0 /\ started.by = {}
    BY DEF Idle, Call, Methods, AutoOn, IInv, TypeOK
<1>4. /\ new \in Call /\ new.at = "running" /\ new.swapped = lensOf[i] /\ new.by = {}
      /\ new.owed = 0 /\ new.wraps = Dispatch(i, m).wraps
  <2> HIDE DEF started
  <2>1. new = [started EXCEPT !.method = m, !.of = Dispatch(i, m).of,
                              !.wraps = Dispatch(i, m).wraps]
        BY DEF Frame
  <2>2. QED
        BY <1>2, <1>3, <2>1 DEF Call, Method
<1>5. lensOf[i] # NoLens => Dispatch(i, m).wraps = 1
    BY <1>1 DEF Dispatch, SwapInv, LensWithTable, IInv, TablesOnce, TableOf
<1>6. KeepsLens(new, lensOf[i])
    BY <1>4, <1>5 DEF KeepsLens
<1>7. QED
    BY <1>1, <1>4, <1>6, SwapCallChange DEF Begin

LEMMA SwapBeforeWrite ==
    ASSUME IInv, SwapInv, NEW i \in Instances, BeforeWrite(i)
    PROVE  SwapInv'
<1> DEFINE asking == Inspected(i)
           on == [asking EXCEPT !.wraps = asking.wraps - 1]
           refused == [asking EXCEPT !.at = "refused"]
<1>1. /\ asking \in Call /\ asking.wraps \in Nat \ {0} /\ asking.at = "running"
      /\ asking.swapped = call[i].swapped
      /\ KeepsLens(call[i], lensOf[i])
    BY InspectedCall, InspectedBy DEF BeforeWrite, SwapInv, Call
<1>2. lensOf[i] # NoLens => asking.by = call[i].by \cup {lensOf[i]}
    BY InspectedBy
<1>3. ASSUME NEW new \in {on, refused}
      PROVE  new \in Call /\ new.swapped = asking.swapped /\ new.by = asking.by
             /\ new.at \in {"running", "refused"}
    BY <1>1, <1>3 DEF Call
<1>4. \A new \in {on, refused} : KeepsLens(new, lensOf[i])
    BY <1>1, <1>2, <1>3 DEF KeepsLens
<1>5. call' = [call EXCEPT ![i] = on] \/ call' = [call EXCEPT ![i] = refused]
    BY DEF BeforeWrite
<1>6. QED
  <2> HIDE DEF on, refused
  <2>1. PICK new \in {on, refused} : call' = [call EXCEPT ![i] = new]
        BY <1>5
  <2>2. QED
        BY <1>3, <1>4, <2>1, SwapCallChange DEF BeforeWrite

LEMMA SwapAfterRead ==
    ASSUME IInv, SwapInv, NEW i \in Instances, AfterRead(i)
    PROVE  SwapInv'
<1> DEFINE asking == Inspected(i)
           on == [asking EXCEPT !.owed = asking.owed - 1]
           refused == [asking EXCEPT !.at = "refused"]
<1>1. /\ asking \in Call /\ asking.owed \in Nat \ {0} /\ asking.at = "worked"
      /\ asking.swapped = call[i].swapped
      /\ KeepsLens(call[i], lensOf[i])
    BY InspectedCall, InspectedBy DEF AfterRead, SwapInv, Call
<1>2. lensOf[i] # NoLens => asking.by = call[i].by \cup {lensOf[i]}
    BY InspectedBy
<1>3. ASSUME NEW new \in {on, refused}
      PROVE  new \in Call /\ new.swapped = asking.swapped /\ new.by = asking.by
             /\ new.at \in {"worked", "refused"}
    BY <1>1, <1>3 DEF Call
<1>4. \A new \in {on, refused} : KeepsLens(new, lensOf[i])
    BY <1>1, <1>2, <1>3 DEF KeepsLens
<1>5. call' = [call EXCEPT ![i] = on] \/ call' = [call EXCEPT ![i] = refused]
    BY DEF AfterRead
<1>6. QED
  <2> HIDE DEF on, refused
  <2>1. PICK new \in {on, refused} : call' = [call EXCEPT ![i] = new]
        BY <1>5
  <2>2. QED
        BY <1>3, <1>4, <2>1, SwapCallChange DEF AfterRead

LEMMA SwapBeforeRead ==
    ASSUME IInv, SwapInv, NEW i \in Instances, BeforeRead(i)
    PROVE  SwapInv'
<1> DEFINE new == [call[i] EXCEPT !.wraps = call[i].wraps - 1, !.owed = call[i].owed + 1]
<1>1. /\ call[i] \in Call /\ call[i].at = "running" /\ call[i].wraps > 0
      /\ KeepsLens(call[i], lensOf[i])
    BY DEF BeforeRead, IInv, TypeOK, SwapInv
<1>2. call[i].wraps - 1 \in Nat /\ call[i].owed + 1 \in Nat
    BY <1>1 DEF Call
<1>3. /\ new \in Call /\ new.at = "running" /\ new.swapped = call[i].swapped
      /\ new.by = call[i].by /\ new.wraps \in Nat /\ new.owed \in Nat \ {0}
  <2>1. new \in Call
        BY <1>1, <1>2 DEF Call
  <2>2. /\ new.at = call[i].at /\ new.swapped = call[i].swapped /\ new.by = call[i].by
        /\ new.wraps = call[i].wraps - 1 /\ new.owed = call[i].owed + 1
        BY <1>1 DEF Call
  <2>3. new.owed # 0
        BY <1>1, <1>2, <2>2 DEF Call
  <2>4. QED
        BY <1>1, <1>2, <2>1, <2>2, <2>3
<1>4. KeepsLens(new, lensOf[i])
    BY <1>1, <1>3 DEF KeepsLens
<1>5. call' = [call EXCEPT ![i] = new]
    BY DEF BeforeRead
<1>6. QED
    BY <1>3, <1>4, <1>5, SwapCallChange DEF BeforeRead

\* A body that runs has no wrapper ahead of it: the lens was met, or a read is
\* to come back through one.
LEMMA SwapRunBody ==
    ASSUME IInv, SwapInv, NEW i \in Instances, RunBody(i)
    PROVE  SwapInv'
<1>1. IInv'
    BY RunBodyStep
<1>2. call[i] \in Call /\ call'[i] \in Call
    BY <1>1 DEF IInv, TypeOK
<1>3. /\ call[i].at = "running" /\ call[i].wraps = 0 /\ KeepsLens(call[i], lensOf[i])
    BY DEF RunBody, SwapInv
<1>4. /\ call'[i].swapped = call[i].swapped /\ call'[i].by = call[i].by
      /\ call'[i].owed = call[i].owed
  <2> DEFINE running == [call[i] EXCEPT !.bodies = call[i].bodies + 1]
             raised == [running EXCEPT !.at = "raised"]
             worked == [running EXCEPT !.at = "worked"]
             above == Frame(running, running.method,
                         Resolve(Mro[ClassOf[i]], After(running.of, Mro[ClassOf[i]]) + 1,
                                 running.method))
             sync == Frame(running, Sync(running.method), Dispatch(i, Sync(running.method)))
  <2>1. call'[i] \in {raised, worked, above, sync}
    <3>1. call'[i] =
             IF running.of = Base THEN raised
             ELSE CASE Body[running.of][running.method] = "super" -> above
                    [] Body[running.of][running.method] = "delegates" -> sync
                    [] OTHER -> worked
          BY DEF RunBody, IInv, TypeOK
    <3> HIDE DEF raised, worked, above, sync
    <3>2. QED
          BY <3>1
  <2>2. \A new \in {raised, worked, above, sync} :
            new.swapped = running.swapped /\ new.by = running.by /\ new.owed = running.owed
        BY <1>2 DEF Frame, Call
  <2>3. /\ running.swapped = call[i].swapped /\ running.by = call[i].by
        /\ running.owed = call[i].owed
        BY <1>2 DEF Call
  <2>4. QED
        BY <2>1, <2>2, <2>3
<1>5. KeepsLens(call'[i], lensOf[i])
    BY <1>2, <1>3, <1>4 DEF KeepsLens, Call
<1>6. call' = [call EXCEPT ![i] = call'[i]]
    BY DEF RunBody, IInv, TypeOK
<1>7. QED
    BY <1>2, <1>5, <1>6, SwapCallChange DEF RunBody

LEMMA SwapReturn ==
    ASSUME IInv, SwapInv, NEW i \in Instances, Return(i)
    PROVE  SwapInv'
<1>1. Idle \in Call /\ KeepsLens(Idle, lensOf[i])
    BY DEF Idle, Call, Methods, KeepsLens
<1>2. QED
    BY <1>1, SwapCallChange DEF Return

LEMMA SwapNext ==
    ASSUME IInv, SwapInv, [Next]_vars
    PROVE  SwapInv'
<1>1. CASE \E c \in Classes : Define(c)
    BY <1>1, SwapUnmoved DEF Define
<1>2. CASE \E lens \in Lenses \cup {NoLens} : InstallSavers(lens) \/ InstallStores(lens)
    BY <1>2, SwapUnmoved DEF InstallSavers, InstallStores, AutoProtect
<1>3. CASE InstallGlobal
    BY <1>3, SwapUnmoved DEF InstallGlobal, AutoProtect
<1>4. ASSUME NEW i \in Instances, Protect(i) PROVE SwapInv'
    BY <1>4, SwapProtect DEF Protect
<1>5. ASSUME NEW i \in Instances, CallStep(i) PROVE SwapInv'
    BY <1>5, SwapBegin, SwapBeforeWrite, SwapBeforeRead, SwapAfterRead, SwapRunBody, SwapReturn
       DEF CallStep
<1>6. CASE UNCHANGED vars
    BY <1>6, SwapUnmoved DEF vars
<1>7. QED
    BY <1>1, <1>2, <1>3, <1>4, <1>5, <1>6 DEF Next

\* An instance swapped for one lens meets that lens and no other, for any classes
\* and order of installs and protections.
THEOREM SwappedMeetsItsLens == Spec => []SwappedKeepsLens
<1>1. Init => SwapInv
    BY DEF Init, SwapInv, LensWithTable, KeepsLens, Idle
<1>2. IInv /\ SwapInv /\ [Next]_vars => SwapInv'
    BY SwapNext
<1>3. IInv /\ SwapInv => SwappedKeepsLens
  <2>1. ASSUME IInv, SwapInv, NEW i \in Instances, Done(i), call[i].swapped # NoLens
        PROVE  call[i].by = {call[i].swapped}
        BY <2>1 DEF SwapInv, KeepsLens, Done
  <2>2. QED
        BY <2>1 DEF SwappedKeepsLens
<1>4. QED
    BY <1>1, <1>2, <1>3, Invariance, PTL DEF Spec
=============================================================================
