-------------------------- MODULE ClassPathProofs --------------------------
(***************************************************************************)
(* Theorems about ClassProtection that follow a call along its path: the   *)
(* bodies it runs through, up the mro by super() and to the synchronous    *)
(* method by delegation, and the wrappers it meets there.  Which bodies    *)
(* these are depends on the sources only.  What patching adds is where the *)
(* wrappers stand among them, and a wrapper never goes away.               *)
(***************************************************************************)
EXTENDS ClassProtectionProofs, FiniteSets, FiniteSetTheorems,
        SequenceTheorems, WellFoundedInduction

\* The class at a position of an mro; the base comes behind the last one.
At(c, q) == IF q \in 1 .. Len(Mro[c]) THEN Mro[c][q] ELSE Base

\* The body that attribute lookup from position k on ends at, whatever is patched.
FirstBody(c, k, m, q) ==
    /\ q \in k .. Len(Mro[c]) + 1
    /\ \A j \in k .. q - 1 : Body[Mro[c][j]][m] = "absent"
    /\ q <= Len(Mro[c]) => Body[Mro[c][q]][m] # "absent"

\* A method of its own that has a wrapper.
Wraps(c, m) == own[c][m] # NoMethod /\ own[c][m].wraps = 1

\* A path goes on beyond a class without a body of the method, or with one that
\* calls super().
Passes(c, k, m) == Body[Mro[c][k]][m] \in {"absent", "super"}

\* A path that is at position q of m's mro comes to a wrapper; or it comes to a
\* body that delegates.
WrapperFrom(c, q, m) ==
    \E j \in q .. Len(Mro[c]) : Wraps(Mro[c][j], m) /\ \A k \in q .. j - 1 : Passes(c, k, m)
DelegatesFrom(c, q, m) ==
    \E j \in q .. Len(Mro[c]) :
        Body[Mro[c][j]][m] = "delegates" /\ \A k \in q .. j - 1 : Passes(c, k, m)

-----------------------------------------------------------------------------
(* The classes.                                                            *)

\* A class has a method of its own that its source defines; one in no wrapper is
\* from the source; and a method runs the body that lookup ends at.
OwnBodies ==
    \A c \in Classes, m \in Methods :
        /\ Body[c][m] # "absent" => own[c][m] # NoMethod
        /\ own[c][m] # NoMethod =>
              /\ own[c][m].wraps = 0 => Body[c][m] # "absent"
              /\ \E q \in 1 .. Len(Mro[c]) + 1 :
                     FirstBody(c, 1, m, q) /\ own[c][m].of = At(c, q)

\* The flag of its own says that the methods of its kind are wrapped.
FlagWraps == \A c \in flagged : \A m \in MethodsOf[Kind[c]] : Wraps(c, m)

\* A class is defined after its bases, and where the hook is installed every
\* class directly below the base is patched.
BasesDefined == \A c \in defined : \A k \in 1 .. Len(Mro[c]) : Mro[c][k] \in defined
RootsPatched == \A c \in defined : Kind[c] \in hooked /\ Len(Mro[c]) = 1 => c \in flagged

ClassInv == OwnBodies /\ FlagWraps /\ BasesDefined /\ RootsPatched

-----------------------------------------------------------------------------
(* The calls.                                                              *)

\* Every call of m on the instance meets a wrapper.
Guarded(i, m) ==
    LET c == ClassOf[i] IN
    \/ bound[i] # NoTable
    \/ WrapperFrom(c, 1, m)
    \/ DelegatesFrom(c, 1, m) /\ WrapperFrom(c, 1, Sync(m))

\* A call that runs the body at position q, or is about to.
Standing(c, r, q) ==
    /\ q \in 1 .. Len(Mro[c]) + 1
    /\ r.of = At(c, q)
    /\ q <= Len(Mro[c]) => Body[Mro[c][q]][r.method] # "absent"

\* How it came there, if its class was not swapped.
Came(c, r, q) ==
    /\ \A k \in 1 .. q - 1 : Passes(c, k, r.method)
    /\ \/ r.method = r.via
       \/ r.method = Sync(r.via) /\ DelegatesFrom(c, 1, r.via)

\* What is ahead of it.
Ahead(i, r, q) ==
    LET c == ClassOf[i] IN
    \/ /\ q <= Len(Mro[c]) /\ Passes(c, q, r.method)
       /\ WrapperFrom(c, q + 1, r.method)
    \/ /\ DelegatesFrom(c, q, r.method)
       /\ bound[i] # NoTable \/ WrapperFrom(c, 1, Sync(r.method))

\* The classes below another saver or store do no method's work themselves: their
\* overrides call super(), or the synchronous method.
OverridesCallUp ==
    \A c \in Classes : \A m \in MethodsOf[Kind[c]] : Len(Mro[c]) > 1 => Body[c][m] # "works"

\* Calls that have to meet a lens: of a method that met one, and under
\* auto-protection.
Due(i, r) == met[i] = r.via \/ (r.auto /\ OverridesCallUp)

Wrappers(r) == r.wraps + r.owed + r.seen

\* A call that met a wrapper has one on its path; a call that is due has met one,
\* or has one ahead.
OnPath(i, r) ==
    /\ r.at = "running" /\ bound[i] = NoTable =>
          \E q \in 1 .. Len(Mro[ClassOf[i]]) + 1 : Standing(ClassOf[i], r, q) /\ Came(ClassOf[i], r, q)
    /\ r.at \in {"running", "worked"} /\ Wrappers(r) > 0 => Guarded(i, r.via)
    /\ r.at = "running" /\ Due(i, r) =>
          \/ Wrappers(r) > 0
          \/ \E q \in 1 .. Len(Mro[ClassOf[i]]) + 1 : Standing(ClassOf[i], r, q) /\ Ahead(i, r, q)
    /\ r.at = "worked" /\ Due(i, r) => r.owed + r.seen > 0
    /\ r.at = "worked" => r.wraps = 0
    /\ r.seen > 0 \/ r.auto => LensFor(i) # NoLens

MetGuarded(i) == met[i] # NoMethod => Guarded(i, met[i]) /\ LensFor(i) # NoLens

PathInv == \A i \in Instances : OnPath(i, call[i]) /\ MetGuarded(i)

-----------------------------------------------------------------------------
(* Facts of the mro.                                                       *)

\* A nonempty set of positions has a least one.
LEMMA LeastPosition ==
    ASSUME NEW n \in Nat, NEW T \in SUBSET (1 .. n), T # {}
    PROVE  \E x \in T : \A y \in T : x <= y
<1> DEFINE Below(x) == {y \in T : y < x}
           family == {Below(x) : x \in T}
           S == 1 .. n
<1>1. IsFiniteSet(S)
    BY FS_Interval
<1>2. IsWellFoundedOn(StrictSubsetOrdering(S), FiniteSubsetsOf(S))
    BY <1>1, FS_StrictSubsetOrderingWellFounded
<1>3. family \subseteq FiniteSubsetsOf(S)
  <2>1. ASSUME NEW x \in T PROVE Below(x) \subseteq S /\ IsFiniteSet(Below(x))
    <3>1. Below(x) \subseteq S
          OBVIOUS
    <3>2. QED
          BY <1>1, <3>1, FS_Subset
  <2>2. QED
        BY <2>1 DEF FiniteSubsetsOf
<1>4. family # {}
    OBVIOUS
<1>5. PICK U \in family : \A V \in family : ~(<<V, U>> \in StrictSubsetOrdering(S))
  <2> HIDE DEF family
  <2>1. QED
        BY <1>2, <1>3, <1>4, WFMin
<1>6. PICK x \in T : U = Below(x)
    OBVIOUS
<1>7. ASSUME NEW y \in T, y < x PROVE FALSE
  <2>1. Below(y) \in family
        OBVIOUS
  <2>2. y \in Below(x) /\ y \notin Below(y)
        BY <1>7
  <2>3. \A z \in T : z \in Int
        OBVIOUS
  <2>4. \A z \in T : z < y => z < x
        BY <1>7, <2>3
  <2>5. Below(y) \subseteq Below(x)
        BY <2>4
  <2>6. <<Below(y), U>> \in StrictSubsetOrdering(S)
        BY <1>6, <2>2, <2>5 DEF StrictSubsetOrdering
  <2>7. QED
        BY <1>5, <2>1, <2>6
<1>8. QED
    BY <1>7

\* The mro of a class in the mro of another is the rest of that one.
LEMMA MroTail ==
    ASSUME NEW c \in Classes, NEW k \in 1 .. Len(Mro[c])
    PROVE  LET d == Mro[c][k] IN
           /\ d \in Classes /\ Kind[d] = Kind[c]
           /\ Len(Mro[d]) = Len(Mro[c]) - k + 1
           /\ \A j \in 1 .. Len(Mro[d]) : Mro[d][j] = Mro[c][k + j - 1]
<1>1. Mro[c] \in Seq(Classes)
    BY ClassesAssumption
<1>2. Len(Mro[c]) \in Nat /\ k \in 1 .. Len(Mro[c]) + 1 /\ Mro[c][k] \in Classes
    BY <1>1, LenProperties
<1>3. Mro[Mro[c][k]] = SubSeq(Mro[c], k, Len(Mro[c])) /\ Kind[Mro[c][k]] = Kind[c]
    BY MroAssumption
<1>4. /\ Len(SubSeq(Mro[c], k, Len(Mro[c]))) = Len(Mro[c]) - k + 1
      /\ \A j \in 1 .. Len(Mro[c]) - k + 1 :
             SubSeq(Mro[c], k, Len(Mro[c]))[j] = Mro[c][k + j - 1]
    BY <1>1, <1>2, SubSeqProperties
<1>5. QED
    BY <1>2, <1>3, <1>4

\* No class is twice in an mro; so super() goes on behind the body that calls it.
LEMMA AfterPosition ==
    ASSUME NEW c \in Classes, NEW q \in 1 .. Len(Mro[c])
    PROVE  After(Mro[c][q], Mro[c]) = q
<1>1. Len(Mro[c]) \in Nat
    BY ClassesAssumption, LenProperties
<1>2. ASSUME NEW k \in 1 .. Len(Mro[c]), Mro[c][k] = Mro[c][q] PROVE k = q
  <2>1. Len(Mro[Mro[c][k]]) = Len(Mro[c]) - k + 1
        BY MroTail
  <2>2. Len(Mro[Mro[c][q]]) = Len(Mro[c]) - q + 1
        BY MroTail
  <2>3. QED
        BY <1>1, <1>2, <2>1, <2>2
<1>3. After(Mro[c][q], Mro[c]) \in 1 .. Len(Mro[c])
      /\ Mro[c][After(Mro[c][q], Mro[c])] = Mro[c][q]
    BY DEF After
<1>4. QED
    BY <1>2, <1>3

\* Where attribute lookup from position k on ends, and in which wrapper: in one
\* if a class it looks at on the way has a wrapped method.
LEMMA ResolveBody ==
    ASSUME TypeOK, OwnOnce, OwnBodies, NEW c \in Classes, NEW m \in Methods,
           NEW k \in 1 .. Len(Mro[c]) + 1
    PROVE  \E q \in k .. Len(Mro[c]) + 1 :
               /\ FirstBody(c, k, m, q)
               /\ Resolve(Mro[c], k, m).of = At(c, q)
               /\ Resolve(Mro[c], k, m).wraps > 0
                     <=> \E j \in k .. Len(Mro[c]) : j <= q /\ Wraps(Mro[c][j], m)
<1> DEFINE n == Len(Mro[c])
           owned == {i \in 1 .. n : i >= k /\ own[Mro[c][i]][m] # NoMethod}
           first == {i \in 1 .. n :
                        i >= k /\ Has(Mro[c], i, m) /\ \A j \in k .. i - 1 : ~Has(Mro[c], j, m)}
<1>1. n \in Nat /\ \A i \in 1 .. n : Mro[c][i] \in Classes
    BY ClassesAssumption, LenProperties
<1>2. CASE owned = {}
  <2>1. Resolve(Mro[c], k, m) = [of |-> Base, wraps |-> 0]
        BY <1>2 DEF Resolve, Has
  <2>2. \A j \in k .. n : Body[Mro[c][j]][m] = "absent" /\ ~Wraps(Mro[c][j], m)
        BY <1>1, <1>2 DEF OwnBodies, Wraps
  <2>3. FirstBody(c, k, m, n + 1) /\ At(c, n + 1) = Base
        BY <1>1, <2>2 DEF FirstBody, At
  <2>4. QED
        BY <1>1, <2>1, <2>2, <2>3
<1>3. CASE owned # {}
  <2>1. PICK i \in owned : \A y \in owned : i <= y
        BY <1>1, <1>3, LeastPosition
  <2> DEFINE d == Mro[c][i]
  <2>2. i \in k .. n /\ i \in 1 .. n /\ d \in Classes /\ own[d][m] # NoMethod
        BY <1>1, <2>1
  <2>3. \A j \in k .. i - 1 : own[Mro[c][j]][m] = NoMethod
        BY <1>1, <2>1
  <2>4. Resolve(Mro[c], k, m) = own[d][m]
    <3>1. first = {i}
          BY <1>1, <2>1, <2>2, <2>3 DEF Has
    <3>2. QED
          BY <3>1 DEF Resolve
  <2>5. PICK p \in 1 .. Len(Mro[d]) + 1 : FirstBody(d, 1, m, p) /\ own[d][m].of = At(d, p)
        BY <2>2 DEF OwnBodies
  <2>6. /\ Len(Mro[d]) = n - i + 1
        /\ \A j \in 1 .. Len(Mro[d]) : Mro[d][j] = Mro[c][i + j - 1]
        BY <2>2, MroTail
  <2> DEFINE q == i + p - 1
  <2>7. q \in i .. n + 1 /\ q \in k .. n + 1 /\ (q <= n <=> p <= Len(Mro[d]))
        BY <1>1, <2>2, <2>5, <2>6
  <2>8. FirstBody(c, k, m, q)
    <3>1. ASSUME NEW j \in k .. q - 1 PROVE Body[Mro[c][j]][m] = "absent"
      <4>1. CASE j < i
            BY <1>1, <2>2, <2>3, <4>1 DEF OwnBodies
      <4>2. CASE j >= i
        <5>1. j - i + 1 \in 1 .. p - 1 /\ j - i + 1 \in 1 .. Len(Mro[d])
              BY <1>1, <2>2, <2>5, <2>6, <4>2
        <5>2. Mro[d][j - i + 1] = Mro[c][j]
              BY <1>1, <2>2, <2>6, <4>2, <5>1
        <5>3. QED
              BY <2>5, <5>1, <5>2 DEF FirstBody
      <4>3. QED
            BY <1>1, <2>2, <4>1, <4>2
    <3>2. q <= n => Body[Mro[c][q]][m] # "absent"
          BY <2>5, <2>6, <2>7 DEF FirstBody
    <3>3. QED
          BY <2>7, <3>1, <3>2 DEF FirstBody
  <2>9. own[d][m].of = At(c, q)
        BY <1>1, <2>2, <2>5, <2>6, <2>7 DEF At
  <2>10. own[d][m].wraps > 0 <=> \E j \in k .. n : j <= q /\ Wraps(Mro[c][j], m)
    <3>1. own[d][m].wraps \in {0, 1}
          BY <2>2 DEF OwnOnce
    <3>2. own[d][m].wraps = 1 => i \in k .. n /\ i <= q /\ Wraps(Mro[c][i], m)
          BY <2>2, <2>7 DEF Wraps
    <3>3. ASSUME own[d][m].wraps = 0, NEW j \in k .. n, j <= q, Wraps(Mro[c][j], m)
          PROVE  FALSE
      <4>1. Body[d][m] # "absent" /\ Mro[d][1] = d
            BY <2>2, <3>3, ClassesAssumption DEF OwnBodies
      <4>2. p = 1
        <5>1. \A l \in 1 .. p - 1 : Body[Mro[d][l]][m] = "absent"
              BY <2>5 DEF FirstBody
        <5>2. 1 \notin 1 .. p - 1
              BY <4>1, <5>1
        <5>3. p \in Nat /\ p >= 1
              BY <2>5, <2>6, <1>1, <2>2
        <5>4. QED
              BY <5>2, <5>3
      <4>3. j \in owned
            BY <1>1, <3>3 DEF Wraps
      <4>4. j = i
            BY <2>1, <2>2, <3>3, <4>2, <4>3
      <4>5. QED
            BY <3>3, <4>4 DEF Wraps
    <3>4. CASE own[d][m].wraps = 0
      <4>1. ~(\E j \in k .. n : j <= q /\ Wraps(Mro[c][j], m))
            BY <3>3, <3>4
      <4>2. QED
            BY <3>4, <4>1
    <3>5. CASE own[d][m].wraps = 1
      <4>1. \E j \in k .. n : j <= q /\ Wraps(Mro[c][j], m)
            BY <3>2, <3>5
      <4>2. QED
            BY <3>5, <4>1
    <3>6. QED
          BY <3>1, <3>4, <3>5
  <2> HIDE DEF q
  <2>11. QED
        BY <2>4, <2>7, <2>8, <2>9, <2>10
<1>4. QED
    BY <1>2, <1>3

\* Patching classes that have no flag keeps bodies, and takes no wrapper away.
LEMMA PatchBodies ==
    ASSUME IInv, OwnBodies, FlagWraps, NEW patched \in SUBSET Classes,
           \A c \in patched : ~ClassFlagged(c),
           PatchInPlace(patched)
    PROVE  /\ OwnBodies' /\ FlagWraps'
           /\ \A c \in Classes, m \in Methods : Wraps(c, m) => Wraps(c, m)'
<1>1. \A c \in Classes : own'[c] = IF c \in patched THEN Wrapped(c) ELSE own[c]
    BY DEF PatchInPlace
<1>2. ASSUME NEW c \in patched, NEW m \in MethodsOf[Kind[c]]
      PROVE  /\ own'[c][m] # NoMethod /\ own'[c][m].wraps = 1
             /\ own'[c][m].of = Resolve(Mro[c], 1, m).of
  <2>1. m \in Methods /\ own'[c] = Wrapped(c) /\ Resolve(Mro[c], 1, m) \in Method
        BY <1>1, KindMethods, ResolveType DEF IInv
  <2>2. Wrapped(c)[m] = [Resolve(Mro[c], 1, m) EXCEPT !.wraps = @ + 1]
        BY <2>1 DEF Wrapped
  <2>3. Wrapped(c)[m] # NoMethod /\ Wrapped(c)[m].wraps = 1
        BY <2>1, WrappedOnce DEF IInv, TableOf
  <2>4. QED
        BY <2>1, <2>2, <2>3 DEF Method
<1>3. ASSUME NEW c \in patched, NEW m \in Methods, m \notin MethodsOf[Kind[c]]
      PROVE  own'[c][m] = own[c][m]
    BY <1>1, <1>3 DEF Wrapped
<1>4. ASSUME NEW c \in Classes, NEW m \in Methods
      PROVE  /\ Body[c][m] # "absent" => own'[c][m] # NoMethod
             /\ own'[c][m] # NoMethod =>
                   /\ own'[c][m].wraps = 0 => Body[c][m] # "absent"
                   /\ \E q \in 1 .. Len(Mro[c]) + 1 :
                          FirstBody(c, 1, m, q) /\ own'[c][m].of = At(c, q)
  <2>1. CASE c \in patched /\ m \in MethodsOf[Kind[c]]
    <3>1. 1 \in 1 .. Len(Mro[c]) + 1
          BY ClassesAssumption, LenProperties
    <3>2. \E q \in 1 .. Len(Mro[c]) + 1 :
              FirstBody(c, 1, m, q) /\ Resolve(Mro[c], 1, m).of = At(c, q)
          BY <3>1, ResolveBody DEF IInv
    <3>3. QED
          BY <1>2, <2>1, <3>2
  <2>2. CASE ~(c \in patched /\ m \in MethodsOf[Kind[c]])
    <3>1. own'[c][m] = own[c][m]
          BY <1>1, <1>3, <2>2
    <3>2. QED
          BY <3>1 DEF OwnBodies
  <2>3. QED
        BY <2>1, <2>2
<1>5. OwnBodies'
    BY <1>4 DEF OwnBodies
<1>6. FlagWraps'
    BY <1>1, <1>2 DEF FlagWraps, PatchInPlace, Wraps, IInv, TypeOK
<1>7. ASSUME NEW c \in Classes, NEW m \in Methods, Wraps(c, m)
      PROVE  Wraps(c, m)'
  <2>1. c \in flagged
        BY <1>7 DEF Wraps, IInv, OwnOnce
  <2>2. ClassFlagged(c)
    <3>1. Mro[c][1] = c /\ 1 \in 1 .. Len(Mro[c])
          BY ClassesAssumption, LenProperties
    <3>2. QED
          BY <2>1, <3>1 DEF ClassFlagged
  <2>3. own'[c] = own[c]
        BY <1>1, <2>2
  <2>4. QED
        BY <1>7, <2>3 DEF Wraps
<1>8. QED
    BY <1>5, <1>6, <1>7

\* No step takes a wrapper away.
WrappersStay == \A c \in Classes, m \in Methods : Wraps(c, m) => Wraps(c, m)'

\* The mro of a class directly below the base is the class.
LEMMA RootMro ==
    ASSUME NEW c \in Classes
    PROVE  Len(Mro[c]) \in Nat \ {0} /\ Mro[c][1] = c
    BY ClassesAssumption, LenProperties

LEMMA ClassDefine ==
    ASSUME IInv, ClassInv, NEW c \in Classes, Define(c)
    PROVE  ClassInv' /\ WrappersStay
<1>1. OwnBodies' /\ FlagWraps' /\ WrappersStay /\ flagged \subseteq flagged'
  <2>1. CASE Kind[c] \in hooked /\ ~ClassFlagged(c)
    <3>1. PatchInPlace({c})
          BY <2>1 DEF Define
    <3>2. OwnBodies' /\ FlagWraps' /\ WrappersStay
          BY <2>1, <3>1, PatchBodies DEF ClassInv, WrappersStay
    <3>3. QED
          BY <3>1, <3>2 DEF PatchInPlace
  <2>2. CASE ~(Kind[c] \in hooked /\ ~ClassFlagged(c))
        BY <2>2 DEF Define, ClassInv, OwnBodies, FlagWraps, WrappersStay, Wraps
  <2>3. QED
        BY <2>1, <2>2
<1>2. BasesDefined'
  <2>1. ASSUME NEW d \in defined', NEW k \in 1 .. Len(Mro[d]) PROVE Mro[d][k] \in defined'
    <3>1. CASE d = c
          BY <2>1, <3>1, RootMro DEF Define
    <3>2. CASE d # c
          BY <2>1, <3>2 DEF Define, ClassInv, BasesDefined
    <3>3. QED
          BY <3>1, <3>2
  <2>2. QED
        BY <2>1 DEF BasesDefined
<1>3. RootsPatched'
  <2>1. ASSUME NEW d \in defined', Kind[d] \in hooked', Len(Mro[d]) = 1 PROVE d \in flagged'
    <3>1. CASE d = c
      <4>1. ClassFlagged(c) => c \in flagged
            BY <2>1, <3>1, RootMro DEF ClassFlagged
      <4>2. QED
            BY <1>1, <2>1, <3>1, <4>1 DEF Define, PatchInPlace
    <3>2. CASE d # c
          BY <1>1, <2>1, <3>2 DEF Define, ClassInv, RootsPatched
    <3>3. QED
          BY <3>1, <3>2
  <2>2. QED
        BY <2>1 DEF RootsPatched
<1>4. QED
    BY <1>1, <1>2, <1>3 DEF ClassInv

LEMMA ClassAutoProtect ==
    ASSUME IInv, ClassInv, NEW kinds \in SUBSET Kinds, AutoProtect(kinds)
    PROVE  ClassInv' /\ WrappersStay
<1> DEFINE patched == UNION {Walked(kind) : kind \in kinds}
<1>1. \A c \in patched : c \in Classes /\ ~ClassFlagged(c)
    BY WalkedUnflagged DEF IInv
<1>2. PatchInPlace(patched)
    BY DEF AutoProtect
<1>3. OwnBodies' /\ FlagWraps' /\ WrappersStay
    BY <1>1, <1>2, PatchBodies DEF ClassInv, WrappersStay
<1>4. BasesDefined'
    BY DEF AutoProtect, ClassInv, BasesDefined
<1>5. RootsPatched'
  <2>1. ASSUME NEW d \in defined, Kind[d] \in hooked \cup kinds, Len(Mro[d]) = 1
        PROVE  d \in flagged \cup patched
    <3>1. CASE Kind[d] \in hooked
          BY <2>1, <3>1 DEF ClassInv, RootsPatched
    <3>2. CASE Kind[d] \in kinds
          BY <2>1, <3>2 DEF Walked
    <3>3. QED
          BY <2>1, <3>1, <3>2
  <2>2. flagged' = flagged \cup patched /\ hooked' = hooked \cup kinds /\ defined' = defined
        BY <1>2 DEF AutoProtect, PatchInPlace
  <2> HIDE DEF patched
  <2>3. QED
        BY <2>1, <2>2 DEF RootsPatched
<1>6. QED
    BY <1>3, <1>4, <1>5 DEF ClassInv

LEMMA ClassProtect ==
    ASSUME IInv, ClassInv, NEW i \in Instances, NEW lens \in Lenses \cup {NoLens},
           ProtectAgain(i, lens) \/ ProtectBySwap(i, lens) \/ ProtectInPlace(i, lens)
    PROVE  ClassInv' /\ WrappersStay
<1> DEFINE c == ClassOf[i]
<1>1. CASE UNCHANGED <<own, flagged, defined, hooked>>
    BY <1>1 DEF ClassInv, OwnBodies, FlagWraps, BasesDefined, RootsPatched, WrappersStay, Wraps
<1>2. CASE ProtectInPlace(i, lens)
  <2>1. c \in Classes /\ ~ClassFlagged(c) /\ PatchInPlace({c}) /\ UNCHANGED <<defined, hooked>>
        BY <1>2, ClassesAssumption DEF ProtectInPlace, IsProtected
  <2>2. OwnBodies' /\ FlagWraps' /\ WrappersStay
        BY <2>1, PatchBodies DEF ClassInv, WrappersStay
  <2>3. BasesDefined' /\ RootsPatched'
        BY <2>1 DEF ClassInv, BasesDefined, RootsPatched, PatchInPlace
  <2>4. QED
        BY <2>2, <2>3 DEF ClassInv
<1>3. QED
    BY <1>1, <1>2 DEF ProtectAgain, ProtectBySwap, classVars

LEMMA ClassNext ==
    ASSUME IInv, ClassInv, [Next]_vars
    PROVE  ClassInv' /\ WrappersStay
<1>1. CASE \E c \in Classes : Define(c)
    BY <1>1, ClassDefine
<1>2. ASSUME NEW lens \in Lenses \cup {NoLens}, InstallSavers(lens) \/ InstallStores(lens)
      PROVE  ClassInv' /\ WrappersStay
    BY <1>2, ClassAutoProtect DEF InstallSavers, InstallStores, Kinds
<1>3. CASE InstallGlobal
    BY <1>3, ClassAutoProtect DEF InstallGlobal, Kinds
<1>4. ASSUME NEW i \in Instances, Protect(i)
      PROVE  ClassInv' /\ WrappersStay
    BY <1>4, ClassProtect DEF Protect
<1>5. CASE UNCHANGED classVars
    BY <1>5 DEF classVars, ClassInv, OwnBodies, FlagWraps, BasesDefined, RootsPatched,
                WrappersStay, Wraps
<1>6. ASSUME NEW i \in Instances, CallStep(i)
      PROVE  UNCHANGED classVars
    BY <1>6 DEF CallStep, Begin, BeforeWrite, BeforeRead, AfterRead, RunBody, Return
<1>7. QED
    BY <1>1, <1>2, <1>3, <1>4, <1>5, <1>6 DEF Next, vars

-----------------------------------------------------------------------------
(* Facts of paths.                                                         *)

\* Where attribute lookup from position k on goes: to a body further up the mro;
\* in a wrapper only if there is one on the path; and if there is one from k on,
\* either it is met now or it is still ahead.
LEMMA ResolvePath ==
    ASSUME TypeOK, OwnOnce, OwnBodies, NEW c \in Classes, NEW m \in Methods,
           NEW k \in 1 .. Len(Mro[c]) + 1
    PROVE  \E q \in k .. Len(Mro[c]) + 1 :
               /\ Resolve(Mro[c], k, m).of = At(c, q)
               /\ q <= Len(Mro[c]) => Body[Mro[c][q]][m] # "absent"
               /\ \A j \in k .. q - 1 : Passes(c, j, m)
               /\ Resolve(Mro[c], k, m).wraps > 0 /\ (\A j \in 1 .. k - 1 : Passes(c, j, m))
                     => WrapperFrom(c, 1, m)
               /\ WrapperFrom(c, k, m) =>
                     \/ Resolve(Mro[c], k, m).wraps > 0
                     \/ q <= Len(Mro[c]) /\ Passes(c, q, m) /\ WrapperFrom(c, q + 1, m)
               /\ DelegatesFrom(c, k, m) => DelegatesFrom(c, q, m)
<1> DEFINE n == Len(Mro[c])
           wraps == Resolve(Mro[c], k, m).wraps
<1>1. n \in Nat
    BY RootMro
<1>2. PICK q \in k .. n + 1 :
          /\ FirstBody(c, k, m, q)
          /\ Resolve(Mro[c], k, m).of = At(c, q)
          /\ wraps > 0 <=> \E j \in k .. n : j <= q /\ Wraps(Mro[c][j], m)
    BY ResolveBody
<1>3. \A j \in k .. q - 1 : Body[Mro[c][j]][m] = "absent" /\ Passes(c, j, m)
    BY <1>2 DEF FirstBody, Passes
<1>4. ASSUME wraps > 0, \A j \in 1 .. k - 1 : Passes(c, j, m)
      PROVE  WrapperFrom(c, 1, m)
  <2>1. PICK j \in k .. n : j <= q /\ Wraps(Mro[c][j], m)
        BY <1>2, <1>4
  <2>2. j \in 1 .. n /\ \A l \in 1 .. j - 1 : l \in 1 .. k - 1 \/ l \in k .. q - 1
        BY <1>1, <1>2, <2>1
  <2>3. QED
        BY <1>3, <1>4, <2>1, <2>2 DEF WrapperFrom
<1>5. ASSUME WrapperFrom(c, k, m), ~(wraps > 0)
      PROVE  q <= n /\ Passes(c, q, m) /\ WrapperFrom(c, q + 1, m)
  <2>1. PICK j \in k .. n : Wraps(Mro[c][j], m) /\ \A l \in k .. j - 1 : Passes(c, l, m)
        BY <1>5 DEF WrapperFrom
  <2>2. ~(j <= q)
        BY <1>2, <1>5, <2>1
  <2>3. q \in k .. j - 1 /\ q <= n /\ j \in q + 1 .. n
        /\ \A l \in q + 1 .. j - 1 : l \in k .. j - 1
        BY <1>1, <1>2, <2>1, <2>2
  <2>4. QED
        BY <2>1, <2>3 DEF WrapperFrom
<1>6. ASSUME DelegatesFrom(c, k, m)
      PROVE  DelegatesFrom(c, q, m)
  <2>1. PICK j \in k .. n :
            Body[Mro[c][j]][m] = "delegates" /\ \A l \in k .. j - 1 : Passes(c, l, m)
        BY <1>6 DEF DelegatesFrom
  <2>2. ~(j < q)
        BY <1>1, <1>2, <1>3, <2>1
  <2>3. j \in q .. n /\ \A l \in q .. j - 1 : l \in k .. j - 1
        BY <1>1, <1>2, <2>1, <2>2
  <2>4. QED
        BY <2>1, <2>3 DEF DelegatesFrom
<1>7. q <= n => Body[Mro[c][q]][m] # "absent"
    BY <1>2 DEF FirstBody
<1> HIDE DEF n, wraps
<1>8. QED
    BY <1>2, <1>3, <1>4, <1>5, <1>6, <1>7 DEF n, wraps

\* A path is the same whatever happens but for its wrappers, which stay.
LEMMA PathStays ==
    ASSUME WrappersStay, NEW c \in Classes, NEW q \in Nat \ {0}, NEW m \in Methods,
           WrapperFrom(c, q, m)
    PROVE  WrapperFrom(c, q, m)'
<1>1. PICK j \in q .. Len(Mro[c]) :
          Wraps(Mro[c][j], m) /\ \A k \in q .. j - 1 : Passes(c, k, m)
    BY DEF WrapperFrom
<1>2. Mro[c][j] \in Classes
    BY RootMro, MroTail
<1>3. Wraps(Mro[c][j], m)'
    BY <1>1, <1>2 DEF WrappersStay
<1>4. QED
    BY <1>1, <1>3 DEF WrapperFrom, Passes

\* The synchronous method of a method is one, and does not delegate.
LEMMA SyncMethod ==
    ASSUME NEW m
    PROVE  /\ Sync(m) \in Methods
           /\ \A c \in Classes : Body[c][Sync(m)] # "delegates"
    BY ClassesAssumption DEF Sync, Methods, Reads

LEMMA GuardedStays ==
    ASSUME WrappersStay, NEW i \in Instances, NEW m \in Methods, Guarded(i, m),
           bound[i] # NoTable => bound'[i] # NoTable
    PROVE  Guarded(i, m)'
<1>1. ClassOf[i] \in Classes /\ Sync(m) \in Methods
    BY ClassesAssumption, SyncMethod
<1>2. WrapperFrom(ClassOf[i], 1, m) => WrapperFrom(ClassOf[i], 1, m)'
    BY <1>1, PathStays
<1>3. WrapperFrom(ClassOf[i], 1, Sync(m)) => WrapperFrom(ClassOf[i], 1, Sync(m))'
    BY <1>1, PathStays
<1>4. DelegatesFrom(ClassOf[i], 1, m) => DelegatesFrom(ClassOf[i], 1, m)'
    BY DEF DelegatesFrom, Passes
<1>5. QED
    BY <1>2, <1>3, <1>4 DEF Guarded

LEMMA AheadStays ==
    ASSUME WrappersStay, NEW i \in Instances, NEW r \in Call,
           NEW q \in 1 .. Len(Mro[ClassOf[i]]) + 1, Ahead(i, r, q),
           bound[i] # NoTable => bound'[i] # NoTable
    PROVE  Ahead(i, r, q)'
<1> DEFINE c == ClassOf[i]
<1>1. c \in Classes /\ r.method \in Methods /\ Sync(r.method) \in Methods /\ q + 1 \in Nat \ {0}
  <2>1. c \in Classes
        BY ClassesAssumption
  <2>2. q + 1 \in Nat \ {0}
        BY <2>1, RootMro
  <2>3. QED
        BY <2>1, <2>2, SyncMethod DEF Call
<1>2. WrapperFrom(c, q + 1, r.method) => WrapperFrom(c, q + 1, r.method)'
    BY <1>1, PathStays
<1>3. WrapperFrom(c, 1, Sync(r.method)) => WrapperFrom(c, 1, Sync(r.method))'
    BY <1>1, PathStays
<1>4. DelegatesFrom(c, q, r.method) => DelegatesFrom(c, q, r.method)'
    BY DEF DelegatesFrom, Passes
<1>5. QED
    BY <1>2, <1>3, <1>4 DEF Ahead, Passes

-----------------------------------------------------------------------------
(* Steps that are no step of a call.                                       *)

\* A lens for an instance is not taken away.
LensesStay == \A i \in Instances : LensFor(i) # NoLens => LensFor(i)' # NoLens
TablesStay == \A i \in Instances : bound[i] # NoTable => bound'[i] # NoTable

LEMMA PathKept ==
    ASSUME IInv, PathInv, WrappersStay, LensesStay, TablesStay, UNCHANGED <<call, met>>
    PROVE  PathInv'
<1>1. ASSUME NEW i \in Instances PROVE OnPath(i, call[i])'
  <2>1. PICK r \in Call : r = call[i]
        BY DEF IInv, TypeOK
  <2>2. r = call'[i] /\ met'[i] = met[i]
        BY <2>1
  <2>3. OnPath(i, r)
        BY <2>1 DEF PathInv
  <2>4. r.via \in Methods
        BY DEF Call
  <2>5. Guarded(i, r.via) => Guarded(i, r.via)'
        BY <2>4, GuardedStays DEF TablesStay
  <2>6. \A q \in 1 .. Len(Mro[ClassOf[i]]) + 1 : Ahead(i, r, q) => Ahead(i, r, q)'
        BY AheadStays DEF TablesStay
  <2>7. bound'[i] = NoTable => bound[i] = NoTable
        BY DEF TablesStay
  <2>8. LensFor(i) # NoLens => LensFor(i)' # NoLens
        BY DEF LensesStay
  <2>9. Due(i, r)' <=> Due(i, r)
        BY <2>2 DEF Due
  <2>10. \A q : (Standing(ClassOf[i], r, q)' <=> Standing(ClassOf[i], r, q))
                /\ (Came(ClassOf[i], r, q)' <=> Came(ClassOf[i], r, q))
        BY DEF Standing, Came, DelegatesFrom, Passes
  <2>11. OnPath(i, r)'
        BY <2>3, <2>5, <2>6, <2>7, <2>8, <2>9, <2>10 DEF OnPath
  <2>12. QED
        BY <2>2, <2>11 DEF OnPath
<1>2. ASSUME NEW i \in Instances PROVE MetGuarded(i)'
  <2>1. met'[i] = met[i] /\ MetGuarded(i)
        BY DEF PathInv
  <2>2. PICK m \in Methods \cup {NoMethod} : m = met[i]
        BY DEF IInv, TypeOK
  <2>3. CASE m = NoMethod
        BY <2>1, <2>2, <2>3 DEF MetGuarded
  <2>4. CASE m # NoMethod
    <3>1. Guarded(i, m) /\ LensFor(i) # NoLens
          BY <2>1, <2>2, <2>4 DEF MetGuarded
    <3>2. Guarded(i, m)' /\ LensFor(i)' # NoLens
          BY <2>2, <2>4, <3>1, GuardedStays DEF TablesStay, LensesStay
    <3>3. QED
          BY <2>1, <2>2, <3>2 DEF MetGuarded
  <2>5. QED
        BY <2>2, <2>3, <2>4
<1>3. QED
    BY <1>1, <1>2 DEF PathInv

LEMMA PathClasses ==
    ASSUME IInv, ClassInv, PathInv, NEW c \in Classes, Define(c)
    PROVE  PathInv'
    BY PathKept, ClassDefine DEF Define, LensesStay, LensFor, TablesStay

LEMMA PathInstall ==
    ASSUME IInv, ClassInv, PathInv, NEW kinds \in SUBSET Kinds, AutoProtect(kinds),
           global # NoLens => global' # NoLens
    PROVE  PathInv'
    BY PathKept, ClassAutoProtect DEF AutoProtect, LensesStay, LensFor, TablesStay

LEMMA PathProtect ==
    ASSUME IInv, ClassInv, PathInv, NEW i \in Instances, NEW lens \in Lenses \cup {NoLens},
           ProtectAgain(i, lens) \/ ProtectBySwap(i, lens) \/ ProtectInPlace(i, lens)
    PROVE  PathInv'
<1>1. WrappersStay /\ UNCHANGED <<call, met>>
    BY ClassProtect DEF ProtectAgain, ProtectBySwap, ProtectInPlace
<1>2. CASE UNCHANGED <<bound, lensOf, global>>
    BY <1>1, <1>2, PathKept DEF LensesStay, LensFor, TablesStay
<1>3. CASE ProtectBySwap(i, lens)
  <2> DEFINE c == ClassOf[i]
  <2>1. /\ c \in Classes /\ ~ClassFlagged(c) /\ UNCHANGED global
        /\ bound' = [bound EXCEPT ![i] = ProtectedTable(c)]
        /\ lensOf' = [lensOf EXCEPT ![i] = Resolved(lens)] /\ Resolved(lens) # NoLens
        BY <1>3, ClassesAssumption DEF ProtectBySwap, IsProtected
  <2>2. ProtectedTable(c) # NoTable
        BY <2>1, ProtectedTableOnce, NoneAssumption
  <2>3. ASSUME NEW j \in Instances
        PROVE  /\ bound[j] # NoTable => bound'[j] # NoTable
               /\ lensOf[j] # NoLens => lensOf'[j] # NoLens
    <3> HIDE DEF c
    <3>1. QED
          BY <2>1, <2>2 DEF IInv, TypeOK
  <2>4. LensesStay /\ TablesStay
        BY <2>1, <2>3 DEF LensesStay, LensFor, TablesStay
  <2>5. QED
        BY <1>1, <2>4, PathKept
<1>4. QED
    BY <1>2, <1>3 DEF ProtectAgain, ProtectInPlace, classVars

-----------------------------------------------------------------------------
(* The steps of a call.                                                    *)

\* A step of a call changes that call only.
LEMMA PathCallChange ==
    ASSUME IInv, PathInv, NEW i \in Instances, NEW new \in Call,
           call' = [call EXCEPT ![i] = new], OnPath(i, new),
           UNCHANGED <<classVars, bound, lensOf, met>>
    PROVE  PathInv'
<1>1. ASSUME NEW j \in Instances, NEW r \in Call, OnPath(j, r)
      PROVE  OnPath(j, r)'
    BY <1>1 DEF OnPath, Guarded, Ahead, Standing, Came, Due, LensFor,
                WrapperFrom, DelegatesFrom, Passes, Wraps, classVars
<1>2. ASSUME NEW j \in Instances PROVE OnPath(j, call[j])'
  <2>1. PICK r \in Call : r = call'[j] /\ OnPath(j, r)
        BY DEF IInv, TypeOK, PathInv
  <2>2. OnPath(j, r)'
        BY <1>1, <2>1
  <2>3. QED
        BY <2>1, <2>2 DEF OnPath
<1>3. ASSUME NEW j \in Instances PROVE MetGuarded(j)'
    BY DEF PathInv, MetGuarded, Guarded, LensFor, WrapperFrom, DelegatesFrom, Passes, Wraps,
           classVars
<1>4. QED
    BY <1>2, <1>3 DEF PathInv

\* A call that is due has a lens to meet.
LEMMA DueLens ==
    ASSUME IInv, PathInv, NEW i \in Instances, Due(i, call[i])
    PROVE  LensFor(i) # NoLens
<1>1. call[i] \in Call /\ call[i].via \in Methods /\ OnPath(i, call[i]) /\ MetGuarded(i)
    BY DEF IInv, TypeOK, PathInv, Call
<1>2. CASE met[i] = call[i].via
    BY <1>1, <1>2, NoneAssumption DEF MetGuarded
<1>3. CASE call[i].auto
    BY <1>1, <1>3 DEF OnPath
<1>4. QED
    BY <1>2, <1>3 DEF Due

\* Where a call stands and what is due does not depend on its counts.
SameFrame(r, s) ==
    /\ r.of = s.of /\ r.method = s.method /\ r.via = s.via /\ r.auto = s.auto

LEMMA SamePath ==
    ASSUME NEW i \in Instances, NEW r, NEW s, SameFrame(r, s)
    PROVE  /\ Due(i, r) <=> Due(i, s)
           /\ \A q : /\ Standing(ClassOf[i], r, q) <=> Standing(ClassOf[i], s, q)
                     /\ Came(ClassOf[i], r, q) <=> Came(ClassOf[i], s, q)
                     /\ Ahead(i, r, q) <=> Ahead(i, s, q)
    BY DEF SameFrame, Due, Standing, Came, Ahead

\* Asking adds to what a call has seen, if there is a lens.
LEMMA InspectedSeen ==
    ASSUME IInv, NEW i \in Instances
    PROVE  /\ SameFrame(Inspected(i), call[i])
           /\ LensFor(i) # NoLens => Inspected(i).seen = call[i].seen + 1
           /\ LensFor(i) = NoLens => Inspected(i).seen = call[i].seen
<1>1. call[i] \in Call
    BY DEF IInv, TypeOK
<1>2. CASE LensFor(i) = NoLens
    BY <1>2 DEF Inspected, SameFrame
<1>3. CASE LensFor(i) # NoLens
  <2>1. Inspected(i) = [call[i] EXCEPT !.seen = call[i].seen + 1,
                                       !.by = call[i].by \cup {LensFor(i)}]
        BY <1>3 DEF Inspected
  <2>2. QED
        BY <1>1, <1>3, <2>1 DEF SameFrame, Call
<1>4. QED
    BY <1>2, <1>3

\* A refused call is over; what it has seen it saw through a lens.
LEMMA PathRefused ==
    ASSUME IInv, PathInv, NEW i \in Instances, LensFor(i) # NoLens,
           call' = [call EXCEPT ![i] = [Inspected(i) EXCEPT !.at = "refused"]],
           UNCHANGED <<classVars, bound, lensOf, met>>
    PROVE  PathInv'
<1> DEFINE new == [Inspected(i) EXCEPT !.at = "refused"]
<1>1. new \in Call /\ new.at = "refused"
    BY InspectedCall DEF Call
<1>2. OnPath(i, new)
    BY <1>1 DEF OnPath
<1>3. QED
    BY <1>1, <1>2, PathCallChange

\* A wrapper that a call goes into or comes back through is on its path.
LEMMA PathThrough ==
    ASSUME IInv, PathInv, NEW i \in Instances, NEW new \in Call,
           SameFrame(new, call[i]), new.at = call[i].at, call[i].at \in {"running", "worked"},
           Wrappers(call[i]) > 0,
           call[i].at = "worked" => new.wraps = 0,
           new.seen > 0 => call[i].seen > 0 \/ LensFor(i) # NoLens,
           LensFor(i) # NoLens => new.owed + new.seen > 0
    PROVE  OnPath(i, new)
<1>1. OnPath(i, call[i])
    BY DEF PathInv
<1>2. Due(i, new) => LensFor(i) # NoLens
    BY DueLens, SamePath
<1>3. Due(i, new) => new.owed + new.seen > 0 /\ Wrappers(new) > 0
    BY <1>2 DEF Wrappers, Call
<1>4. Guarded(i, new.via)
    BY <1>1 DEF OnPath, SameFrame
<1>5. new.at = "running" /\ bound[i] = NoTable =>
          \E q \in 1 .. Len(Mro[ClassOf[i]]) + 1 :
              Standing(ClassOf[i], new, q) /\ Came(ClassOf[i], new, q)
    BY <1>1, SamePath DEF OnPath
<1>6. new.seen > 0 \/ new.auto => LensFor(i) # NoLens
    BY <1>1 DEF OnPath, SameFrame
<1>7. QED
    BY <1>3, <1>4, <1>5, <1>6 DEF OnPath

LEMMA PathBeforeWrite ==
    ASSUME IInv, PathInv, NEW i \in Instances, BeforeWrite(i)
    PROVE  PathInv'
<1> DEFINE new == [Inspected(i) EXCEPT !.wraps = Inspected(i).wraps - 1]
<1>1. CASE MayRefuse(i) /\ call' = [call EXCEPT ![i] = [Inspected(i) EXCEPT !.at = "refused"]]
    BY <1>1, PathRefused DEF BeforeWrite, MayRefuse
<1>2. CASE call' = [call EXCEPT ![i] = new]
  <2>1. /\ call[i] \in Call /\ Inspected(i) \in Call /\ SameFrame(Inspected(i), call[i])
        /\ call[i].at = "running" /\ call[i].wraps > 0
        /\ Inspected(i).wraps = call[i].wraps /\ Inspected(i).at = "running"
        BY InspectedCall, InspectedSeen DEF BeforeWrite
  <2>2. Inspected(i).wraps - 1 \in Nat /\ Wrappers(call[i]) > 0
        BY <2>1 DEF Call, Wrappers
  <2>3. /\ new \in Call /\ SameFrame(new, call[i]) /\ new.at = "running"
        /\ new.seen = Inspected(i).seen
        BY <2>1, <2>2 DEF Call, SameFrame
  <2>4. LensFor(i) # NoLens => new.owed + new.seen > 0
        BY <2>1, <2>3, InspectedSeen DEF Call
  <2>5. OnPath(i, new)
    <3> HIDE DEF new
    <3>1. QED
          BY <2>1, <2>2, <2>3, <2>4, InspectedSeen, PathThrough
  <2>6. QED
        BY <1>2, <2>3, <2>5, PathCallChange DEF BeforeWrite
<1>3. QED
    BY <1>1, <1>2 DEF BeforeWrite

LEMMA PathBeforeRead ==
    ASSUME IInv, PathInv, NEW i \in Instances, BeforeRead(i)
    PROVE  PathInv'
<1> DEFINE new == [call[i] EXCEPT !.wraps = call[i].wraps - 1, !.owed = call[i].owed + 1]
<1>1. call[i] \in Call /\ call[i].at = "running" /\ call[i].wraps > 0
    BY DEF BeforeRead, IInv, TypeOK
<1>2. call[i].wraps - 1 \in Nat /\ call[i].owed + 1 \in Nat /\ Wrappers(call[i]) > 0
    BY <1>1 DEF Call, Wrappers
<1>3. /\ new \in Call /\ SameFrame(new, call[i]) /\ new.at = "running"
      /\ new.seen = call[i].seen /\ new.owed = call[i].owed + 1
    BY <1>1, <1>2 DEF Call, SameFrame
<1>4. new.owed + new.seen > 0
    BY <1>1, <1>3 DEF Call
<1>5. OnPath(i, new)
  <2> HIDE DEF new
  <2>1. QED
        BY <1>1, <1>2, <1>3, <1>4, PathThrough
<1>6. QED
    BY <1>3, <1>5, PathCallChange DEF BeforeRead

LEMMA PathAfterRead ==
    ASSUME IInv, PathInv, NEW i \in Instances, AfterRead(i)
    PROVE  PathInv'
<1> DEFINE new == [Inspected(i) EXCEPT !.owed = Inspected(i).owed - 1]
<1>1. CASE MayRefuse(i) /\ call' = [call EXCEPT ![i] = [Inspected(i) EXCEPT !.at = "refused"]]
    BY <1>1, PathRefused DEF AfterRead, MayRefuse
<1>2. CASE call' = [call EXCEPT ![i] = new]
  <2>1. /\ call[i] \in Call /\ Inspected(i) \in Call /\ SameFrame(Inspected(i), call[i])
        /\ call[i].at = "worked" /\ call[i].owed > 0 /\ OnPath(i, call[i])
        /\ Inspected(i).owed = call[i].owed /\ Inspected(i).at = "worked"
        /\ Inspected(i).wraps = call[i].wraps
        BY InspectedCall, InspectedSeen DEF AfterRead, PathInv
  <2>2. Inspected(i).owed - 1 \in Nat /\ Wrappers(call[i]) > 0 /\ call[i].wraps = 0
        BY <2>1 DEF Call, Wrappers, OnPath
  <2>3. /\ new \in Call /\ SameFrame(new, call[i]) /\ new.at = "worked" /\ new.wraps = 0
        /\ new.seen = Inspected(i).seen
        BY <2>1, <2>2 DEF Call, SameFrame
  <2>4. LensFor(i) # NoLens => new.owed + new.seen > 0
        BY <2>1, <2>3, InspectedSeen DEF Call
  <2>5. OnPath(i, new)
    <3> HIDE DEF new
    <3>1. QED
          BY <2>1, <2>2, <2>3, <2>4, InspectedSeen, PathThrough
  <2>6. QED
        BY <1>2, <2>3, <2>5, PathCallChange DEF AfterRead
<1>3. QED
    BY <1>1, <1>2 DEF AfterRead

\* A frame is the call, at another method.
LEMMA FrameFields ==
    ASSUME NEW r \in Call, NEW m \in Methods, NEW method \in Method
    PROVE  LET new == Frame(r, m, method) IN
           /\ new \in Call
           /\ new.method = m /\ new.of = method.of /\ new.wraps = method.wraps
           /\ new.via = r.via /\ new.auto = r.auto /\ new.at = r.at
           /\ new.owed = r.owed /\ new.seen = r.seen
<1>1. Frame(r, m, method) = [r EXCEPT !.method = m, !.of = method.of, !.wraps = method.wraps]
    BY DEF Frame
<1>2. method.of \in Classes \cup {Base} /\ method.wraps \in Nat
    BY DEF Method
<1>3. QED
    BY <1>1, <1>2 DEF Call

\* A body that is at a position has gone on from there, or works.
LEMMA StandingBody ==
    ASSUME NEW c \in Classes, NEW r \in Call, NEW q \in 1 .. Len(Mro[c]) + 1,
           Standing(c, r, q), r.of # Base
    PROVE  q \in 1 .. Len(Mro[c]) /\ r.of = Mro[c][q] /\ Body[r.of][r.method] # "absent"
    BY RootMro DEF Standing, At

\* The call goes on by super().
LEMMA PathAbove ==
    ASSUME IInv, ClassInv, PathInv, NEW i \in Instances, NEW r \in Call,
           SameFrame(r, call[i]), r.owed = call[i].owed, r.seen = call[i].seen,
           r.at = "running", call[i].at = "running", call[i].wraps = 0,
           r.of # Base, Body[r.of][r.method] = "super"
    PROVE  OnPath(i, Frame(r, r.method,
                       Resolve(Mro[ClassOf[i]], After(r.of, Mro[ClassOf[i]]) + 1, r.method)))
<1> DEFINE c == ClassOf[i]
           m == r.method
           method == Resolve(Mro[c], After(r.of, Mro[c]) + 1, m)
           new == Frame(r, m, method)
<1>1. c \in Classes /\ m \in Methods /\ method \in Method /\ Len(Mro[c]) \in Nat
  <2>1. c \in Classes /\ m \in Methods
        BY ClassesAssumption DEF Call
  <2>2. QED
        BY <2>1, ResolveType, RootMro DEF IInv
<1>2. OnPath(i, call[i]) /\ call[i] \in Call
    BY DEF PathInv, IInv, TypeOK
<1>3. /\ new \in Call /\ new.method = m /\ new.of = method.of /\ new.wraps = method.wraps
      /\ new.via = r.via /\ new.auto = r.auto /\ new.at = "running"
      /\ new.owed = call[i].owed /\ new.seen = call[i].seen
  <2> HIDE DEF c, m, method
  <2>1. QED
        BY <1>1, FrameFields DEF m
<1>4. Wrappers(call[i]) > 0 <=> call[i].owed + call[i].seen > 0
    BY <1>2 DEF Wrappers, Call
<1>5. Wrappers(new) > 0 <=> Wrappers(call[i]) > 0 \/ method.wraps > 0
  <2> HIDE DEF method, new
  <2>1. call[i].owed \in Nat /\ call[i].seen \in Nat /\ method.wraps \in Nat
        BY <1>1, <1>2 DEF Call, Method
  <2>2. Wrappers(new) = method.wraps + call[i].owed + call[i].seen
        BY <1>3 DEF Wrappers
  <2>3. QED
        BY <1>4, <2>1, <2>2
\* Wherever the body stands, it goes on to a position of its path.
<1>6. ASSUME NEW q0 \in 1 .. Len(Mro[c]) + 1, Standing(c, r, q0)
      PROVE  \E q \in 1 .. Len(Mro[c]) + 1 :
                 /\ Standing(c, new, q)
                 /\ Came(c, r, q0) => Came(c, new, q)
                 /\ Came(c, r, q0) /\ method.wraps > 0 => WrapperFrom(c, 1, m)
                 /\ Ahead(i, r, q0) => method.wraps > 0 \/ Ahead(i, new, q)
  <2>1. q0 \in 1 .. Len(Mro[c]) /\ r.of = Mro[c][q0] /\ Body[Mro[c][q0]][m] = "super"
        BY <1>1, <1>6, StandingBody
  <2>2. PICK k \in 1 .. Len(Mro[c]) + 1 : k = q0 + 1 /\ k = After(r.of, Mro[c]) + 1
        BY <1>1, <2>1, AfterPosition
  <2>3. PICK q \in k .. Len(Mro[c]) + 1 :
            /\ method.of = At(c, q)
            /\ q <= Len(Mro[c]) => Body[Mro[c][q]][m] # "absent"
            /\ \A j \in k .. q - 1 : Passes(c, j, m)
            /\ method.wraps > 0 /\ (\A j \in 1 .. k - 1 : Passes(c, j, m))
                  => WrapperFrom(c, 1, m)
            /\ WrapperFrom(c, k, m) =>
                  \/ method.wraps > 0
                  \/ q <= Len(Mro[c]) /\ Passes(c, q, m) /\ WrapperFrom(c, q + 1, m)
            /\ DelegatesFrom(c, k, m) => DelegatesFrom(c, q, m)
    <3>1. method = Resolve(Mro[c], k, m)
          BY <2>2
    <3> HIDE DEF c, m, method
    <3>2. QED
          BY <1>1, <3>1, ResolvePath DEF IInv, ClassInv
  <2>4. q \in 1 .. Len(Mro[c]) + 1
        BY <1>1, <2>1, <2>2, <2>3
  <2>5. Standing(c, new, q)
        BY <1>3, <2>3, <2>4 DEF Standing
  <2>6. Passes(c, q0, m)
        BY <2>1 DEF Passes
  <2>7. Came(c, r, q0) => \A j \in 1 .. q - 1 : Passes(c, j, m)
    <3>1. \A j \in 1 .. q - 1 : j \in 1 .. q0 - 1 \/ j = q0 \/ j \in k .. q - 1
          BY <1>1, <2>1, <2>2, <2>3
    <3>2. QED
          BY <2>3, <2>6, <3>1 DEF Came
  <2>8. Came(c, r, q0) => Came(c, new, q)
        BY <1>3, <2>7 DEF Came
  <2>9. Came(c, r, q0) /\ method.wraps > 0 => WrapperFrom(c, 1, m)
    <3>1. \A j \in 1 .. k - 1 : j \in 1 .. q - 1
          BY <1>1, <2>1, <2>2, <2>3
    <3>2. QED
          BY <2>3, <2>7, <3>1
  <2>10. DelegatesFrom(c, q0, m) => DelegatesFrom(c, k, m)
    <3>1. ASSUME NEW j \in q0 .. Len(Mro[c]), Body[Mro[c][j]][m] = "delegates",
                 \A l \in q0 .. j - 1 : Passes(c, l, m)
          PROVE  DelegatesFrom(c, k, m)
      <4>1. j # q0
            BY <2>1, <3>1
      <4>2. j \in k .. Len(Mro[c]) /\ \A l \in k .. j - 1 : l \in q0 .. j - 1
            BY <1>1, <2>1, <2>2, <4>1
      <4>3. QED
            BY <3>1, <4>2 DEF DelegatesFrom
    <3>2. QED
          BY <3>1 DEF DelegatesFrom
  <2>11. Ahead(i, r, q0) => method.wraps > 0 \/ Ahead(i, new, q)
        BY <1>3, <2>2, <2>3, <2>10 DEF Ahead
  <2>12. QED
        BY <2>4, <2>5, <2>8, <2>9, <2>11
<1> HIDE DEF method, new
<1>7. bound[i] = NoTable =>
          \E q \in 1 .. Len(Mro[c]) + 1 : Standing(c, new, q) /\ Came(c, new, q)
    BY <1>2, <1>6, SamePath DEF OnPath
<1>8. Wrappers(new) > 0 => Guarded(i, new.via)
  <2>1. CASE Wrappers(call[i]) > 0
        BY <1>2, <1>3, <2>1 DEF OnPath, SameFrame
  <2>2. CASE bound[i] # NoTable
        BY <2>2 DEF Guarded
  <2>3. CASE method.wraps > 0 /\ bound[i] = NoTable
    <3>1. PICK q0 \in 1 .. Len(Mro[c]) + 1 : Standing(c, r, q0) /\ Came(c, r, q0)
          BY <1>2, <2>3, SamePath DEF OnPath
    <3>2. WrapperFrom(c, 1, m)
          BY <1>6, <2>3, <3>1
    <3>3. QED
          BY <1>3, <3>1, <3>2 DEF Came, Guarded
  <2>4. QED
        BY <1>5, <2>1, <2>2, <2>3
<1>9. Due(i, new) =>
          \/ Wrappers(new) > 0
          \/ \E q \in 1 .. Len(Mro[c]) + 1 : Standing(c, new, q) /\ Ahead(i, new, q)
  <2>1. Due(i, new) => Due(i, call[i])
        BY <1>3 DEF Due, SameFrame
  <2>2. QED
        BY <1>2, <1>5, <1>6, <2>1, SamePath DEF OnPath
<1>10. new.seen > 0 \/ new.auto => LensFor(i) # NoLens
    BY <1>2, <1>3 DEF OnPath, SameFrame
<1>11. QED
    BY <1>3, <1>7, <1>8, <1>9, <1>10 DEF OnPath, new, method

\* Where a call of a method of the instance starts.
LEMMA DispatchPath ==
    ASSUME IInv, ClassInv, NEW i \in Instances, NEW m \in MethodsOf[Kind[ClassOf[i]]]
    PROVE  LET c == ClassOf[i]
               method == Dispatch(i, m)
           IN  /\ bound[i] # NoTable => method.wraps > 0
               /\ bound[i] = NoTable =>
                     \E q \in 1 .. Len(Mro[c]) + 1 :
                        /\ method.of = At(c, q)
                        /\ q <= Len(Mro[c]) => Body[Mro[c][q]][m] # "absent"
                        /\ \A j \in 1 .. q - 1 : Passes(c, j, m)
                        /\ method.wraps > 0 => WrapperFrom(c, 1, m)
                        /\ WrapperFrom(c, 1, m) =>
                              \/ method.wraps > 0
                              \/ q <= Len(Mro[c]) /\ Passes(c, q, m) /\ WrapperFrom(c, q + 1, m)
                        /\ DelegatesFrom(c, 1, m) => DelegatesFrom(c, q, m)
<1> DEFINE c == ClassOf[i]
<1>1. c \in Classes /\ m \in Methods
    BY ClassesAssumption, KindMethods
<1>2. CASE bound[i] # NoTable
    BY <1>2 DEF Dispatch, IInv, TablesOnce, TableOf
<1>3. CASE bound[i] = NoTable
  <2>1. PICK k \in 1 .. Len(Mro[c]) + 1 : k = 1
        BY <1>1, RootMro
  <2>2. Dispatch(i, m) = Resolve(Mro[c], k, m)
        BY <1>3, <2>1 DEF Dispatch
  <2>3. \A j \in 1 .. k - 1 : Passes(c, j, m)
        BY <2>1
  <2> HIDE DEF c
  <2>4. PICK q \in k .. Len(Mro[c]) + 1 :
            /\ Dispatch(i, m).of = At(c, q)
            /\ q <= Len(Mro[c]) => Body[Mro[c][q]][m] # "absent"
            /\ \A j \in k .. q - 1 : Passes(c, j, m)
            /\ Dispatch(i, m).wraps > 0 => WrapperFrom(c, 1, m)
            /\ WrapperFrom(c, k, m) =>
                  \/ Dispatch(i, m).wraps > 0
                  \/ q <= Len(Mro[c]) /\ Passes(c, q, m) /\ WrapperFrom(c, q + 1, m)
            /\ DelegatesFrom(c, k, m) => DelegatesFrom(c, q, m)
        BY <1>1, <2>2, <2>3, ResolvePath DEF IInv, ClassInv
  <2>5. QED
        BY <1>3, <2>1, <2>4 DEF c
<1>4. QED
    BY <1>2, <1>3

\* The call goes on at the synchronous method of self.
LEMMA PathSync ==
    ASSUME IInv, ClassInv, PathInv, NEW i \in Instances, NEW r \in Call,
           SameFrame(r, call[i]), r.owed = call[i].owed, r.seen = call[i].seen,
           r.at = "running", call[i].at = "running", call[i].wraps = 0,
           r.of # Base, Body[r.of][r.method] = "delegates",
           Sync(r.method) \in MethodsOf[Kind[ClassOf[i]]]
    PROVE  OnPath(i, Frame(r, Sync(r.method), Dispatch(i, Sync(r.method))))
<1> DEFINE c == ClassOf[i]
           m == Sync(r.method)
           method == Dispatch(i, m)
           new == Frame(r, m, method)
<1>1. c \in Classes /\ m \in Methods /\ method \in Method /\ Len(Mro[c]) \in Nat
  <2>1. c \in Classes /\ m \in Methods /\ method \in Method
        BY ClassesAssumption, DispatchOnce
  <2>2. QED
        BY <2>1, RootMro
<1>2. OnPath(i, call[i]) /\ call[i] \in Call
    BY DEF PathInv, IInv, TypeOK
<1>3. /\ new \in Call /\ new.method = m /\ new.of = method.of /\ new.wraps = method.wraps
      /\ new.via = r.via /\ new.auto = r.auto /\ new.at = "running"
      /\ new.owed = call[i].owed /\ new.seen = call[i].seen
  <2> HIDE DEF c, m, method
  <2>1. QED
        BY <1>1, FrameFields
<1>4. Wrappers(call[i]) > 0 <=> call[i].owed + call[i].seen > 0
    BY <1>2 DEF Wrappers, Call
<1>5. Wrappers(new) > 0 <=> Wrappers(call[i]) > 0 \/ method.wraps > 0
  <2> HIDE DEF method, new
  <2>1. call[i].owed \in Nat /\ call[i].seen \in Nat /\ method.wraps \in Nat
        BY <1>1, <1>2 DEF Call, Method
  <2>2. Wrappers(new) = method.wraps + call[i].owed + call[i].seen
        BY <1>3 DEF Wrappers
  <2>3. QED
        BY <1>4, <2>1, <2>2
<1>6. /\ bound[i] # NoTable => method.wraps > 0
      /\ bound[i] = NoTable =>
            \E q \in 1 .. Len(Mro[c]) + 1 :
                /\ method.of = At(c, q)
                /\ q <= Len(Mro[c]) => Body[Mro[c][q]][m] # "absent"
                /\ \A j \in 1 .. q - 1 : Passes(c, j, m)
                /\ method.wraps > 0 => WrapperFrom(c, 1, m)
                /\ WrapperFrom(c, 1, m) =>
                      \/ method.wraps > 0
                      \/ q <= Len(Mro[c]) /\ Passes(c, q, m) /\ WrapperFrom(c, q + 1, m)
                /\ DelegatesFrom(c, 1, m) => DelegatesFrom(c, q, m)
    BY DispatchPath
\* A body delegates from the method called only, not from a synchronous one.
<1>7. ASSUME NEW q0 \in 1 .. Len(Mro[c]) + 1, Standing(c, r, q0), Came(c, r, q0)
      PROVE  m = Sync(r.via) /\ DelegatesFrom(c, 1, r.via)
  <2>1. q0 \in 1 .. Len(Mro[c]) /\ r.of = Mro[c][q0] /\ r.of \in Classes
    <3>1. q0 \in 1 .. Len(Mro[c]) /\ r.of = Mro[c][q0]
          BY <1>1, <1>7, StandingBody
    <3>2. QED
          BY <1>1, <3>1, MroTail
  <2>2. r.method = r.via
    <3>1. r.method # Sync(r.via)
          BY <2>1, SyncMethod
    <3>2. QED
          BY <1>7, <3>1 DEF Came
  <2>3. DelegatesFrom(c, 1, r.method)
        BY <1>1, <1>7, <2>1 DEF Came, DelegatesFrom
  <2>4. QED
        BY <2>2, <2>3
\* Where the call was due, the wrapper ahead of it is one of the synchronous method.
<1>8. ASSUME NEW q0 \in 1 .. Len(Mro[c]) + 1, Standing(c, r, q0), Ahead(i, r, q0),
             bound[i] = NoTable
      PROVE  WrapperFrom(c, 1, m)
  <2>1. q0 \in 1 .. Len(Mro[c]) /\ r.of = Mro[c][q0]
        BY <1>1, <1>8, StandingBody
  <2>2. ~Passes(c, q0, r.method)
        BY <2>1 DEF Passes
  <2>3. QED
        BY <1>8, <2>2 DEF Ahead
<1> HIDE DEF method, new, m
<1>9. bound[i] = NoTable =>
          \E q \in 1 .. Len(Mro[c]) + 1 : Standing(c, new, q) /\ Came(c, new, q)
  <2>1. ASSUME bound[i] = NoTable
        PROVE  \E q \in 1 .. Len(Mro[c]) + 1 : Standing(c, new, q) /\ Came(c, new, q)
    <3>1. PICK q0 \in 1 .. Len(Mro[c]) + 1 : Standing(c, r, q0) /\ Came(c, r, q0)
          BY <1>2, <2>1, SamePath DEF OnPath
    <3>2. m = Sync(r.via) /\ DelegatesFrom(c, 1, r.via)
          BY <1>7, <3>1
    <3>3. QED
          BY <1>3, <1>6, <2>1, <3>2 DEF Standing, Came
  <2>2. QED
        BY <2>1
<1>10. Wrappers(new) > 0 => Guarded(i, new.via)
  <2>1. CASE Wrappers(call[i]) > 0
        BY <1>2, <1>3, <2>1 DEF OnPath, SameFrame
  <2>2. CASE bound[i] # NoTable
        BY <2>2 DEF Guarded
  <2>3. CASE method.wraps > 0 /\ bound[i] = NoTable
    <3>1. PICK q0 \in 1 .. Len(Mro[c]) + 1 : Standing(c, r, q0) /\ Came(c, r, q0)
          BY <1>2, <2>3, SamePath DEF OnPath
    <3>2. m = Sync(r.via) /\ DelegatesFrom(c, 1, r.via) /\ WrapperFrom(c, 1, m)
          BY <1>6, <1>7, <2>3, <3>1
    <3>3. QED
          BY <1>3, <3>2 DEF Guarded
  <2>4. QED
        BY <1>5, <2>1, <2>2, <2>3
<1>11. Due(i, new) =>
          \/ Wrappers(new) > 0
          \/ \E q \in 1 .. Len(Mro[c]) + 1 : Standing(c, new, q) /\ Ahead(i, new, q)
  <2>1. ASSUME Due(i, new), ~(Wrappers(new) > 0)
        PROVE  \E q \in 1 .. Len(Mro[c]) + 1 : Standing(c, new, q) /\ Ahead(i, new, q)
    <3>1. Due(i, call[i]) /\ bound[i] = NoTable /\ ~(method.wraps > 0)
          BY <1>3, <1>5, <1>6, <2>1 DEF Due, SameFrame
    <3>2. PICK q0 \in 1 .. Len(Mro[c]) + 1 : Standing(c, r, q0) /\ Ahead(i, r, q0)
          BY <1>2, <1>5, <2>1, <3>1, SamePath DEF OnPath
    <3>3. WrapperFrom(c, 1, m)
          BY <1>8, <3>1, <3>2
    <3>4. QED
          BY <1>3, <1>6, <3>1, <3>3 DEF Standing, Ahead
  <2>2. QED
        BY <2>1
<1>12. new.seen > 0 \/ new.auto => LensFor(i) # NoLens
    BY <1>2, <1>3 DEF OnPath, SameFrame
<1>13. QED
    BY <1>3, <1>9, <1>10, <1>11, <1>12 DEF OnPath, new, method, m

LEMMA PathRunBody ==
    ASSUME IInv, ClassInv, PathInv, NEW i \in Instances, RunBody(i)
    PROVE  PathInv'
<1> DEFINE running == [call[i] EXCEPT !.bodies = call[i].bodies + 1]
           m == running.method
           c == ClassOf[i]
           raised == [running EXCEPT !.at = "raised"]
           worked == [running EXCEPT !.at = "worked"]
           above == Frame(running, m, Resolve(Mro[c], After(running.of, Mro[c]) + 1, m))
           sync == Frame(running, Sync(m), Dispatch(i, Sync(m)))
<1>1. IInv' /\ call' = [call EXCEPT ![i] = call'[i]] /\ call'[i] \in Call
  <2>1. IInv'
        BY RunBodyStep
  <2>2. QED
        BY <2>1 DEF RunBody, IInv, TypeOK
<1>2. /\ call[i] \in Call /\ call[i].at = "running" /\ call[i].wraps = 0
      /\ Balanced(call[i], MethodsOf[Kind[c]]) /\ c \in Classes /\ OnPath(i, call[i])
    BY ClassesAssumption DEF RunBody, CallBalance, IInv, TypeOK, PathInv
<1>3. /\ running \in Call /\ SameFrame(running, call[i])
      /\ running.owed = call[i].owed /\ running.seen = call[i].seen /\ running.wraps = 0
      /\ running.at = "running"
  <2>1. call[i].bodies + 1 \in Nat
        BY <1>2 DEF Call
  <2>2. QED
        BY <1>2, <2>1 DEF Call, SameFrame
<1>4. call'[i] = IF running.of = Base THEN raised
                 ELSE CASE Body[running.of][m] = "super" -> above
                        [] Body[running.of][m] = "delegates" -> sync
                        [] OTHER -> worked
    BY DEF RunBody, IInv, TypeOK
<1> HIDE DEF running, m, above, sync
<1>5. CASE call'[i] = raised
  <2>1. raised.at = "raised" /\ raised.seen = call[i].seen /\ raised.auto = call[i].auto
        BY <1>3 DEF Call, SameFrame
  <2>2. OnPath(i, raised)
        BY <1>2, <2>1 DEF OnPath
  <2>3. QED
        BY <1>1, <1>5, <2>2, PathCallChange DEF RunBody
<1>6. CASE call'[i] = worked /\ running.of # Base /\ Body[running.of][m] # "super"
           /\ Body[running.of][m] # "delegates"
  <2>1. /\ SameFrame(worked, call[i]) /\ worked.at = "worked" /\ worked.wraps = 0
        /\ worked.owed = call[i].owed /\ worked.seen = call[i].seen
        BY <1>3 DEF Call, SameFrame
  <2>2. Wrappers(worked) > 0 <=> Wrappers(call[i]) > 0
        BY <1>2, <2>1 DEF Wrappers
  <2>3. ~\E q \in 1 .. Len(Mro[c]) + 1 : Standing(c, running, q) /\ Ahead(i, running, q)
    <3>1. ASSUME NEW q \in 1 .. Len(Mro[c]) + 1, Standing(c, running, q), Ahead(i, running, q)
          PROVE  FALSE
      <4>1. q \in 1 .. Len(Mro[c]) /\ running.of = Mro[c][q] /\ Body[Mro[c][q]][m] # "absent"
            BY <1>2, <1>3, <1>6, <3>1, StandingBody DEF m
      <4>2. ~Passes(c, q, m)
            BY <1>6, <4>1 DEF Passes
      <4>3. ~DelegatesFrom(c, q, m)
        <5>1. ASSUME NEW j \in q .. Len(Mro[c]), Body[Mro[c][j]][m] = "delegates",
                     \A k \in q .. j - 1 : Passes(c, k, m)
              PROVE  FALSE
          <6>1. j # q
                BY <1>6, <4>1, <5>1
          <6>2. q \in q .. j - 1
                BY <1>2, <4>1, <6>1, RootMro
          <6>3. QED
                BY <4>2, <5>1, <6>2
        <5>2. QED
              BY <5>1 DEF DelegatesFrom
      <4>4. QED
            BY <3>1, <4>2, <4>3 DEF Ahead, m
    <3>2. QED
          BY <3>1
  <2>4. Due(i, worked) => worked.owed + worked.seen > 0
    <3>1. ASSUME Due(i, worked) PROVE Wrappers(call[i]) > 0
      <4>1. Due(i, call[i])
            BY <2>1, <3>1, SamePath
      <4>2. QED
            BY <1>2, <1>3, <2>3, <4>1, SamePath DEF OnPath
    <3>2. call[i].owed \in Nat /\ call[i].seen \in Nat
          BY <1>2 DEF Call
    <3>3. QED
          BY <1>2, <2>1, <3>1, <3>2 DEF Wrappers
  <2>5. OnPath(i, worked)
        BY <1>2, <2>1, <2>2, <2>4 DEF OnPath, SameFrame
  <2>6. QED
        BY <1>1, <1>6, <2>5, PathCallChange DEF RunBody
<1>7. CASE call'[i] = above /\ running.of # Base /\ Body[running.of][m] = "super"
  <2>1. OnPath(i, above)
        BY <1>2, <1>3, <1>7, PathAbove DEF above, m
  <2>2. QED
        BY <1>1, <1>7, <2>1, PathCallChange DEF RunBody
<1>8. CASE call'[i] = sync /\ running.of # Base /\ Body[running.of][m] = "delegates"
  <2>1. running.of \in Classes /\ m \in MethodsOf[Kind[c]]
        BY <1>2, <1>3, <1>8 DEF Call, Balanced, SameFrame, m
  <2>2. m # "put" /\ m # "get_tuple"
        BY <1>8, <2>1, ClassesAssumption
  <2>3. Sync(m) \in MethodsOf[Kind[c]]
        BY <1>2, <2>1, <2>2, KindMethods DEF Sync, MethodsOf, Methods, Reads, Kinds
  <2>4. OnPath(i, sync)
        BY <1>2, <1>3, <1>8, <2>3, PathSync DEF sync, m
  <2>5. QED
        BY <1>1, <1>8, <2>4, PathCallChange DEF RunBody
<1>9. QED
    BY <1>4, <1>5, <1>6, <1>7, <1>8

LEMMA PathReturn ==
    ASSUME IInv, PathInv, NEW i \in Instances, Return(i)
    PROVE  PathInv'
<1>1. UNCHANGED <<classVars, bound, lensOf>> /\ call' = [call EXCEPT ![i] = Idle]
    BY DEF Return
<1>2. /\ Idle.at = "idle" /\ Idle.seen = 0 /\ Idle.auto = FALSE
    BY DEF Idle
<1>3. \A j \in Instances : j # i => met'[j] = met[j]
    BY DEF Return, IInv, TypeOK
<1>4. \A m : \A j \in Instances : Guarded(j, m) => Guarded(j, m)'
    BY <1>1 DEF Guarded, WrapperFrom, DelegatesFrom, Passes, Wraps, classVars
<1>5. \A j \in Instances : LensFor(j)' = LensFor(j)
    BY <1>1 DEF LensFor, classVars
<1>6. ASSUME NEW j \in Instances PROVE OnPath(j, call[j])'
  <2>1. CASE j = i
    <3>1. call'[j] = Idle
          BY <1>1, <2>1 DEF IInv, TypeOK
    <3>2. QED
          BY <1>2, <3>1 DEF OnPath
  <2>2. CASE j # i
    <3>1. PICK r \in Call : r = call[j] /\ r = call'[j] /\ met'[j] = met[j]
          BY <1>1, <1>3, <2>2 DEF IInv, TypeOK
    <3>2. OnPath(j, r)
          BY <3>1 DEF PathInv
    <3>3. OnPath(j, r)'
          BY <1>1, <3>1, <3>2
             DEF OnPath, Guarded, Ahead, Standing, Came, Due, LensFor,
                 WrapperFrom, DelegatesFrom, Passes, Wraps, classVars
    <3>4. QED
          BY <3>1, <3>3 DEF OnPath
  <2>3. QED
        BY <2>1, <2>2
<1>7. ASSUME NEW j \in Instances PROVE MetGuarded(j)'
  <2>1. CASE met'[j] = met[j]
    <3>1. PICK m \in Methods \cup {NoMethod} : m = met[j] /\ m = met'[j]
          BY <2>1 DEF IInv, TypeOK
    <3>2. m # NoMethod => Guarded(j, m) /\ LensFor(j) # NoLens
          BY <3>1 DEF PathInv, MetGuarded
    <3>3. m # NoMethod => Guarded(j, m)' /\ LensFor(j)' # NoLens
          BY <1>4, <1>5, <3>2
    <3>4. QED
          BY <3>1, <3>3 DEF MetGuarded
  <2>2. CASE met'[j] # met[j]
    <3>1. j = i /\ met' = [met EXCEPT ![i] = call[i].via] /\ Done(i) /\ call[i].seen > 0
          BY <1>3, <2>2 DEF Return
    <3>2. PICK m \in Methods : m = call[i].via /\ m = met'[i]
          BY <3>1 DEF IInv, TypeOK, Call
    <3>3. call[i] \in Call /\ OnPath(i, call[i]) /\ call[i].at = "worked"
          BY <3>1 DEF IInv, TypeOK, PathInv, Done
    <3>4. Wrappers(call[i]) > 0
          BY <3>1, <3>3 DEF Wrappers, Call
    <3>5. Guarded(i, m) /\ LensFor(i) # NoLens
          BY <3>1, <3>2, <3>3, <3>4 DEF OnPath
    <3>6. Guarded(i, m)' /\ LensFor(i)' # NoLens
          BY <1>4, <1>5, <3>5
    <3>7. QED
          BY <3>1, <3>2, <3>6 DEF MetGuarded
  <2>3. QED
        BY <2>1, <2>2
<1>8. QED
    BY <1>6, <1>7 DEF PathInv

\* With the hook installed, a class whose overrides call up has its methods
\* guarded by the wrappers of the class directly below the base.
LEMMA AutoGuarded ==
    ASSUME IInv, ClassInv, OverridesCallUp, NEW i \in Instances, ClassOf[i] \in defined,
           Kind[ClassOf[i]] \in hooked, NEW m \in MethodsOf[Kind[ClassOf[i]]]
    PROVE  Guarded(i, m)
<1> DEFINE c == ClassOf[i]
           n == Len(Mro[c])
           methods == MethodsOf[Kind[c]]
           stops == {k \in 1 .. n - 1 : ~Passes(c, k, m)}
<1>1. c \in Classes /\ n \in Nat \ {0} /\ methods \subseteq Methods /\ Kind[c] \in Kinds
    BY ClassesAssumption, RootMro, KindMethods
<1>2. \A w \in methods : Wraps(Mro[c][n], w)
  <2>1. n \in 1 .. n
        BY <1>1
  <2>2. /\ Mro[c][n] \in Classes /\ Kind[Mro[c][n]] = Kind[c]
        /\ Len(Mro[Mro[c][n]]) = n - n + 1
        BY <1>1, <2>1, MroTail
  <2>3. Len(Mro[Mro[c][n]]) = 1
        BY <1>1, <2>2
  <2>4. Mro[c][n] \in defined
        BY <2>1 DEF ClassInv, BasesDefined
  <2>5. QED
        BY <2>2, <2>3, <2>4 DEF ClassInv, RootsPatched, FlagWraps
<1>3. ASSUME NEW k \in 1 .. n - 1, NEW w \in methods PROVE Body[Mro[c][k]][w] # "works"
  <2>1. k \in 1 .. n
        BY <1>1
  <2>2. /\ Mro[c][k] \in Classes /\ Kind[Mro[c][k]] = Kind[c]
        /\ Len(Mro[Mro[c][k]]) = n - k + 1
        BY <1>1, <2>1, MroTail
  <2>3. Len(Mro[Mro[c][k]]) > 1
        BY <1>1, <2>2
  <2>4. QED
        BY <2>2, <2>3 DEF OverridesCallUp
<1>4. ASSUME NEW k \in 1 .. n - 1, NEW w \in methods PROVE Body[Mro[c][k]][w] \in Bodies
  <2>1. k \in 1 .. n /\ w \in Methods
        BY <1>1
  <2>2. Mro[c][k] \in Classes
        BY <1>1, <2>1, MroTail
  <2>3. QED
        BY <2>1, <2>2, ClassesAssumption
<1>5. ASSUME NEW w \in methods, \A k \in 1 .. n - 1 : Passes(c, k, w)
      PROVE  WrapperFrom(c, 1, w)
    BY <1>1, <1>2, <1>5 DEF WrapperFrom
<1>6. CASE stops = {}
    BY <1>5, <1>6 DEF Guarded
<1>7. CASE stops # {}
  <2>1. PICK j \in stops : \A k \in stops : j <= k
    <3> HIDE DEF n
    <3>1. PICK last \in Nat : last = n - 1
          BY <1>1
    <3>2. stops \in SUBSET (1 .. last)
          BY <3>1
    <3> HIDE DEF stops
    <3>3. QED
          BY <1>7, <3>2, LeastPosition
  <2>2. j \in 1 .. n /\ j \in 1 .. n - 1 /\ \A k \in 1 .. j - 1 : Passes(c, k, m)
    <3>1. j \in 1 .. n /\ j \in 1 .. n - 1
          BY <1>1, <2>1
    <3>2. \A k \in 1 .. j - 1 : k \in 1 .. n - 1 /\ ~(j <= k)
          BY <1>1, <3>1
    <3>3. QED
          BY <2>1, <3>1, <3>2
  <2>3. Body[Mro[c][j]][m] = "delegates"
        BY <1>3, <1>4, <2>1, <2>2 DEF Passes, Bodies
  <2>4. DelegatesFrom(c, 1, m)
        BY <2>2, <2>3 DEF DelegatesFrom
  <2>5. m # "put" /\ m # "get_tuple" /\ Mro[c][j] \in Classes
    <3>1. Mro[c][j] \in Classes
          BY <1>1, <2>2, MroTail
    <3>2. QED
          BY <2>3, <3>1, ClassesAssumption
  <2>6. Sync(m) \in methods
        BY <1>1, <2>5, KindMethods DEF Sync, MethodsOf, Methods, Reads, Kinds
  <2>7. ASSUME NEW k \in 1 .. n - 1 PROVE Passes(c, k, Sync(m))
    <3>1. k \in 1 .. n
          BY <1>1
    <3>2. Mro[c][k] \in Classes
          BY <1>1, <3>1, MroTail
    <3>3. Body[Mro[c][k]][Sync(m)] # "delegates"
          BY <3>2, SyncMethod
    <3>4. QED
          BY <1>3, <1>4, <2>6, <3>3 DEF Passes, Bodies
  <2>8. WrapperFrom(c, 1, Sync(m))
        BY <1>5, <2>6, <2>7
  <2>9. QED
        BY <2>4, <2>8 DEF Guarded
<1>8. QED
    BY <1>6, <1>7

LEMMA PathBegin ==
    ASSUME IInv, ClassInv, PathInv, NEW i \in Instances, NEW m \in Methods, Begin(i, m)
    PROVE  PathInv'
<1> DEFINE started == [Idle EXCEPT !.via = m, !.at = "running", !.swapped = lensOf[i],
                                   !.auto = AutoOn(i)]
           c == ClassOf[i]
           method == Dispatch(i, m)
           new == Frame(started, m, method)
<1>1. /\ m \in MethodsOf[Kind[c]] /\ call' = [call EXCEPT ![i] = new] /\ c \in defined
    BY DEF Begin
<1>2. method \in Method /\ c \in Classes
    BY <1>1, DispatchOnce, ClassesAssumption
<1>3. /\ started \in Call /\ started.via = m /\ started.auto = AutoOn(i)
      /\ started.at = "running" /\ started.owed = 0 /\ started.seen = 0
  <2>1. lensOf[i] \in Lenses \cup {NoLens} /\ AutoOn(i) \in BOOLEAN
        BY DEF IInv, TypeOK, AutoOn
  <2>2. QED
        BY <2>1 DEF Idle, Call, Methods
<1>4. /\ new \in Call /\ new.method = m /\ new.of = method.of /\ new.wraps = method.wraps
      /\ new.via = m /\ new.auto = AutoOn(i) /\ new.at = "running"
      /\ new.owed = 0 /\ new.seen = 0
  <2> HIDE DEF started, method
  <2>1. QED
        BY <1>2, <1>3, FrameFields
<1> HIDE DEF method, new
<1>5. Wrappers(new) > 0 <=> method.wraps > 0
    BY <1>2, <1>4 DEF Wrappers, Method
<1>6. /\ bound[i] # NoTable => method.wraps > 0
      /\ bound[i] = NoTable =>
            \E q \in 1 .. Len(Mro[c]) + 1 :
                /\ method.of = At(c, q)
                /\ q <= Len(Mro[c]) => Body[Mro[c][q]][m] # "absent"
                /\ \A j \in 1 .. q - 1 : Passes(c, j, m)
                /\ method.wraps > 0 => WrapperFrom(c, 1, m)
                /\ WrapperFrom(c, 1, m) =>
                      \/ method.wraps > 0
                      \/ q <= Len(Mro[c]) /\ Passes(c, q, m) /\ WrapperFrom(c, q + 1, m)
                /\ DelegatesFrom(c, 1, m) => DelegatesFrom(c, q, m)
    BY <1>1, DispatchPath DEF method
<1>7. bound[i] = NoTable =>
          \E q \in 1 .. Len(Mro[c]) + 1 : Standing(c, new, q) /\ Came(c, new, q)
    BY <1>4, <1>6 DEF Standing, Came
<1>8. Wrappers(new) > 0 => Guarded(i, new.via)
    BY <1>4, <1>5, <1>6 DEF Guarded
<1>9. Due(i, new) => Guarded(i, m)
  <2>1. met[i] = m => Guarded(i, m)
        BY NoneAssumption DEF PathInv, MetGuarded
  <2>2. AutoOn(i) /\ OverridesCallUp => Guarded(i, m)
        BY <1>1, AutoGuarded DEF AutoOn
  <2>3. QED
        BY <1>4, <2>1, <2>2 DEF Due
<1>10. Due(i, new) =>
          \/ Wrappers(new) > 0
          \/ \E q \in 1 .. Len(Mro[c]) + 1 : Standing(c, new, q) /\ Ahead(i, new, q)
  <2>1. ASSUME Guarded(i, m), ~(method.wraps > 0)
        PROVE  \E q \in 1 .. Len(Mro[c]) + 1 : Standing(c, new, q) /\ Ahead(i, new, q)
    <3>1. bound[i] = NoTable
          BY <1>6, <2>1
    <3>2. QED
          BY <1>4, <1>6, <2>1, <3>1 DEF Guarded, Standing, Ahead
  <2>2. QED
        BY <1>5, <1>9, <2>1
<1>11. new.seen > 0 \/ new.auto => LensFor(i) # NoLens
  <2>1. ~(new.seen > 0) /\ (new.auto => AutoOn(i))
        BY <1>4
  <2>2. AutoOn(i) => LensFor(i) # NoLens
        BY DEF AutoOn, LensFor
  <2>3. QED
        BY <2>1, <2>2
<1>12. OnPath(i, new)
    BY <1>4, <1>7, <1>8, <1>10, <1>11 DEF OnPath
<1>13. QED
    BY <1>1, <1>4, <1>12, PathCallChange DEF Begin

LEMMA PathNext ==
    ASSUME IInv, ClassInv, PathInv, [Next]_vars
    PROVE  PathInv'
<1>1. CASE \E c \in Classes : Define(c)
    BY <1>1, PathClasses
<1>2. ASSUME NEW lens \in Lenses \cup {NoLens}, InstallSavers(lens) \/ InstallStores(lens)
      PROVE  PathInv'
    BY <1>2, PathInstall DEF InstallSavers, InstallStores, Kinds
<1>3. CASE InstallGlobal
    BY <1>3, PathInstall DEF InstallGlobal, Kinds
<1>4. ASSUME NEW i \in Instances, Protect(i) PROVE PathInv'
    BY <1>4, PathProtect DEF Protect
<1>5. ASSUME NEW i \in Instances, CallStep(i) PROVE PathInv'
    BY <1>5, PathBegin, PathBeforeWrite, PathBeforeRead, PathAfterRead, PathRunBody, PathReturn
       DEF CallStep
<1>6. CASE UNCHANGED vars
    BY <1>6, PathKept DEF vars, classVars, WrappersStay, Wraps, LensesStay, LensFor, TablesStay
<1>7. QED
    BY <1>1, <1>2, <1>3, <1>4, <1>5, <1>6 DEF Next

-----------------------------------------------------------------------------
(* The theorems.                                                           *)

LEMMA PathInit ==
    ASSUME Init
    PROVE  ClassInv /\ PathInv
<1>1. ASSUME NEW c \in Classes, NEW m \in Methods
      PROVE  /\ Body[c][m] # "absent" => own[c][m] # NoMethod
             /\ own[c][m] # NoMethod =>
                   Body[c][m] # "absent" /\ own[c][m].of = c /\ own[c][m].wraps = 0
  <2>1. own[c][m] = IF Body[c][m] = "absent" THEN NoMethod ELSE [of |-> c, wraps |-> 0]
        BY DEF Init
  <2>2. [of |-> c, wraps |-> 0] \in Method
        BY DEF Method
  <2>3. QED
        BY <2>1, <2>2, NoneAssumption
<1>2. ASSUME NEW c \in Classes, NEW m \in Methods, own[c][m] # NoMethod
      PROVE  \E q \in 1 .. Len(Mro[c]) + 1 : FirstBody(c, 1, m, q) /\ own[c][m].of = At(c, q)
  <2>1. 1 \in 1 .. Len(Mro[c]) /\ 1 \in 1 .. Len(Mro[c]) + 1 /\ Mro[c][1] = c
        BY RootMro
  <2>2. FirstBody(c, 1, m, 1) /\ At(c, 1) = c
        BY <1>1, <1>2, <2>1 DEF FirstBody, At
  <2>3. QED
        BY <1>1, <1>2, <2>1, <2>2
<1>3. OwnBodies
    BY <1>1, <1>2 DEF OwnBodies
<1>4. ClassInv
    BY <1>3 DEF Init, ClassInv, FlagWraps, BasesDefined, RootsPatched
<1>5. PathInv
    BY DEF Init, PathInv, OnPath, MetGuarded, Idle
<1>6. QED
    BY <1>4, <1>5

LEMMA PathInvariance == Spec => [](ClassInv /\ PathInv)
<1>1. Init => ClassInv /\ PathInv
    BY PathInit
<1>2. IInv /\ ClassInv /\ PathInv /\ [Next]_vars => (ClassInv /\ PathInv)'
    BY ClassNext, PathNext
<1>3. QED
    BY <1>1, <1>2, Invariance, PTL DEF Spec

\* Protection is never lost: for any classes and any order of definitions, installs,
\* protections and calls, once a method of an instance met a lens, every later call
\* of it that works does.
THEOREM ProtectionLasts == Spec => []StaysInspected
<1>1. IInv /\ PathInv => StaysInspected
  <2>1. ASSUME IInv, PathInv, NEW i \in Instances, Done(i), call[i].via = met[i]
        PROVE  call[i].seen > 0
    <3>1. call[i] \in Call /\ OnPath(i, call[i])
          BY <2>1 DEF IInv, TypeOK, PathInv
    <3>2. call[i].owed + call[i].seen > 0 /\ call[i].owed = 0
          BY <2>1, <3>1 DEF OnPath, Done, Due
    <3>3. QED
          BY <3>1, <3>2 DEF Call
  <2>2. QED
        BY <2>1 DEF StaysInspected
<1>2. QED
    BY <1>1, Invariance, PathInvariance, PTL

\* With auto-protection installed and a global lens no call works unseen, of any class
\* tree in which the classes below another saver or store leave the work to it: those
\* whose overrides call super() or delegate.  The promise holds for them in whatever
\* order they were defined and the lens installed.
THEOREM AutoProtectionHolds ==
    ASSUME OverridesCallUp
    PROVE  Spec => []AutoProtected
<1>1. IInv /\ PathInv => AutoProtected
  <2>1. ASSUME IInv, PathInv, NEW i \in Instances, Done(i), call[i].auto
        PROVE  call[i].seen > 0
    <3>1. call[i] \in Call /\ OnPath(i, call[i])
          BY <2>1 DEF IInv, TypeOK, PathInv
    <3>2. call[i].owed + call[i].seen > 0 /\ call[i].owed = 0
          BY <2>1, <3>1 DEF OnPath, Done, Due
    <3>3. QED
          BY <3>1, <3>2 DEF Call
  <2>2. QED
        BY <2>1 DEF AutoProtected
<1>2. QED
    BY <1>1, Invariance, PathInvariance, PTL
=============================================================================
