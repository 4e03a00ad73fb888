------------------------------- MODULE Values -------------------------------
(***************************************************************************)
(* Comparing, hashing, zeroing and asserting boxed values (value.go,       *)
(* ops.go).  The static type of an operand directs each operation, and the *)
(* dynamic type inside an interface takes over from it.                    *)
(*                                                                         *)
(* Hashing an interface goes through hashType, whose memo table all the    *)
(* interpreters of a process share under one lock; each of them is a       *)
(* thread here.  The other operations read nothing shared, so they are     *)
(* taken while no hash is under way.  Blank fields, rtypes and tuples are  *)
(* left out.                                                               *)
(***************************************************************************)
EXTENDS Integers, Sequences, FiniteSets, SequencesExt

CONSTANTS
  Types,         \* the types of the program
  DynTypes,      \* the dynamic types of its interface values
  Literals,      \* the scalars of each kind, by name
  MaxDepth,      \* bound on how deep values are nested in one another
  Threads,       \* the interpreters of the process
  TypeHash(_),   \* what the hasher answers for a type
  ScalarHash(_)  \* hash of a scalar, as the number it is converted to

\* Types -----------------------------------------------------------------------

Scalar(kind) == [kind |-> kind]
Named(name, T, methods) == [kind |-> "named", name |-> name, under |-> T, has |-> methods]
Iface(methods) == [kind |-> "iface", needs |-> methods]
Array(T, n) == [kind |-> "array", elem |-> T, len |-> n]
Struct(fields) == [kind |-> "struct", fields |-> fields]
Field(T) == [type |-> T, anon |-> FALSE]
Embedded(T) == [type |-> T, anon |-> TRUE]
Map(K) == [kind |-> "map", key |-> K]

NoType == [kind |-> "none"]

Underlying(T) == IF T.kind = "named" THEN T.under ELSE T
Methods(T) == IF T.kind = "named" THEN T.has ELSE {}

\* The types of the parts of an aggregate.
PartTypes(T) ==
  LET U == Underlying(T)
  IN IF U.kind = "array"
     THEN [i \in 1 .. U.len |-> U.elem]
     ELSE [i \in DOMAIN U.fields |-> U.fields[i].type]
IsAggregate(T) == Underlying(T).kind \in {"array", "struct"}
IsInterface(T) == Underlying(T).kind = "iface"

\* Types the compiler lets the program compare to nil only.
Uncomparable == {"func", "slice", "map"}

\* Mutant: structs as well.
UsesBuiltinMapStructs(T) == Underlying(T).kind \in {"int", "float", "pointer", "struct"}

\* usesBuiltinMap
UsesBuiltinMap(T) == Underlying(T).kind \in {"int", "float", "pointer"}

\* Values ----------------------------------------------------------------------

Boxed(tag, is) == [tag |-> tag, is |-> is]
NoValue == Boxed("none", "")
Agg(parts) == [tag |-> "agg", parts |-> parts]
Dyn(T, v) == [tag |-> "iface", t |-> T, v |-> v]
NilIface == Dyn(NoType, NoValue)

\* The dynamic type of the host value that stands for a scalar of type T.
TagOf(T) ==
  LET U == Underlying(T)
  IN IF U.kind = "map" /\ ~UsesBuiltinMap(U.key) THEN "hashmap" ELSE U.kind

Nil == "nil"
Implements(D, T) == Underlying(T).needs \subseteq Methods(D)

\* The sequences of one element of each of a sequence of sets.
Tuples(sets) ==
  {f \in [DOMAIN sets -> UNION {sets[i] : i \in DOMAIN sets}] :
     \A i \in DOMAIN sets : f[i] \in sets[i]}

\* The values of type p[2] that are nested p[1] deep or less.
Nested[p \in (0 .. MaxDepth) \X Types] ==
  LET n == p[1]
      T == p[2]
      parts == PartTypes(T)
      Of(D) == Nested[<<n - 1, D>>]
  IN CASE IsInterface(T) ->
            {NilIface} \cup
            IF n = 0 THEN {}
            ELSE UNION {{Dyn(D, v) : v \in Of(D)} : D \in {E \in DynTypes : Implements(E, T)}}
       [] IsAggregate(T) ->
            IF n = 0 THEN {}
            ELSE {Agg(f) : f \in Tuples([i \in DOMAIN parts |-> Of(parts[i])])}
       [] OTHER -> {Boxed(TagOf(T), is) : is \in Literals[TagOf(T)]}

Vals == [T \in Types |-> Nested[<<MaxDepth, T>>]]

\* The values and the pairs of values of one type, each with its type and nesting.
Typed == UNION {{<<n, T, x>> : x \in Nested[<<n, T>>]} : n \in 0 .. MaxDepth, T \in Types}
Pairs == UNION {{<<n, T, x, y>> : x \in Nested[<<n, T>>], y \in Nested[<<n, T>>]} :
                  n \in 0 .. MaxDepth, T \in Types}

\* zero
Zero[T \in Types] ==
  CASE IsInterface(T) -> NilIface
    [] IsAggregate(T) -> Agg([i \in DOMAIN PartTypes(T) |-> Zero[PartTypes(T)[i]]])
    [] Underlying(T).kind \in {"int", "float"} -> Boxed(TagOf(T), "0")
    [] OTHER -> Boxed(TagOf(T), Nil)

-----------------------------------------------------------------------------
\* Comparison ------------------------------------------------------------------

\* The host's == on two scalars of one type.
SameScalar(x, y) ==
  /\ x.is # "NaN" /\ y.is # "NaN"
  /\ x.is = y.is \/ {x.is, y.is} = {"0", "-0"}

Answer(b) == IF b THEN "equal" ELSE "differ"

\* The first answer other than "equal" decides.
Decided(answers) ==
  LET apart == {i \in DOMAIN answers : answers[i] # "equal"}
  IN IF apart = {} THEN "equal" ELSE answers[Min(apart)]

\* Whether eq and hash look at part i of an aggregate: they leave out embedded fields.
LooksAt(T, i) == Underlying(T).kind = "array" \/ ~Underlying(T).fields[i].anon

\* Mutant: the underlying types are compared.
SameTypeUnderlying(S, T) == Underlying(S) = Underlying(T)

\* sameType, with types.Identical
SameType(S, T) == S = T

\* equals
Comparison[q \in Pairs] ==
  LET n == q[1]
      T == q[2]
      x == q[3]
      y == q[4]
  IN CASE x.tag = "agg" ->
            Decided([i \in DOMAIN PartTypes(T) |->
                       IF LooksAt(T, i)
                       THEN Comparison[<<n - 1, PartTypes(T)[i], x.parts[i], y.parts[i]>>]
                       ELSE "equal"])
       [] x.tag = "iface" ->
            IF x.t = NoType \/ ~SameType(x.t, y.t)
            THEN Answer(SameType(x.t, y.t))
            ELSE Comparison[<<n - 1, x.t, x.v, y.v>>]
       [] x.tag \in {"int", "float", "pointer"} -> Answer(SameScalar(x, y))
       [] OTHER -> "panic"

Equals(T, x, y) == Comparison[<<MaxDepth, T, x, y>>]

\* eqnil: one operand of an uncomparable type is nil.
EqNil(T, x, y) ==
  IF Underlying(T).kind \in Uncomparable
  THEN IF x.tag = "func" /\ y.is = "closure" /\ x.is # "closure"
       THEN "equal"
       ELSE Answer((x.is # Nil) = (y.is # Nil))
  ELSE Equals(T, x, y)

\* Hashing ---------------------------------------------------------------------

\* Mutant: -0 is hashed apart from 0.
ScalarHashBits(x) == IF x.is = "-0" THEN 5 ELSE ScalarHash(x)
HashScalar(x) == ScalarHash(x)

Total(hashes) == FoldLeft(LAMBDA h, k : h + k, 0, hashes)

\* hash of a value that it does not panic for
HashOf[q \in Typed] ==
  LET n == q[1]
      T == q[2]
      x == q[3]
  IN CASE x.tag = "agg" ->
            Total([i \in DOMAIN PartTypes(T) |->
                     IF LooksAt(T, i) THEN HashOf[<<n - 1, PartTypes(T)[i], x.parts[i]>>] ELSE 0])
       [] x.tag = "iface" ->
            IF x.t = NoType THEN 0 ELSE TypeHash(x.t) * 8581 + HashOf[<<n - 1, x.t, x.v>>]
       [] OTHER -> HashScalar(x)

\* What hash meets on its way that may stop it: the type inside each interface, for
\* hashType, and values it cannot hash.
Unhashable == [kind |-> "unhashable"]
StepsOf[q \in Typed] ==
  LET n == q[1]
      T == q[2]
      x == q[3]
  IN CASE x.tag = "agg" ->
            FlattenSeq([i \in DOMAIN PartTypes(T) |->
              IF LooksAt(T, i) THEN StepsOf[<<n - 1, PartTypes(T)[i], x.parts[i]>>] ELSE <<>>])
       [] x.tag = "iface" ->
            <<x.t>> \o IF x.t = NoType THEN <<>> ELSE StepsOf[<<n - 1, x.t, x.v>>]
       [] x.tag \in {"int", "float", "pointer"} -> <<>>
       [] OTHER -> <<Unhashable>>

\* go/types: a type has finitely many parts; what an interface holds is not an interface.
ASSUME TypesAssumption ==
  /\ MaxDepth \in Nat
  /\ DynTypes \subseteq {T \in Types : ~IsInterface(T)}
  /\ \A T \in Types :
       /\ T # NoType /\ T # Unhashable
       /\ IsAggregate(T) => PartTypes(T) \in Seq(Types)
       /\ ~IsAggregate(T) /\ ~IsInterface(T) => TagOf(T) \in DOMAIN Literals

\* The host's conversion of a scalar to int makes one number of 0 and -0.
ASSUME ScalarsAssumption ==
  /\ DOMAIN Literals \subseteq {"int", "float", "pointer", "func", "slice", "map", "hashmap"}
  /\ \A tag \in DOMAIN Literals : \A a, b \in Literals[tag] :
       SameScalar(Boxed(tag, a), Boxed(tag, b)) =>
         ScalarHash(Boxed(tag, a)) = ScalarHash(Boxed(tag, b))

-----------------------------------------------------------------------------
\* The machine -----------------------------------------------------------------

VARIABLES
  answer,    \* the last operation that shares nothing, and what it answered
  locked,    \* mu
  inside,    \* the threads in the hasher
  key,       \* the key each thread is hashing, or NoKey
  todo,      \* steps of the hash still to come
  hash,      \* what hash returned: a number, or Panicked; Unset while it runs
  nilHashed  \* (history) whether a thread has panicked in the hasher

hashVars == <<locked, inside, key, todo, hash, nilHashed>>
vars == <<answer, hashVars>>

NoKey == [type |-> NoType, value |-> NoValue]
NoAnswer == [op |-> "none"]
Unset == [is |-> "unset"]
Panicked == [is |-> "panicked"]
Hashed(n) == [is |-> "hashed", n |-> n]

\* Whether a value of type T may be an operand of == but to compare it to nil.
Comparable[T \in Types] ==
  IF IsAggregate(T)
  THEN \A i \in DOMAIN PartTypes(T) : Comparable[PartTypes(T)[i]]
  ELSE Underlying(T).kind \notin Uncomparable

Init ==
  /\ answer = NoAnswer
  /\ locked = FALSE
  /\ inside = {}
  /\ key = [th \in Threads |-> NoKey]
  /\ todo = [th \in Threads |-> <<>>]
  /\ hash = [th \in Threads |-> Unset]
  /\ nilHashed = FALSE

\* No hash is under way, and the last answer was used.
Quiet ==
  /\ answer = NoAnswer
  /\ \A th \in Threads : key[th] = NoKey

UseAnswer ==
  /\ answer # NoAnswer
  /\ answer' = NoAnswer
  /\ UNCHANGED hashVars

\* BinOp ==, of a well-typed program.
Compare(T, x, y) ==
  /\ IF Underlying(T).kind \in Uncomparable THEN Nil \in {x.is, y.is} ELSE Comparable[T]
  /\ answer' = [op |-> "compare", type |-> T, x |-> x, y |-> y, is |-> EqNil(T, x, y)]
  /\ UNCHANGED hashVars

\* The zero value of a new variable, or of an absent map element.
MakeZero(T) ==
  /\ answer' = [op |-> "zero", type |-> T, value |-> Zero[T]]
  /\ UNCHANGED hashVars

\* Mutant: the type assertion accepts a type with the same underlying type.
TypeAssertUnderlying(S, x, T, commaOk) ==
  LET ok == /\ x.t # NoType
            /\ IF IsInterface(T) THEN Implements(x.t, T)
               ELSE Underlying(x.t) = Underlying(T)
      v == IF ~ok THEN Zero[T] ELSE IF IsInterface(T) THEN x ELSE x.v
  IN /\ IsInterface(S)
     /\ answer' = [op |-> "assert", type |-> T, x |-> x, ok |-> ok,
                    value |-> IF ok \/ commaOk THEN v ELSE NoValue]
     /\ UNCHANGED hashVars

\* typeAssert: the value inside the interface, the interface itself, or zero (with
\* commaOk) or a panic.
TypeAssert(S, x, T, commaOk) ==
  LET ok == /\ x.t # NoType
            /\ IF IsInterface(T) THEN Implements(x.t, T)
               ELSE x.t = T
      v == IF ~ok THEN Zero[T] ELSE IF IsInterface(T) THEN x ELSE x.v
  IN /\ IsInterface(S)
     /\ answer' = [op |-> "assert", type |-> T, x |-> x, ok |-> ok,
                    value |-> IF ok \/ commaOk THEN v ELSE NoValue]
     /\ UNCHANGED hashVars

\* A map operation whose key is of type T: the host's map compares the keys itself.
HostKey(T, x, y) ==
  /\ Comparable[T]
  /\ UsesBuiltinMap(T)
  /\ answer' = [op |-> "key", type |-> T, x |-> x, y |-> y,
                 is |-> IF x.tag = "agg" THEN "panic" ELSE Answer(SameScalar(x, y))]
  /\ UNCHANGED hashVars

\* ... or hashmap calls hash.
BeginHash(th, T, x) ==
  /\ answer = NoAnswer
  /\ key[th] = NoKey
  /\ Comparable[T]
  /\ ~UsesBuiltinMap(T)
  /\ key' = [key EXCEPT ![th] = [type |-> T, value |-> x]]
  /\ todo' = [todo EXCEPT ![th] = StepsOf[<<MaxDepth, T, x>>]]
  /\ UNCHANGED <<answer, locked, inside, hash, nilHashed>>

\* hashType: mu.Lock
LockMu(th) ==
  /\ todo[th] # <<>>
  /\ Head(todo[th]) # Unhashable
  /\ th \notin inside
  /\ ~locked
  /\ locked' = TRUE
  /\ inside' = inside \cup {th}
  /\ UNCHANGED <<answer, key, todo, hash, nilHashed>>

\* Mutant: the lock is kept while more of the key is to be hashed.
UnlockMuLate(th) ==
  /\ th \in inside
  /\ Head(todo[th]) # NoType
  /\ locked' = (Len(todo[th]) > 1)
  /\ inside' = inside \ {th}
  /\ todo' = [todo EXCEPT ![th] = Tail(@)]
  /\ UNCHANGED <<answer, key, hash, nilHashed>>

\* hashType: mu.Unlock
UnlockMu(th) ==
  /\ th \in inside
  /\ Head(todo[th]) # NoType
  /\ locked' = FALSE
  /\ inside' = inside \ {th}
  /\ todo' = [todo EXCEPT ![th] = Tail(@)]
  /\ UNCHANGED <<answer, key, hash, nilHashed>>

\* hasher.Hash panics for the nil type of a nil interface; nobody unlocks mu.
PanicInHasher(th) ==
  /\ th \in inside
  /\ Head(todo[th]) = NoType
  /\ inside' = inside \ {th}
  /\ nilHashed' = TRUE
  /\ todo' = [todo EXCEPT ![th] = <<>>]
  /\ hash' = [hash EXCEPT ![th] = Panicked]
  /\ UNCHANGED <<answer, locked, key>>

\* hash panics: "is unhashable"
PanicUnhashable(th) ==
  /\ todo[th] # <<>>
  /\ Head(todo[th]) = Unhashable
  /\ todo' = [todo EXCEPT ![th] = <<>>]
  /\ hash' = [hash EXCEPT ![th] = Panicked]
  /\ UNCHANGED <<answer, locked, inside, key, nilHashed>>

ReturnHash(th) ==
  /\ key[th] # NoKey
  /\ todo[th] = <<>>
  /\ hash[th] = Unset
  /\ hash' = [hash EXCEPT ![th] = Hashed(HashOf[<<MaxDepth, key[th].type, key[th].value>>])]
  /\ UNCHANGED <<answer, locked, inside, key, todo, nilHashed>>

\* The thread is done with the hash.
EndHash(th) ==
  /\ hash[th] # Unset
  /\ key' = [key EXCEPT ![th] = NoKey]
  /\ hash' = [hash EXCEPT ![th] = Unset]
  /\ UNCHANGED <<answer, locked, inside, todo, nilHashed>>

HashStep(th) == UnlockMu(th) \/ PanicInHasher(th) \/ PanicUnhashable(th) \/ ReturnHash(th)

\* The operations that share nothing.
Operation(T) ==
  \/ MakeZero(T)
  \/ \E x, y \in Vals[T] : Compare(T, x, y) \/ HostKey(T, x, y)
  \/ \E x \in Vals[T], U \in Types, commaOk \in BOOLEAN : TypeAssert(T, x, U, commaOk)

Next ==
  \/ Quiet /\ \E T \in Types : Operation(T)
  \/ UseAnswer
  \/ \E th \in Threads :
       \/ \E T \in Types : \E x \in Vals[T] : BeginHash(th, T, x)
       \/ LockMu(th) \/ HashStep(th) \/ EndHash(th)

Spec == Init /\ [][Next]_vars

\* sync.Mutex hands itself over to a goroutine that has waited for long.
FairSpec == Spec /\ \A th \in Threads : WF_vars(HashStep(th)) /\ SF_vars(LockMu(th))

-----------------------------------------------------------------------------
\* Properties -----------------------------------------------------------------

\* Go's comparison of two values, told without following equals: the scalar parts and
\* the dynamic types are laid out in order, and the first place where the two differ,
\* or that cannot be compared, decides.
IsEmbedded(T, i) == Underlying(T).kind = "struct" /\ Underlying(T).fields[i].anon
AllEmbedded(atoms) == [i \in DOMAIN atoms |-> [atoms[i] EXCEPT !.embedded = TRUE]]

Atoms[q \in Typed] ==
  LET n == q[1]
      T == q[2]
      x == q[3]
  IN CASE x.tag = "agg" ->
            FlattenSeq([i \in DOMAIN PartTypes(T) |->
              LET part == Atoms[<<n - 1, PartTypes(T)[i], x.parts[i]>>]
              IN IF IsEmbedded(T, i) THEN AllEmbedded(part) ELSE part])
       [] x.tag = "iface" ->
            <<[type |-> x.t, scalar |-> NoValue, embedded |-> FALSE]>> \o
              IF x.t = NoType THEN <<>> ELSE Atoms[<<n - 1, x.t, x.v>>]
       [] OTHER -> <<[type |-> NoType, scalar |-> x, embedded |-> FALSE]>>

\* Go's spec: two interface values with one dynamic type that is not comparable.
CanCompare(D) == Underlying(D).kind \notin Uncomparable /\ (IsAggregate(D) => Comparable[D])
Incomparable(a) ==
  \/ a.type # NoType /\ ~CanCompare(a.type)
  \/ a.scalar.tag \in {"func", "slice", "map", "hashmap"}
SameAtom(a, b) ==
  /\ a.type = b.type
  /\ ~Incomparable(a)
  /\ a.scalar = NoValue \/ SameScalar(a.scalar, b.scalar)

Differing(a, b) == {i \in DOMAIN a \cap DOMAIN b : ~SameAtom(a[i], b[i])}

Verdict(a, b) == IF a.type = b.type /\ Incomparable(a) THEN "panic" ELSE "differ"

GoCompare(T, x, y) ==
  LET a == Atoms[<<MaxDepth, T, x>>]
      b == Atoms[<<MaxDepth, T, y>>]
      first == Min(Differing(a, b))
  IN IF Underlying(T).kind \in Uncomparable THEN Answer(x.is = y.is)
     ELSE IF Differing(a, b) = {} THEN "equal"
     ELSE Verdict(a[first], b[first])

\* Where equals is not Go's equivalence relation: what decides for Go is in an embedded
\* field, which structure.eq skips, or is that a struct or array in two interfaces is of
\* a type that cannot be compared, whose parts equals compares until two differ; and
\* eqnil takes a nil func to its left to be equal to a closure.
Odd(a, b) ==
  \/ a.embedded
  \/ a.type = b.type /\ IsAggregate(a.type) /\ ~CanCompare(a.type)

DecidedOtherwise(T, x, y) ==
  LET a == Atoms[<<MaxDepth, T, x>>]
      b == Atoms[<<MaxDepth, T, y>>]
      first == Min(Differing(a, b))
  IN \/ Differing(a, b) # {} /\ Odd(a[first], b[first])
     \/ x = Boxed("func", "nil") /\ y = Boxed("func", "closure")

\* equals and eqnil answer, or panic, as Go does (value.go:197-199), but for the three
\* cases of DecidedOtherwise.
EqualsIsGo ==
  answer.op = "compare" =>
    \/ answer.is = GoCompare(answer.type, answer.x, answer.y)
    \/ DecidedOtherwise(answer.type, answer.x, answer.y)

\* usesBuiltinMap's promise: where it has the host's map used, that map finds a key
\* exactly where equals does.
BuiltinMapAgrees ==
  answer.op = "key" => answer.is = Equals(answer.type, answer.x, answer.y)

\* Equal keys hash alike, in whichever interpreters and after whatever other hashes; and
\* a key is refused exactly if it holds, not in an embedded field, a func, slice or map,
\* or a nil interface, which Go would take.
HashAgrees ==
  \A th \in Threads :
    /\ hash[th] # Unset =>
         LET atoms == ToSet(Atoms[<<MaxDepth, key[th].type, key[th].value>>])
         IN (hash[th] = Panicked) <=>
              \E a \in atoms :
                /\ ~a.embedded
                /\ \/ a.scalar.tag \in {"func", "slice", "map", "hashmap"}
                   \/ a.scalar = NoValue /\ a.type = NoType
    /\ \A other \in Threads :
         (/\ hash[th].is = "hashed" /\ hash[other].is = "hashed"
          /\ key[th].type = key[other].type
          /\ Equals(key[th].type, key[th].value, key[other].value) = "equal") =>
           hash[th] = hash[other]

\* A hash ends, however the threads contend for the lock, unless some thread of the
\* process has hashed a nil interface.
HashEnds ==
  \A th \in Threads : key[th] # NoKey ~> (hash[th] # Unset \/ nilHashed)

\* A type assertion succeeds exactly if the value could have been put into the interface
\* as one of the asserted type, and gives back what converts to the same interface value.
AssertTells ==
  answer.op = "assert" =>
    LET back == IF IsInterface(answer.type) THEN answer.value
                ELSE Dyn(answer.type, answer.value)
    IN IF answer.ok
       THEN back = answer.x
       ELSE \A v \in Vals[answer.type] :
              answer.x # (IF IsInterface(answer.type) THEN v ELSE Dyn(answer.type, v))
              \/ answer.x = NilIface
=============================================================================
