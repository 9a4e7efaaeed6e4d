--------------------------- MODULE SwigTypesProofs ---------------------------
(***************************************************************************)
(* Proofs about SwigTypes: what modules, loaded in any order, share of     *)
(* their types and casts, and what reaches the functions of Robotc.        *)
(*                                                                         *)
(* The loaded modules are one cycle of next (RingInv), so the walks over   *)
(* them meet every one; a type that is loaded gets the record the ring     *)
(* has for it (LoadInv); and each cast list in use has what the loaded     *)
(* modules declare and the module in loading has added so far (CastInv).   *)
(***************************************************************************)
EXTENDS SwigTypes, FiniteSetTheorems, TLAPS

(* What a number may be in Perl. *)
Kinds == {"int", "float", "text", "octal", "hex"}

LEMMA Widths ==
  /\ IntMax \in Nat /\ LongMax \in Nat /\ IntMax <= LongMax /\ Quarters \subseteq Int
  /\ DoubleMax = LongMax \/ (DoubleMax = LongMax + 1 /\ IntMax < LongMax)
BY SwigAssumption

(* A fraction, rounded to the nearest integer. *)
LEMMA Rounded ==
  ASSUME NEW q \in Int
  PROVE  LET fx == q \div 4
             rd == IF q - 4 * fx < 2 THEN fx ELSE fx + 1
         IN  /\ rd \in Int /\ 4 * rd - q \in -2..2
             /\ q % 4 = 0 => 4 * rd = q
             /\ q >= 0 => 4 * rd + q >= 0
OBVIOUS

(* What IntAsWritten allows n to be for the number v. *)
AsWritten(v, n) ==
  LET q == v.quarters
      off == 4 * n - q
  IN  \/ off = 0
      \/ v.kind \in {"float", "text"} /\ q < 0 /\ off \in -2..2
      \/ ReadAsOctal(v) /\ n = Octal(q \div 4)
      \/ v.kind = "int" /\ q > 4 * LongMax /\ off = -8 * (LongMax + 1)

(* LONG_MIN comes of a double that is out of the range of long only where  *)
(* long is wider than int, and a long is then no int.                      *)
LEMMA CanCast ==
  ASSUME NEW q \in Int, CanCastAsInteger(q) # <<>>
  PROVE  \E n \in Int : /\ CanCastAsInteger(q) = <<n>>
                        /\ \/ n = -LongMax - 1 /\ IntMax < LongMax
                           \/ 4 * n = q
                           \/ 4 * n - q \in -2..2 /\ q < 0 /\ q % 4 # 0
<1> DEFINE fx == q \div 4
           rd == IF q - 4 * fx < 2 THEN fx ELSE fx + 1
<1>1. /\ rd \in Int /\ 4 * rd - q \in -2..2
      /\ q % 4 = 0 => 4 * rd = q
      /\ q >= 0 => 4 * rd + q >= 0
  BY Rounded
<1>2. CanCastAsInteger(q) = <<IF rd > LongMax THEN -LongMax - 1 ELSE rd>>
  BY DEF CanCastAsInteger
<1>3. (q % 4 # 0 => ~ (4 * rd + q >= 0)) /\ q <= 4 * DoubleMax
  BY Widths DEF CanCastAsInteger
<1>. HIDE DEF rd
<1>4. 4 * rd = q \/ (q < 0 /\ q % 4 # 0)
  BY <1>1, <1>3
<1>5. rd > LongMax => IntMax < LongMax
  BY <1>1, <1>3, <1>4, Widths
<1>. QED
  BY <1>1, <1>2, <1>4, <1>5, Widths

LEMMA LongAsWritten ==
  ASSUME NEW v, v.kind \in Kinds, v.quarters \in Int, AsValLong(v) # <<>>,
         v.kind \in {"int", "octal", "hex"} => v.quarters % 4 = 0,
         v.kind = "int" => v.quarters >= 4 * (-LongMax - 1)
  PROVE  \/ \E n \in Int : n = -LongMax - 1 /\ IntMax < LongMax /\ AsValLong(v) = <<n>>
         \/ \E n : AsWritten(v, n) /\ AsValLong(v) = <<n>>
<1> DEFINE q == v.quarters
           n == IF ReadAsOctal(v) THEN Octal(q \div 4) ELSE q \div 4
           fits == -LongMax - 1 <= n /\ n <= LongMax
           whole == q % 4 = 0 /\ (v.kind = "octal" => ReadAsOctal(v))
<1>1. AsValLong(v) =
        CASE v.kind = "undef" -> <<0>>
          [] v.kind \in {"junk", "ref", "object"} -> <<>>
          [] v.kind = "int" -> <<IF fits THEN n ELSE n - 2 * (LongMax + 1)>>
          [] v.kind \in {"float", "text", "octal", "hex"} /\ whole /\ fits -> <<n>>
          [] (v.kind \in {"text", "hex"} \/ ReadAsOctal(v)) /\ ~fits -> <<>>
          [] OTHER -> CanCastAsInteger(q)
  BY DEF AsValLong
<1>2. ~ReadAsOctal(v) => n = q \div 4
  OBVIOUS
<1>3. q \div 4 \in Int /\ (q % 4 = 0 => 4 * (q \div 4) = q)
  OBVIOUS
<1>4. ReadAsOctal(v) => v.kind = "octal"
  BY DEF ReadAsOctal
<1>5. q % 4 = 0 => AsWritten(v, n)
  <2>1. CASE ReadAsOctal(v)
    BY <2>1 DEF AsWritten
  <2>2. CASE ~ReadAsOctal(v)
    BY <1>2, <1>3, <2>2 DEF AsWritten
  <2>. QED
    BY <2>1, <2>2
<1>. HIDE DEF n
<1>6. CASE v.kind = "int"
  <2>1. q % 4 = 0 /\ n = q \div 4 /\ n \in Int /\ 4 * n = q /\ n >= -LongMax - 1
    BY <1>2, <1>3, <1>4, <1>6, Widths
  <2>2. AsValLong(v) = <<IF fits THEN n ELSE n - 2 * (LongMax + 1)>>
    BY <1>1, <1>6
  <2>3. CASE fits
    BY <1>5, <2>1, <2>2, <2>3
  <2>4. CASE ~fits
    <3>1. n > LongMax
      BY <2>1, <2>4, Widths
    <3>2. AsWritten(v, n - 2 * (LongMax + 1))
      BY <1>6, <2>1, <3>1, Widths DEF AsWritten
    <3>. QED
      BY <2>2, <2>4, <3>2
  <2>. QED
    BY <2>3, <2>4
<1>7. CASE v.kind # "int" /\ whole /\ fits
  <2>1. AsValLong(v) = <<n>>
    BY <1>1, <1>7 DEF Kinds
  <2>. QED
    BY <1>5, <1>7, <2>1
<1>8. CASE v.kind # "int" /\ ~(whole /\ fits)
  <2>1. AsValLong(v) = CanCastAsInteger(q)
    BY <1>1, <1>8 DEF Kinds
  <2>2. PICK c \in Int : /\ CanCastAsInteger(q) = <<c>>
                         /\ \/ c = -LongMax - 1 /\ IntMax < LongMax
                            \/ 4 * c = q
                            \/ 4 * c - q \in -2..2 /\ q < 0 /\ q % 4 # 0
    BY <2>1, CanCast
  <2>3. (c = -LongMax - 1 /\ IntMax < LongMax) \/ AsWritten(v, c)
    BY <2>2 DEF AsWritten, Kinds
  <2>. QED
    BY <2>1, <2>2, <2>3
<1>. QED
  BY <1>6, <1>7, <1>8

LEMMA IntKept ==
  ASSUME NEW v, v.kind \in Kinds, v.quarters \in Int, AsValInt(v) # <<>>,
         v.kind \in {"int", "octal", "hex"} => v.quarters % 4 = 0,
         v.kind = "int" => v.quarters >= 4 * (-LongMax - 1)
  PROVE  AsWritten(v, AsValInt(v)[1])
<1>1. AsValInt(v) = AsValLong(v) /\ AsValLong(v)[1] \in -IntMax - 1..IntMax /\ AsValLong(v) # <<>>
  BY DEF AsValInt
<1>2. CASE \E n \in Int : n = -LongMax - 1 /\ IntMax < LongMax /\ AsValLong(v) = <<n>>
  BY <1>1, <1>2, Widths
<1>3. CASE \E n : AsWritten(v, n) /\ AsValLong(v) = <<n>>
  BY <1>1, <1>3
<1>. QED
  BY <1>1, <1>2, <1>3, LongAsWritten

-----------------------------------------------------------------------------
(* The calls. *)
CallTypes ==
  /\ call.to \in DOMAIN Commands \cup {"spi", Nothing}
  /\ call.out \in {"none", "croak", "called"} /\ call.value \in -IntMax - 1..IntMax

LEMMA IntRange ==
  /\ 0 \in -IntMax - 1..IntMax
  /\ \A v : AsValInt(v) # <<>> => AsValInt(v)[1] \in -IntMax - 1..IntMax
BY Widths DEF AsValInt

LEMMA NumberKept ==
  ASSUME NEW v \in Numbers, v.kind \in Kinds
  PROVE  /\ v.quarters \in Int
         /\ v.kind \in {"int", "octal", "hex"} => v.quarters % 4 = 0
         /\ v.kind = "int" => v.quarters >= 4 * (-LongMax - 1)
<1>1. PICK k, q : /\ v = Scalar(k, Nothing, q) /\ q \in Quarters \cup {0}
                  /\ k \in {"int", "octal", "hex"} => q % 4 = 0
                  /\ k = "int" => q \div 4 >= -LongMax - 1
  BY Widths DEF Numbers, Undef
<1>2. v.quarters = q /\ v.kind = k
  BY <1>1 DEF Scalar
<1>3. q \in Int
  BY <1>1, Widths
<1>. QED
  BY <1>1, <1>2, <1>3, Widths

LEMMA CommandKinds == \A f \in DOMAIN Commands : Commands[f] \in {"none", "pointer", "robot", "int"}
BY DEF Commands

(* A step that calls nothing. *)
LEMMA BootQuiet == Boot => call' = NoCall \/ call' = call
BY DEF Boot, InitializeModule, BootAgain, TakeType, AddCast, SetType, Install, vars

LEMMA NoCallTyped == CallTypes /\ IntAsWritten /\ call' = NoCall => CallTypes' /\ IntAsWritten'
<1> SUFFICES ASSUME call' = NoCall PROVE CallTypes' /\ IntAsWritten'
  OBVIOUS
<1>1. call'.to = Nothing /\ call'.out = "none" /\ call'.value = 0
  BY DEF NoCall
<1>. QED
  BY <1>1, IntRange DEF CallTypes, IntAsWritten

LEMMA WrapTyped ==
  ASSUME NEW f \in DOMAIN Commands, NEW items, NEW v \in Arguments(Commands[f], items),
         Wrap(f, items, v)
  PROVE  CallTypes' /\ IntAsWritten'
<1> DEFINE want == Commands[f]
           called == items = (IF want = "none" THEN 0 ELSE 1) /\ Converts(want, v)
<1>1. /\ call'.to = f /\ call'.arg = v
      /\ call'.out = IF called THEN "called" ELSE "croak"
      /\ call'.value = IF called /\ want = "int" THEN AsValInt(v)[1] ELSE 0
  BY DEF Wrap
<1>2. called /\ want = "int" => AsValInt(v) # <<>> /\ v \in Numbers
  BY DEF Converts, Arguments
<1>. HIDE DEF called
<1>3. CallTypes'
  BY <1>1, <1>2, IntRange DEF CallTypes
<1>4. IntAsWritten'
  <2> SUFFICES ASSUME called, v.kind \in Kinds, f = "spi" \/ want = "int"
               PROVE  AsWritten(v, call'.value)
    BY <1>1 DEF IntAsWritten, Kinds, AsWritten, ReadAsOctal
  <2>1. want = "int"
    BY DEF Commands
  <2>2. call'.value = AsValInt(v)[1] /\ AsValInt(v) # <<>> /\ v \in Numbers
    BY <1>1, <1>2, <2>1
  <2>3. AsWritten(v, AsValInt(v)[1])
    BY <2>2, IntKept, NumberKept
  <2>. QED
    BY <2>2, <2>3
<1>. QED
  BY <1>3, <1>4

LEMMA SetSpiTyped ==
  ASSUME NEW v \in Numbers, SetSpi(v)
  PROVE  CallTypes' /\ IntAsWritten'
<1> DEFINE got == AsValInt(v)
<1>1. /\ call'.to = "spi" /\ call'.arg = v
      /\ call'.out = IF got = <<>> THEN "croak" ELSE "called"
      /\ call'.value = IF got = <<>> THEN 0 ELSE got[1]
  BY DEF SetSpi
<1>2. CallTypes'
  BY <1>1, IntRange DEF CallTypes
<1>3. IntAsWritten'
  <2> SUFFICES ASSUME got # <<>>, v.kind \in Kinds PROVE AsWritten(v, call'.value)
    BY <1>1 DEF IntAsWritten, Kinds, AsWritten, ReadAsOctal
  <2>1. AsWritten(v, AsValInt(v)[1])
    BY IntKept, NumberKept
  <2>. QED
    BY <1>1, <2>1
<1>. QED
  BY <1>2, <1>3

IntInv == CallTypes /\ IntAsWritten

LEMMA CallInductive == IntInv /\ [Next]_vars => IntInv'
<1> SUFFICES ASSUME IntInv, [Next]_vars PROVE IntInv'
  OBVIOUS
<1>1. CASE UNCHANGED call
  BY <1>1 DEF IntInv, CallTypes, IntAsWritten
<1>. QED
  BY <1>1, BootQuiet, NoCallTyped, WrapTyped, SetSpiTyped DEF Next, vars, IntInv

LEMMA CallInit == Init => IntInv
<1> SUFFICES ASSUME Init PROVE IntInv
  OBVIOUS
<1>1. call.to = Nothing /\ call.out = "none" /\ call.value = 0
  BY DEF Init, NoCall
<1>. QED
  BY <1>1, IntRange DEF IntInv, CallTypes, IntAsWritten

(* Whatever the widths of int and long, a number that reaches C is the one *)
(* Perl passed, but for rounded negative fractions, text that strtol reads *)
(* as octal, and integers above LONG_MAX that SvIV wraps.                  *)
THEOREM IntAsWrittenCorrect == Spec => []IntAsWritten
<1>1. IntInv => IntAsWritten
  BY DEF IntInv
<1>. QED
  BY <1>1, CallInit, CallInductive, PTL DEF Spec

(* The recursive function that walks the ring exists: a least length for   *)
(* which it does not could be reached from the one before.                 *)
LEMMA LeastNat ==
  ASSUME NEW T, T \subseteq Nat, T # {}
  PROVE  \E n \in T : \A k \in T : n <= k
<1>1. \E n \in T : \A k \in T : <<k, n>> \notin OpToRel(<, Nat)
  BY NatLessThanWellFounded, WFMin
<1>2. \A n, k \in Nat : <<k, n>> \notin OpToRel(<, Nat) => n <= k
  BY DEF OpToRel
<1>. QED
  BY <1>1, <1>2

Walk(m, n, h) == h = [k \in 0..n |-> IF k = 0 THEN m ELSE next[h[k - 1]]]

LEMMA WalkExists ==
  ASSUME NEW m, NEW n \in Nat
  PROVE  \E h : Walk(m, n, h)
<1> DEFINE T == {k \in Nat : ~ \E h : Walk(m, k, h)}
<1> SUFFICES ASSUME T # {} PROVE FALSE
  OBVIOUS
<1>1. PICK k \in T : \A j \in T : k <= j
  BY LeastNat
<1>2. CASE k = 0
  <2>1. Walk(m, 0, [j \in 0..0 |-> m])
    BY DEF Walk
  <2>. QED
    BY <1>1, <1>2, <2>1
<1>3. CASE k # 0
  <2>1. k - 1 \in Nat /\ k - 1 \notin T
    BY <1>1, <1>3
  <2>2. PICK h : Walk(m, k - 1, h)
    BY <2>1
  <2>3. Walk(m, k, [j \in 0..k |-> IF j = k THEN next[h[k - 1]] ELSE h[j]])
    BY <1>1, <1>3, <2>1, <2>2 DEF Walk
  <2>. QED
    BY <1>1, <2>3
<1>. QED
  BY <1>2, <1>3

LEMMA HopDef ==
  ASSUME NEW m, IsFiniteSet(Modules)
  PROVE  /\ Hop(m)[0] = m
         /\ \A k \in 1..Cardinality(Modules) : Hop(m)[k] = next[Hop(m)[k - 1]]
<1> DEFINE n == Cardinality(Modules)
<1>1. n \in Nat
  BY FS_CardinalityType
<1>2. Hop(m) = CHOOSE h : Walk(m, n, h)
  BY DEF Hop, Walk
<1>3. Walk(m, n, Hop(m))
  BY <1>1, <1>2, WalkExists
<1>. QED
  BY <1>1, <1>3 DEF Walk

-----------------------------------------------------------------------------
(* The loaded modules are one cycle: no smaller set of them is closed      *)
(* under next.                                                             *)
OneCycle ==
  \A S \in SUBSET Ring : S # {} /\ (\A m \in S : next[m] \in S) => S = Ring

RingInv ==
  /\ next \in [Modules -> Modules \cup {Nothing}]
  /\ \A m \in Ring : next[m] \in Ring
  /\ head \in Ring \cup {Nothing}
  /\ head = Nothing => Ring = {}
  /\ OneCycle

LEMMA ModuleNames == Nothing \notin Modules /\ IsFiniteSet(Modules) /\ Ring \subseteq Modules
BY SwigAssumption, FS_AddElement DEF Modules, Nothing, Ring

LEMMA RingSize ==
  /\ Cardinality(Ring) \in Nat /\ Cardinality(Modules) \in Nat
  /\ Cardinality(Ring) <= Cardinality(Modules)
  /\ IsFiniteSet(Ring)
  /\ Ring # {} => Cardinality(Ring) # 0
BY ModuleNames, FS_Subset, FS_CardinalityType, FS_EmptySet

LEMMA HopInRing ==
  ASSUME RingInv, NEW m \in Ring
  PROVE  /\ Hop(m)[0] = m
         /\ \A k \in 0..Cardinality(Modules) : Hop(m)[k] \in Ring
         /\ \A k \in 0..Cardinality(Modules) - 1 : next[Hop(m)[k]] = Hop(m)[k + 1]
<1> DEFINE N == Cardinality(Modules)
           T == {k \in 0..N : Hop(m)[k] \notin Ring}
<1>0. N \in Nat
  BY RingSize
<1>1. Hop(m)[0] = m /\ \A k \in 1..N : Hop(m)[k] = next[Hop(m)[k - 1]]
  BY HopDef, ModuleNames
<1>. HIDE DEF N
<1>2. T = {}
  <2> SUFFICES ASSUME T # {} PROVE FALSE
    OBVIOUS
  <2>0. T \subseteq Nat
    BY <1>0
  <2>1. PICK k \in T : \A j \in T : k <= j
    <3>. HIDE DEF T
    <3>. QED
      BY <2>0, LeastNat
  <2>2. k # 0
    BY <1>1, <2>1
  <2>3. k - 1 \in 0..N /\ k - 1 \notin T
    BY <1>0, <2>1, <2>2
  <2>. QED
    BY <1>0, <1>1, <2>1, <2>2, <2>3 DEF RingInv
<1>3. \A k \in 0..N - 1 : next[Hop(m)[k]] = Hop(m)[k + 1]
  <2> SUFFICES ASSUME NEW k \in 0..N - 1 PROVE next[Hop(m)[k]] = Hop(m)[k + 1]
    OBVIOUS
  <2>1. k + 1 \in 1..N /\ (k + 1) - 1 = k
    BY <1>0
  <2>. QED
    BY <1>1, <2>1
<1>. QED
  BY <1>1, <1>2, <1>3 DEF N

(* A walk that meets a module again has been everywhere. *)
LEMMA WalkMeets ==
  ASSUME RingInv, NEW m \in Ring, NEW j \in 0..Cardinality(Modules),
         NEW k \in 1..Cardinality(Modules), j < k, Hop(m)[j] = Hop(m)[k]
  PROVE  {Hop(m)[i] : i \in j..k - 1} = Ring
<1> DEFINE S == {Hop(m)[i] : i \in j..k - 1}
<1>0. Cardinality(Modules) \in Nat
  BY RingSize
<1>1. S \subseteq Ring /\ Hop(m)[j] \in S
  BY <1>0, HopInRing
<1>2. ASSUME NEW i \in j..k - 1 PROVE next[Hop(m)[i]] \in S
  <2>1. next[Hop(m)[i]] = Hop(m)[i + 1]
    BY <1>0, HopInRing
  <2>2. CASE i + 1 = k
    BY <1>1, <2>1, <2>2
  <2>3. CASE i + 1 # k
    BY <2>1, <2>3
  <2>. QED
    BY <2>2, <2>3
<1>3. \A l \in S : next[l] \in S
  BY <1>2
<1>. HIDE DEF S
<1>4. S = Ring
  BY <1>1, <1>3 DEF RingInv, OneCycle
<1>. QED
  BY <1>4 DEF S

(* RingClosed holds of one cycle. *)
LEMMA WalkReaches ==
  ASSUME RingInv, NEW m \in Ring
  PROVE  {Hop(m)[k] : k \in 1..Cardinality(Ring)} = Ring
<1> DEFINE c == Cardinality(Ring)
           W == {Hop(m)[k] : k \in 1..c}
           f == [k \in 1..c |-> Hop(m)[k]]
<1>1. c \in Nat /\ c # 0 /\ c <= Cardinality(Modules) /\ Cardinality(Modules) \in Nat
      /\ IsFiniteSet(Ring)
  BY RingSize
<1>. HIDE DEF c
<1>2. W \subseteq Ring /\ f \in [1..c -> Ring]
  BY <1>1, HopInRing
<1>3. CASE \A j, k \in 1..c : Hop(m)[j] = Hop(m)[k] => j = k
  <2>1. f \in Injection(1..c, Ring)
    BY <1>2, <1>3 DEF Injection, IsInjective
  <2>2. Cardinality(1..c) = c
    BY <1>1, FS_Interval
  <2>3. f \in Surjection(1..c, Ring)
    BY <1>1, <2>1, <2>2, FS_Injection DEF c
  <2>. QED
    BY <1>2, <2>3 DEF Surjection, c
<1>4. ASSUME NEW j \in 1..c, NEW k \in 1..c, Hop(m)[j] = Hop(m)[k], j < k
      PROVE  W = Ring
  <2>1. {Hop(m)[i] : i \in j..k - 1} = Ring
    BY <1>1, <1>4, WalkMeets
  <2>. QED
    BY <1>1, <1>2, <2>1
<1>5. CASE \E j, k \in 1..c : Hop(m)[j] = Hop(m)[k] /\ j # k
  <2>1. PICK j \in 1..c, k \in 1..c : Hop(m)[j] = Hop(m)[k] /\ j # k
    BY <1>5
  <2>2. j < k \/ k < j
    BY <1>1, <2>1
  <2>3. W = Ring
    BY <1>4, <2>1, <2>2
  <2>. QED
    BY <2>3 DEF c
<1>. QED
  BY <1>3, <1>5

(* A walk comes to every other module before it is back. *)
LEMMA WalkFinds ==
  ASSUME RingInv, NEW m \in Ring, NEW l \in Ring \ {m}
  PROVE  \E k \in 1..Cardinality(Modules) :
           Hop(m)[k] = l /\ \A j \in 1..k : Hop(m)[j] # m
<1> DEFINE N == Cardinality(Modules)
           T == {k \in 1..N : Hop(m)[k] = l}
<1>1. N \in Nat /\ Cardinality(Ring) \in Nat /\ Cardinality(Ring) <= N
  BY RingSize
<1>2. T # {} /\ T \subseteq Nat
  <2>1. PICK k \in 1..Cardinality(Ring) : Hop(m)[k] = l
    BY WalkReaches
  <2>. QED
    BY <1>1, <2>1
<1>3. PICK k \in T : \A j \in T : k <= j
  BY <1>2, LeastNat
<1>4. k \in 1..N /\ Hop(m)[k] = l
  BY <1>3
<1>5. ASSUME NEW j \in 1..k, Hop(m)[j] = m PROVE FALSE
  <2>0. j # k
    BY <1>4, <1>5
  <2>1. j < k /\ j \in 1..N /\ Hop(m)[0] = m
    BY <1>1, <1>4, <2>0, HopInRing
  <2>2. {Hop(m)[i] : i \in 0..j - 1} = Ring
    BY <1>1, <1>5, <2>1, WalkMeets
  <2>3. PICK i \in 0..j - 1 : Hop(m)[i] = l
    BY <2>2
  <2>4. i # 0
    BY <2>1, <2>3
  <2>5. i \in T
    BY <1>1, <1>4, <2>1, <2>3, <2>4
  <2>. QED
    BY <1>1, <1>3, <1>4, <2>1, <2>5
<1>. QED
  BY <1>4, <1>5

(* The walk of SWIG_InitializeModule meets every loaded module. *)
LEMMA WalkAll ==
  ASSUME RingInv, head # Nothing
  PROVE  {Hop(head)[k] : k \in 0..Cardinality(Modules)} = Ring
<1> DEFINE N == Cardinality(Modules)
<1>1. head \in Ring
  BY DEF RingInv
<1>2. N \in Nat /\ Cardinality(Ring) \in Nat /\ Cardinality(Ring) <= N
  BY RingSize
<1>3. \A k \in 0..N : Hop(head)[k] \in Ring
  BY <1>1, HopInRing
<1>4. ASSUME NEW l \in Ring PROVE \E k \in 0..N : Hop(head)[k] = l
  <2>1. PICK k \in 1..Cardinality(Ring) : Hop(head)[k] = l
    BY <1>1, WalkReaches
  <2>. QED
    BY <1>2, <2>1
<1>. QED
  BY <1>3, <1>4

LEMMA RingInit == Init => RingInv
<1> SUFFICES ASSUME Init PROVE RingInv
  OBVIOUS
<1>1. Ring = {} /\ next \in [Modules -> Modules \cup {Nothing}] /\ head = Nothing
  BY DEF Init, Ring
<1>. QED
  BY <1>1 DEF RingInv, OneCycle

LEMMA FirstLinked ==
  ASSUME RingInv, NEW m \in Modules, FirstModule(m)
  PROVE  RingInv' /\ Ring' = Ring \cup {m} /\ m \notin Ring
<1>1. Ring = {} /\ head' = m /\ next' = [next EXCEPT ![m] = m]
  BY DEF RingInv, FirstModule
<1>2. next' \in [Modules -> Modules \cup {Nothing}] /\ next'[m] = m
      /\ \A l \in Modules : l # m => next'[l] = next[l]
  BY <1>1 DEF RingInv
<1>3. Ring' = {m}
  BY <1>1, <1>2, ModuleNames DEF Ring
<1>4. OneCycle'
  BY <1>3 DEF OneCycle
<1>. QED
  BY <1>1, <1>2, <1>3, <1>4, ModuleNames DEF RingInv

LEMMA NextLinked ==
  ASSUME RingInv, NEW m \in Modules, NextModule(m)
  PROVE  RingInv' /\ Ring' = Ring \cup {m} /\ m \notin Ring
<1>1. head \in Ring /\ m \notin Ring /\ m # head
  BY WalkAll DEF NextModule, RingInv
<1>2. next' = [next EXCEPT ![m] = next[head], ![head] = m] /\ head' = head
  BY DEF NextModule
<1>3. next[head] \in Ring /\ head \in Modules
  BY <1>1, ModuleNames DEF RingInv
<1>4. /\ next' \in [Modules -> Modules \cup {Nothing}]
      /\ next'[m] = next[head] /\ next'[head] = m
      /\ \A l \in Modules \ {m, head} : next'[l] = next[l]
  BY <1>1, <1>2, <1>3, ModuleNames DEF RingInv
<1>5. Ring' = Ring \cup {m}
  BY <1>1, <1>3, <1>4, ModuleNames DEF Ring
<1>6. \A l \in Ring' : next'[l] \in Ring'
  BY <1>1, <1>3, <1>4, <1>5, ModuleNames DEF RingInv
<1>7. ASSUME NEW S \in SUBSET Ring', S # {}, \A l \in S : next'[l] \in S
      PROVE  S = Ring'
  <2> DEFINE R == S \ {m}
  <2>1. R \in SUBSET Ring
    BY <1>5, <1>7
  <2>2. R # {}
    <3>1. PICK l \in S : TRUE
      BY <1>7
    <3>2. CASE l = m
      BY <1>1, <1>3, <1>4, <1>7, <3>1, <3>2
    <3>3. CASE l # m
      BY <3>1, <3>3
    <3>. QED
      BY <3>2, <3>3
  <2>3. ASSUME NEW l \in R PROVE next[l] \in R
    <3>1. next[l] \in Ring /\ l \in Ring
      BY <2>1 DEF RingInv
    <3>2. CASE l = head
      BY <1>1, <1>3, <1>4, <1>7, <3>1, <3>2
    <3>3. CASE l # head
      BY <1>1, <1>4, <1>7, <3>1, <3>3, ModuleNames
    <3>. QED
      BY <3>2, <3>3
  <2>4. R = Ring
    <3>. HIDE DEF R
    <3>. QED
      BY <2>1, <2>2, <2>3 DEF RingInv, OneCycle
  <2>5. m \in S
    BY <1>1, <1>4, <1>7, <2>4
  <2>. QED
    BY <1>5, <2>4, <2>5
<1>8. OneCycle'
  BY <1>7 DEF OneCycle
<1>. QED
  BY <1>1, <1>2, <1>4, <1>5, <1>6, <1>8 DEF RingInv

LEMMA RingKept == RingInv /\ UNCHANGED <<next, head>> => RingInv' /\ Ring' = Ring
BY DEF RingInv, OneCycle, Ring

(* The next field of a module is written only when the module is loaded. *)
LEMMA RingInductive == RingInv /\ [Next]_vars => RingInv'
<1> SUFFICES ASSUME RingInv, [Next]_vars PROVE RingInv'
  OBVIOUS
<1>1. ASSUME NEW m \in Modules, InitializeModule(m) PROVE RingInv'
  BY <1>1, FirstLinked, NextLinked DEF InitializeModule
<1>2. CASE UNCHANGED <<next, head>>
  BY <1>2, RingKept
<1>. QED
  BY <1>1, <1>2 DEF Next, Boot, BootAgain, TakeType, AddCast, SetType, Install, Wrap, SetSpi, vars

(* The loaded modules form one ring, whatever the order of loading.        *)
THEOREM RingClosedCorrect == Spec => []RingClosed
<1>1. RingInv => RingClosed
  BY WalkReaches DEF RingClosed
<1>. QED
  BY <1>1, RingInit, RingInductive, PTL DEF Spec

-----------------------------------------------------------------------------
(* What a search for a type finds from m: nothing if no other module of    *)
(* the ring has the type, and else the record some other one has for it.   *)
Complete(m) == DOMAIN types[m] = DOMAIN TypesOf(m)

LEMMA LeastOf ==
  ASSUME NEW S \in SUBSET Nat, S # {}
  PROVE  Min(S) \in S /\ \A k \in S : Min(S) <= k
<1>1. \E n \in S : \A k \in S : n <= k
  BY LeastNat
<1>. QED
  BY <1>1 DEF Min

LEMMA QueryNone ==
  ASSUME RingInv, NEW m \in Ring, NEW n, \A l \in Ring \ {m} : n \notin ToSet(TypesOf(l))
  PROVE  MangledTypeQuery(m, n) = NoRecord
<1> DEFINE found == {k \in 1..Cardinality(Modules) :
                       /\ n \in ToSet(TypesOf(Hop(m)[k]))
                       /\ \A j \in 1..k : Hop(m)[j] # m}
<1>1. found = {}
  <2> SUFFICES ASSUME NEW k \in found PROVE FALSE
    OBVIOUS
  <2>1. Hop(m)[k] \in Ring /\ k \in 1..k
    BY HopInRing, RingSize
  <2>. QED
    BY <2>1
<1>. QED
  BY <1>1 DEF MangledTypeQuery

LEMMA QuerySome ==
  ASSUME RingInv, NEW m \in Ring, NEW n, NEW l \in Ring \ {m}, n \in ToSet(TypesOf(l)),
         \A o \in Ring \ {m} : Complete(o)
  PROVE  \E o \in Ring \ {m} : \E i \in DOMAIN types[o] :
           TypesOf(o)[i] = n /\ MangledTypeQuery(m, n) = types[o][i]
<1> DEFINE found == {k \in 1..Cardinality(Modules) :
                       /\ n \in ToSet(TypesOf(Hop(m)[k]))
                       /\ \A j \in 1..k : Hop(m)[j] # m}
           o == Hop(m)[Min(found)]
           i == CHOOSE i \in DOMAIN types[o] : TypesOf(o)[i] = n
<1>1. found # {} /\ found \subseteq Nat
  BY WalkFinds, RingSize
<1>2. MangledTypeQuery(m, n) = types[o][i]
  BY <1>1 DEF MangledTypeQuery
<1>3. Min(found) \in found
  BY <1>1, LeastOf
<1>4. o \in Ring \ {m} /\ n \in ToSet(TypesOf(o))
  BY <1>3, HopInRing, RingSize
<1>5. i \in DOMAIN types[o] /\ TypesOf(o)[i] = n
  BY <1>4 DEF Complete, ToSet
<1>. QED
  BY <1>2, <1>4, <1>5

-----------------------------------------------------------------------------
(* Cast lists: the names in one, and whether it has each of them once.     *)
Names(list) == {list[i][2] : i \in 1..Len(list)}
Once(list) == \A i, j \in 1..Len(list) : list[i][2] = list[j][2] => i = j

LEMMA PlaceFound ==
  ASSUME NEW list \in Seq(Record), NEW n
  PROVE  IF n \in Names(list)
         THEN Place(list, n) \in 1..Len(list) /\ list[Place(list, n)][2] = n
         ELSE Place(list, n) = 0
<1> DEFINE I == {i \in 1..Len(list) : list[i][2] = n}
<1>1. Place(list, n) = IF I # {} THEN Min(I) ELSE 0
  BY DEF Place, SelectInSeq
<1>2. I # {} <=> n \in Names(list)
  BY DEF Names
<1>3. I # {} => Min(I) \in I
  <2>1. I \subseteq Nat
    OBVIOUS
  <2>. HIDE DEF I
  <2>. QED
    BY <2>1, LeastOf
<1>. QED
  BY <1>1, <1>2, <1>3

(* The entry that is found changes places, and nothing is lost. *)
LEMMA FrontElements ==
  ASSUME NEW list \in Seq(Record), NEW i \in 1..Len(list)
  PROVE  /\ ToFront(list, i) \in Seq(Record)
         /\ Len(ToFront(list, i)) = Len(list)
         /\ \A k \in 1..Len(list) :
              ToFront(list, i)[k] = IF k = 1 THEN list[i] ELSE IF k <= i THEN list[k - 1] ELSE list[k]
<1> DEFINE before == SubSeq(list, 1, i - 1)
           after == SubSeq(list, i + 1, Len(list))
<1>1. /\ before \in Seq(Record) /\ Len(before) = i - 1
      /\ \A k \in 1..i - 1 : before[k] = list[k]
  OBVIOUS
<1>2. /\ after \in Seq(Record) /\ Len(after) = Len(list) - i
      /\ \A k \in 1..Len(list) - i : after[k] = list[i + k]
  OBVIOUS
<1>3. ToFront(list, i) = <<list[i]>> \o (before \o after)
  BY DEF ToFront, RemoveAt
<1>4. list[i] \in Record /\ Len(list) \in Nat /\ i \in 1..Len(list)
  OBVIOUS
<1>. HIDE DEF before, after
<1>5. /\ before \o after \in Seq(Record) /\ Len(before \o after) = Len(list) - 1
      /\ \A k \in 1..Len(list) - 1 :
           (before \o after)[k] = IF k <= i - 1 THEN list[k] ELSE list[k + 1]
  <2>1. before \o after \in Seq(Record) /\ Len(before \o after) = Len(list) - 1
    <3>1. before \o after \in Seq(Record)
      BY <1>1, <1>2
    <3>2. Len(before \o after) = Len(before) + Len(after)
      <4>1. \A s, t \in Seq(Record) : Len(s \o t) = Len(s) + Len(t)
        OBVIOUS
      <4>. QED
        BY <1>1, <1>2, <4>1
    <3>. QED
      BY <1>1, <1>2, <1>4, <3>1, <3>2
  <2>2. ASSUME NEW k \in 1..Len(list) - 1, k <= i - 1
        PROVE  (before \o after)[k] = list[k]
    BY <1>1, <1>2, <1>4, <2>2
  <2>3. ASSUME NEW k \in 1..Len(list) - 1, ~(k <= i - 1)
        PROVE  (before \o after)[k] = list[k + 1]
    <3>1. (before \o after)[k] = after[k - (i - 1)]
      BY <1>1, <1>2, <1>4, <2>3
    <3>2. k - (i - 1) \in 1..Len(list) - i /\ i + (k - (i - 1)) = k + 1
      BY <1>4, <2>3
    <3>. QED
      BY <1>2, <3>1, <3>2
  <2>. QED
    BY <2>1, <2>2, <2>3
<1> DEFINE rest == before \o after
<1>. HIDE DEF rest
<1>6. /\ rest \in Seq(Record) /\ Len(rest) = Len(list) - 1
      /\ \A k \in 1..Len(list) - 1 : rest[k] = IF k <= i - 1 THEN list[k] ELSE list[k + 1]
      /\ ToFront(list, i) = <<list[i]>> \o rest
  BY <1>3, <1>5 DEF rest
<1>7. /\ <<list[i]>> \o rest \in Seq(Record) /\ Len(<<list[i]>> \o rest) = Len(list)
      /\ (<<list[i]>> \o rest)[1] = list[i]
      /\ \A k \in 2..Len(list) : (<<list[i]>> \o rest)[k] = rest[k - 1]
  BY <1>4, <1>6
<1>8. \A k \in 2..Len(list) : /\ k - 1 \in 1..Len(list) - 1 /\ (k - 1) + 1 = k
                              /\ k - 1 <= i - 1 <=> k <= i
  BY <1>4
<1>. QED
  BY <1>4, <1>6, <1>7, <1>8

LEMMA FrontKeeps ==
  ASSUME NEW list \in Seq(Record), NEW i \in 1..Len(list)
  PROVE  /\ Names(ToFront(list, i)) = Names(list)
         /\ Once(list) => Once(ToFront(list, i))
<1> DEFINE new == ToFront(list, i)
           at(k) == IF k = 1 THEN i ELSE IF k <= i THEN k - 1 ELSE k
<1>1. /\ Len(new) = Len(list) /\ Len(list) \in Nat
      /\ \A k \in 1..Len(list) : new[k] = list[at(k)] /\ at(k) \in 1..Len(list)
  BY FrontElements
<1>2. \A j \in 1..Len(list) : \E k \in 1..Len(list) : at(k) = j
  <2> SUFFICES ASSUME NEW j \in 1..Len(list) PROVE \E k \in 1..Len(list) : at(k) = j
    OBVIOUS
  <2>1. CASE j = i
    BY <1>1, <2>1
  <2>2. CASE j < i
    <3>1. j + 1 \in 1..Len(list) /\ at(j + 1) = j
      BY <1>1, <2>2
    <3>. QED
      BY <3>1
  <2>3. CASE j > i
    BY <1>1, <2>3
  <2>. QED
    BY <2>1, <2>2, <2>3
<1>3. \A j, k \in 1..Len(list) : at(j) = at(k) => j = k
  BY <1>1
<1>. HIDE DEF new, at
<1>4. Names(new) = Names(list)
  <2>1. ASSUME NEW n \in Names(new) PROVE n \in Names(list)
    BY <1>1, <2>1 DEF Names
  <2>2. ASSUME NEW n \in Names(list) PROVE n \in Names(new)
    <3>1. PICK j \in 1..Len(list) : n = list[j][2]
      BY <2>2 DEF Names
    <3>2. PICK k \in 1..Len(list) : at(k) = j
      BY <1>2
    <3>. QED
      BY <1>1, <3>1, <3>2 DEF Names
  <2>. QED
    BY <2>1, <2>2
<1>5. Once(list) => Once(new)
  <2> SUFFICES ASSUME Once(list), NEW j \in 1..Len(new), NEW k \in 1..Len(new),
                      new[j][2] = new[k][2]
               PROVE  j = k
    BY DEF Once
  <2>1. /\ j \in 1..Len(list) /\ k \in 1..Len(list)
        /\ at(j) \in 1..Len(list) /\ at(k) \in 1..Len(list)
        /\ list[at(j)][2] = list[at(k)][2]
    BY <1>1
  <2>2. at(j) = at(k)
    BY <2>1 DEF Once
  <2>. QED
    BY <1>3, <2>1, <2>2
<1>. QED
  BY <1>4, <1>5 DEF new

(* A new entry at the front. *)
LEMMA PushKeeps ==
  ASSUME NEW list \in Seq(Record), NEW r \in Record
  PROVE  /\ <<r>> \o list \in Seq(Record)
         /\ Names(<<r>> \o list) = Names(list) \cup {r[2]}
         /\ Once(list) /\ r[2] \notin Names(list) => Once(<<r>> \o list)
<1> DEFINE new == <<r>> \o list
<1>1. /\ new \in Seq(Record) /\ Len(new) = Len(list) + 1 /\ Len(list) \in Nat
      /\ new[1] = r /\ \A k \in 2..Len(list) + 1 : new[k] = list[k - 1]
  OBVIOUS
<1>. HIDE DEF new
<1>2. \A k \in 1..Len(list) : k + 1 \in 2..Len(list) + 1 /\ new[k + 1] = list[k]
  <2> SUFFICES ASSUME NEW k \in 1..Len(list) PROVE k + 1 \in 2..Len(list) + 1 /\ new[k + 1] = list[k]
    OBVIOUS
  <2>1. k + 1 \in 2..Len(list) + 1 /\ (k + 1) - 1 = k
    BY <1>1
  <2>. QED
    BY <1>1, <2>1
<1>3. \A k \in 1..Len(new) : k = 1 \/ (k - 1 \in 1..Len(list) /\ new[k] = list[k - 1])
  BY <1>1
<1>4. 1 \in 1..Len(new)
  BY <1>1
<1>5. Names(new) = Names(list) \cup {r[2]}
  <2>1. Names(new) \subseteq Names(list) \cup {r[2]}
    BY <1>1, <1>3 DEF Names
  <2>2. Names(list) \cup {r[2]} \subseteq Names(new)
    <3>1. r[2] \in Names(new)
      BY <1>1, <1>4 DEF Names
    <3>2. ASSUME NEW k \in 1..Len(list) PROVE list[k][2] \in Names(new)
      <4>1. k + 1 \in 1..Len(new) /\ new[k + 1] = list[k]
        BY <1>1, <1>2
      <4>. QED
        BY <4>1 DEF Names
    <3>. QED
      BY <3>1, <3>2 DEF Names
  <2>. QED
    BY <2>1, <2>2
<1>6. Once(list) /\ r[2] \notin Names(list) => Once(new)
  <2> SUFFICES ASSUME Once(list), r[2] \notin Names(list), NEW i \in 1..Len(new),
                      NEW j \in 1..Len(new), new[i][2] = new[j][2]
               PROVE  i = j
    BY DEF Once
  <2>1. CASE i = 1 \/ j = 1
    BY <1>1, <1>3, <2>1 DEF Names
  <2>2. CASE i # 1 /\ j # 1
    BY <1>1, <1>3, <2>2 DEF Once
  <2>. QED
    BY <2>1, <2>2
<1>. QED
  BY <1>1, <1>5, <1>6 DEF new

(* A list that has each of its names once is as long as there are names. *)
LEMMA OnceCounted ==
  ASSUME NEW list \in Seq(Record), Once(list)
  PROVE  Len(list) = Cardinality(Names(list))
<1> DEFINE f == [i \in 1..Len(list) |-> list[i][2]]
<1>1. f \in Bijection(1..Len(list), Names(list))
  BY DEF Once, Names, Bijection, Injection, Surjection, IsInjective
<1>2. ExistsBijection(1..Len(list), Names(list))
  BY <1>1 DEF ExistsBijection
<1>3. Len(list) \in Nat
  OBVIOUS
<1>. QED
  BY <1>2, <1>3, FS_CountingElements

-----------------------------------------------------------------------------
(* What the static tables are like, Robotc's included. *)
LEMMA TableFacts ==
  ASSUME NEW m \in Modules
  PROVE  /\ Len(TypesOf(m)) \in Nat /\ DOMAIN TypesOf(m) = 1..Len(TypesOf(m))
         /\ ToSet(TypesOf(m)) \subseteq TypeNames
         /\ IsInjective(TypesOf(m))
         /\ \A n \in ToSet(TypesOf(m)) :
              CastsOf(m, n) \in Seq(ToSet(TypesOf(m))) /\ IsInjective(CastsOf(m, n))
<1>1. ToSet(TypesOf(m)) \subseteq TypeNames
  BY DEF TypeNames
<1>2. CASE m = "Robotc"
  <2>1. Len(RobotTypes) = 4 /\ DOMAIN RobotTypes = 1..4
    BY DEF RobotTypes
  <2>2. IsInjective(RobotTypes)
    <3>1. \A a, b \in 1..4 : RobotTypes[a] = RobotTypes[b] => a = b
      <4> SUFFICES ASSUME NEW a \in 1..4, NEW b \in 1..4, RobotTypes[a] = RobotTypes[b]
                   PROVE  a = b
        OBVIOUS
      <4>1. a \in {1, 2, 3, 4} /\ b \in {1, 2, 3, 4}
        OBVIOUS
      <4>2. /\ RobotTypes[1] = "_p_char" /\ RobotTypes[2] = "_p_int16_t"
            /\ RobotTypes[3] = "_p_robot" /\ RobotTypes[4] = "_p_void"
        BY DEF RobotTypes
      <4>. QED
        BY <4>1, <4>2
    <3>. QED
      BY <2>1, <3>1 DEF IsInjective
  <2>3. \A n \in ToSet(RobotTypes) : <<n>> \in Seq(ToSet(RobotTypes)) /\ IsInjective(<<n>>)
    BY DEF IsInjective
  <2>4. TypesOf(m) = RobotTypes /\ \A n : CastsOf(m, n) = <<n>>
    BY <1>2 DEF TypesOf, CastsOf
  <2>. HIDE DEF RobotTypes
  <2>5. \A n \in ToSet(TypesOf(m)) :
          CastsOf(m, n) \in Seq(ToSet(TypesOf(m))) /\ IsInjective(CastsOf(m, n))
    BY <2>3, <2>4
  <2>6. Len(TypesOf(m)) \in Nat /\ DOMAIN TypesOf(m) = 1..Len(TypesOf(m)) /\ IsInjective(TypesOf(m))
    <3>1. TypesOf(m) = RobotTypes /\ Len(RobotTypes) \in Nat
      BY <2>1, <2>4
    <3>2. DOMAIN RobotTypes = 1..Len(RobotTypes)
      BY <2>1
    <3>. QED
      BY <2>2, <3>1, <3>2, Zenon
  <2>. QED
    BY <1>1, <2>5, <2>6
<1>3. CASE m # "Robotc"
  <2>1. m \in Others
    BY <1>3 DEF Modules
  <2>. QED
    BY <1>1, <1>3, <2>1, TableAssumption DEF TypesOf, CastsOf
<1>. QED
  BY <1>2, <1>3

LEMMA RecordFacts ==
  /\ NoRecord \notin Record
  /\ \A r \in Record : r[1] \in Modules /\ r[2] \in TypeNames
  /\ \A m \in Modules, n \in TypeNames :
       <<m, n>> \in Record /\ <<m, n>>[1] = m /\ <<m, n>>[2] = n
<1>1. \A r \in Record : r[1] \in Modules /\ r[2] \in TypeNames
  BY DEF Record
<1>2. NoRecord[1] = Nothing
  BY DEF NoRecord
<1>. QED
  BY <1>1, <1>2, ModuleNames DEF Record

-----------------------------------------------------------------------------
(* The type tables: filled up to where the loading has come, each place    *)
(* with a record of its type whose own module is loaded.                   *)
TablesInv ==
  /\ DOMAIN types = Modules
  /\ \A m \in Modules :
       /\ types[m] \in Seq(Record) /\ Len(types[m]) <= Len(TypesOf(m))
       /\ \A i \in 1..Len(types[m]) : types[m][i][2] = TypesOf(m)[i]
       /\ \A i \in 1..Len(types[m]) : types[m][i][1] \in Ring
  /\ \A m \in Modules \ Ring : types[m] = <<>>
  /\ \A m \in Known :
       /\ Len(types[m]) = Len(TypesOf(m))
       /\ \A i \in 1..Len(types[m]) : types[m][i][1] \in Known

(* The module that is being loaded, and the type it has come to. *)
BootInv ==
  /\ boot \in [module : Modules \cup {Nothing}, type : Record \cup {NoRecord}, cast : Nat \ {0}]
  /\ Booting => boot.module \in Ring
  /\ boot.type # NoRecord =>
       /\ Booting /\ boot.type[1] \in Ring
       /\ Len(types[boot.module]) < Len(TypesOf(boot.module))
       /\ boot.type[2] = TypesOf(boot.module)[Len(types[boot.module]) + 1]
       /\ boot.cast <= Len(CastsOf(boot.module, boot.type[2])) + 1

(* One record per type, the type in progress included; and the module      *)
(* uses a record of its own only for a type nobody else has.               *)
CurrentShared ==
  boot.type # NoRecord =>
    /\ \A l \in Known : \A j \in 1..Len(types[l]) :
         TypesOf(l)[j] = boot.type[2] => types[l][j] = boot.type
    /\ boot.type[1] = boot.module => \A l \in Known : boot.type[2] \notin ToSet(TypesOf(l))

LoadInv == RingInv /\ TablesInv /\ BootInv /\ OneRecordPerType /\ CurrentShared

LEMMA KnownRing ==
  /\ Known \subseteq Ring
  /\ Booting => Known = Ring \ {boot.module}
  /\ ~Booting => Known = Ring
BY DEF Known

(* What the search for a type finds while a module is loaded. *)
LEMMA Loaded ==
  ASSUME LoadInv, Booting, NEW n
  PROVE  LET loaded == MangledTypeQuery(boot.module, n) IN
         \/ loaded = NoRecord /\ \A l \in Known : n \notin ToSet(TypesOf(l))
         \/ /\ loaded \in Record /\ loaded # NoRecord /\ loaded[2] = n /\ loaded[1] \in Known
            /\ \E o \in Known : \E i \in 1..Len(types[o]) :
                 TypesOf(o)[i] = n /\ loaded = types[o][i]
<1> DEFINE m == boot.module
           loaded == MangledTypeQuery(m, n)
<1>1. RingInv /\ m \in Ring /\ Known = Ring \ {m} /\ Ring \subseteq Modules
  BY KnownRing, ModuleNames DEF LoadInv, BootInv
<1>2. CASE \A l \in Known : n \notin ToSet(TypesOf(l))
  BY <1>1, <1>2, QueryNone
<1>3. CASE \E l \in Known : n \in ToSet(TypesOf(l))
  <2>1. \A o \in Known : Complete(o) /\ DOMAIN types[o] = 1..Len(types[o])
    BY <1>1, TableFacts DEF LoadInv, TablesInv, Complete
  <2>2. PICK o \in Known : \E i \in DOMAIN types[o] : TypesOf(o)[i] = n /\ loaded = types[o][i]
    BY <1>1, <1>3, <2>1, QuerySome
  <2>3. PICK i \in 1..Len(types[o]) : TypesOf(o)[i] = n /\ loaded = types[o][i]
    BY <2>1, <2>2
  <2>4. loaded \in Record /\ loaded[2] = n /\ loaded[1] \in Known
    BY <1>1, <2>3 DEF LoadInv, TablesInv
  <2>. QED
    BY <2>3, <2>4, RecordFacts
<1>. QED
  BY <1>2, <1>3

LEMMA LoadInit == Init => LoadInv
<1> SUFFICES ASSUME Init PROVE LoadInv
  OBVIOUS
<1>1. RingInv /\ Ring = {} /\ Known = {} /\ boot = Idle
  <2>1. Ring = {} /\ boot = Idle
    BY DEF Init, Ring
  <2>. QED
    BY <2>1, RingInit, KnownRing
<1>2. \A m \in Modules : types[m] = <<>> /\ Len(types[m]) = 0 /\ types[m] \in Seq(Record)
  BY DEF Init
<1>3. TablesInv
  BY <1>1, <1>2, TableFacts DEF TablesInv, Init
<1>4. boot.type = NoRecord /\ boot.module = Nothing /\ BootInv
  BY <1>1 DEF BootInv, Idle, Booting
<1>5. OneRecordPerType /\ CurrentShared
  BY <1>2, <1>4 DEF OneRecordPerType, CurrentShared
<1>. QED
  BY <1>1, <1>3, <1>4, <1>5 DEF LoadInv

(* A module joins the ring with an empty table. *)
LEMMA LoadInitialize ==
  ASSUME LoadInv, NEW m \in Modules, InitializeModule(m)
  PROVE  LoadInv' /\ Known' = Known /\ m \notin Ring /\ boot' = [Idle EXCEPT !.module = m] /\ ~Booting
<1>1. /\ ~Booting /\ RingInv' /\ Ring' = Ring \cup {m} /\ m \notin Ring
      /\ boot' = [Idle EXCEPT !.module = m] /\ types' = types
  BY FirstLinked, NextLinked DEF InitializeModule, LoadInv
<1>2. boot'.module = m /\ boot'.type = NoRecord /\ boot'.cast = 1
  BY <1>1 DEF Idle
<1>3. Booting'
  BY <1>2, ModuleNames DEF Booting
<1>4. Known' = Known /\ Known = Ring
  BY <1>1, <1>2, <1>3 DEF Known
<1>5. TablesInv'
  BY <1>1, <1>4 DEF LoadInv, TablesInv
<1>6. boot' = [module |-> m, type |-> NoRecord, cast |-> 1]
  BY <1>1 DEF Idle
<1>7. BootInv'
  <2>1. boot' \in [module : Modules \cup {Nothing}, type : Record \cup {NoRecord}, cast : Nat \ {0}]
    BY <1>6
  <2>. QED
    BY <1>1, <1>2, <1>3, <2>1 DEF BootInv
<1>8. OneRecordPerType' /\ CurrentShared'
  BY <1>1, <1>2 DEF LoadInv, OneRecordPerType, CurrentShared
<1>. QED
  BY <1>1, <1>4, <1>5, <1>7, <1>8 DEF LoadInv

(* The next type gets the record another module has for it, or its own. *)
LEMMA LoadTake ==
  ASSUME LoadInv, TakeType
  PROVE  /\ LoadInv' /\ Known' = Known /\ boot'.cast = 1 /\ boot'.module = boot.module /\ Booting'
         /\ boot.type = NoRecord /\ boot'.type \in Record
         /\ boot'.type[2] = TypesOf(boot.module)[Len(types[boot.module]) + 1]
         /\ Len(types[boot.module]) < Len(TypesOf(boot.module))
         /\ \/ \A l \in Known : boot'.type[2] \notin ToSet(TypesOf(l))
            \/ \E o \in Known : \E i \in 1..Len(types[o]) : boot'.type = types[o][i]
<1> DEFINE m == boot.module
           i == Len(types[m]) + 1
           n == TypesOf(m)[i]
           loaded == MangledTypeQuery(m, n)
           r == IF loaded = NoRecord THEN <<m, n>> ELSE loaded
<1>1. /\ Booting /\ boot.type = NoRecord /\ i <= Len(TypesOf(m))
      /\ boot' = [module |-> m, cast |-> 1, type |-> r]
      /\ UNCHANGED <<next, head, types, casts, call>>
  BY DEF TakeType
<1>2. m \in Ring /\ m \in Modules /\ Known = Ring \ {m} /\ Ring \subseteq Modules
  BY <1>1, KnownRing, ModuleNames DEF LoadInv, BootInv
<1>3. Len(types[m]) \in Nat /\ i \in 1..Len(TypesOf(m)) /\ Len(types[m]) < Len(TypesOf(m))
  BY <1>1, <1>2, TableFacts DEF LoadInv, TablesInv
<1>4. n \in ToSet(TypesOf(m)) /\ n \in TypeNames
  BY <1>2, <1>3, TableFacts DEF ToSet
<1>5. \/ loaded = NoRecord /\ \A l \in Known : n \notin ToSet(TypesOf(l))
      \/ /\ loaded \in Record /\ loaded # NoRecord /\ loaded[2] = n /\ loaded[1] \in Known
         /\ \E o \in Known : \E j \in 1..Len(types[o]) :
              TypesOf(o)[j] = n /\ loaded = types[o][j]
  BY <1>1, Loaded
<1>. HIDE DEF n, loaded
<1>6. /\ r \in Record /\ r # NoRecord /\ r[2] = n /\ r[1] \in Ring
      /\ r[1] = m => \A l \in Known : n \notin ToSet(TypesOf(l))
      /\ \/ \A l \in Known : n \notin ToSet(TypesOf(l))
         \/ \E o \in Known : \E j \in 1..Len(types[o]) :
              TypesOf(o)[j] = n /\ r = types[o][j]
  BY <1>2, <1>4, <1>5, RecordFacts
<1>. HIDE DEF r
<1>7. boot'.module = m /\ boot'.type = r /\ boot'.cast = 1
  BY <1>1
<1>8. RingInv' /\ Ring' = Ring
  BY <1>1, RingKept DEF LoadInv
<1>9. Booting' /\ Known' = Known
  BY <1>1, <1>7, <1>8 DEF Booting, Known
<1>10. TablesInv' /\ OneRecordPerType'
  BY <1>1, <1>8, <1>9 DEF LoadInv, TablesInv, OneRecordPerType
<1>11. BootInv'
  <2>1. Len(CastsOf(m, n)) \in Nat
    BY <1>2, <1>4, TableFacts
  <2>2. 1 <= Len(CastsOf(m, n)) + 1 /\ 1 \in Nat \ {0}
    BY <2>1
  <2>3. n = TypesOf(m)[Len(types[m]) + 1]
    BY DEF n
  <2>4. boot' \in [module : Modules \cup {Nothing}, type : Record \cup {NoRecord}, cast : Nat \ {0}]
    BY <1>1, <1>2, <1>6, <2>2
  <2>. QED
    BY <1>1, <1>2, <1>3, <1>6, <1>7, <1>8, <1>9, <2>2, <2>3, <2>4 DEF BootInv
<1>12. CurrentShared'
  <2>1. ASSUME NEW l \in Known, NEW j \in 1..Len(types[l]), TypesOf(l)[j] = n
        PROVE  types[l][j] = r
    <3>1. l \in Modules /\ DOMAIN types[l] = 1..Len(types[l]) /\ DOMAIN TypesOf(l) = 1..Len(types[l])
      BY <1>2, TableFacts DEF LoadInv, TablesInv
    <3>2. n \in ToSet(TypesOf(l))
      BY <2>1, <3>1 DEF ToSet
    <3>3. PICK o \in Known : \E k \in 1..Len(types[o]) : TypesOf(o)[k] = n /\ r = types[o][k]
      BY <1>6, <3>2
    <3>4. PICK k \in 1..Len(types[o]) : TypesOf(o)[k] = n /\ r = types[o][k]
      BY <3>3
    <3>5. o \in Modules /\ DOMAIN types[o] = 1..Len(types[o])
      BY <1>2 DEF LoadInv, TablesInv
    <3>. QED
      BY <2>1, <3>1, <3>4, <3>5 DEF LoadInv, OneRecordPerType
  <2>. QED
    BY <1>1, <1>6, <1>7, <1>9, <2>1 DEF CurrentShared
<1>13. n = TypesOf(m)[Len(types[m]) + 1]
  BY DEF n
<1>. QED
  BY <1>1, <1>3, <1>6, <1>7, <1>8, <1>9, <1>10, <1>11, <1>12, <1>13 DEF LoadInv

(* A cast more is done with. *)
LEMMA LoadCast ==
  ASSUME LoadInv, AddCast
  PROVE  LoadInv' /\ Known' = Known /\ Ring' = Ring
<1>1. /\ Booting /\ boot.type # NoRecord
      /\ boot.cast <= Len(CastsOf(boot.module, boot.type[2]))
      /\ boot' = [boot EXCEPT !.cast = @ + 1]
      /\ UNCHANGED <<next, head, types, call>>
  BY DEF AddCast
<1>2. RingInv' /\ Ring' = Ring
  BY <1>1, RingKept DEF LoadInv
<1>3. boot'.module = boot.module /\ boot'.type = boot.type /\ boot'.cast = boot.cast + 1
  BY <1>1 DEF LoadInv, BootInv
<1>4. Known' = Known /\ Booting' = Booting
  BY <1>2, <1>3 DEF Known, Booting
<1>5. TablesInv' /\ OneRecordPerType' /\ CurrentShared'
  BY <1>1, <1>2, <1>3, <1>4 DEF LoadInv, TablesInv, OneRecordPerType, CurrentShared
<1>6. BootInv'
  <2>1. boot.module \in Modules /\ boot.cast \in Nat \ {0}
    BY <1>1, ModuleNames DEF LoadInv, BootInv
  <2>2. boot.type[2] \in ToSet(TypesOf(boot.module))
    <3>1. Len(types[boot.module]) + 1 \in 1..Len(TypesOf(boot.module))
      BY <1>1, <2>1, TableFacts DEF LoadInv, BootInv, TablesInv
    <3>. QED
      BY <1>1, <2>1, <3>1, TableFacts DEF LoadInv, BootInv, ToSet
  <2>3. Len(CastsOf(boot.module, boot.type[2])) \in Nat
    BY <2>1, <2>2, TableFacts
  <2>4. boot'.cast \in Nat \ {0} /\ boot'.cast <= Len(CastsOf(boot.module, boot.type[2])) + 1
    BY <1>1, <1>3, <2>1, <2>3
  <2>5. boot' \in [module : Modules \cup {Nothing}, type : Record \cup {NoRecord}, cast : Nat \ {0}]
    BY <1>1, <1>3, <2>4 DEF LoadInv, BootInv
  <2>. QED
    BY <1>1, <1>2, <1>3, <1>4, <2>4, <2>5 DEF LoadInv, BootInv
<1>. QED
  BY <1>2, <1>4, <1>5, <1>6 DEF LoadInv

(* The type is done with, and its record put into the table. *)
LEMMA LoadSet ==
  ASSUME LoadInv, SetType
  PROVE  /\ LoadInv' /\ Known' = Known /\ boot'.module = boot.module /\ boot'.type = NoRecord
         /\ Booting /\ Booting' /\ boot.type # NoRecord
         /\ \A l \in Modules \ {boot.module} : types'[l] = types[l]
         /\ Len(types'[boot.module]) = Len(types[boot.module]) + 1
         /\ \A i \in 1..Len(types[boot.module]) : types'[boot.module][i] = types[boot.module][i]
         /\ types'[boot.module][Len(types[boot.module]) + 1] = boot.type
<1> DEFINE m == boot.module
           len == Len(types[m])
           r == boot.type
<1>1. /\ Booting /\ r # NoRecord
      /\ types' = [types EXCEPT ![m] = Append(@, r)]
      /\ boot' = [boot EXCEPT !.type = NoRecord]
      /\ UNCHANGED <<next, head, casts, call>>
  BY DEF SetType
<1>2. m \in Ring /\ m \in Modules /\ Known = Ring \ {m} /\ Ring \subseteq Modules /\ m \notin Known
  BY <1>1, KnownRing, ModuleNames DEF LoadInv, BootInv
<1>3. /\ r \in Record /\ r[1] \in Ring /\ r[2] = TypesOf(m)[len + 1]
      /\ len < Len(TypesOf(m)) /\ len \in Nat /\ Len(TypesOf(m)) \in Nat
      /\ types[m] \in Seq(Record)
  BY <1>1, <1>2, TableFacts DEF LoadInv, BootInv, TablesInv
<1>4. /\ types'[m] \in Seq(Record) /\ Len(types'[m]) = len + 1
      /\ \A i \in 1..len : types'[m][i] = types[m][i]
      /\ types'[m][len + 1] = r
  <2>1. types'[m] = Append(types[m], r)
    BY <1>1, <1>2 DEF LoadInv, TablesInv
  <2>. QED
    BY <1>3, <2>1
<1>5. \A l \in Modules \ {m} : types'[l] = types[l]
  BY <1>1, <1>2 DEF LoadInv, TablesInv
<1>6. boot'.module = m /\ boot'.type = NoRecord
  BY <1>1 DEF LoadInv, BootInv
<1>7. RingInv' /\ Ring' = Ring
  BY <1>1, RingKept DEF LoadInv
<1>8. Booting' /\ Known' = Known
  BY <1>1, <1>6, <1>7 DEF Booting, Known
<1>. HIDE DEF m, len, r
<1>9. \A i \in 1..len + 1 : i \in 1..len \/ i = len + 1
  BY <1>3
<1>10. TablesInv'
  <2>1. DOMAIN types' = Modules
    BY <1>1 DEF LoadInv, TablesInv
  <2>2. ASSUME NEW l \in Modules
        PROVE  /\ types'[l] \in Seq(Record) /\ Len(types'[l]) <= Len(TypesOf(l))
               /\ \A i \in 1..Len(types'[l]) : types'[l][i][2] = TypesOf(l)[i]
               /\ \A i \in 1..Len(types'[l]) : types'[l][i][1] \in Ring
    <3>1. CASE l # m
      BY <1>5, <3>1 DEF LoadInv, TablesInv
    <3>2. CASE l = m
      <4>1. Len(types'[m]) <= Len(TypesOf(m))
        BY <1>3, <1>4
      <4>2. \A i \in 1..len : types[m][i][2] = TypesOf(m)[i] /\ types[m][i][1] \in Ring
        BY <1>2 DEF LoadInv, TablesInv, len
      <4>. QED
        BY <1>3, <1>4, <1>9, <3>2, <4>1, <4>2
    <3>. QED
      BY <3>1, <3>2
  <2>3. \A l \in Modules \ Ring : types'[l] = <<>>
    BY <1>2, <1>5 DEF LoadInv, TablesInv
  <2>4. \A l \in Known : /\ Len(types'[l]) = Len(TypesOf(l))
                         /\ \A i \in 1..Len(types'[l]) : types'[l][i][1] \in Known
    BY <1>2, <1>5 DEF LoadInv, TablesInv
  <2>. QED
    BY <1>7, <1>8, <2>1, <2>2, <2>3, <2>4 DEF TablesInv
<1>11. BootInv'
  <2>1. boot' \in [module : Modules \cup {Nothing}, type : Record \cup {NoRecord}, cast : Nat \ {0}]
    BY <1>1 DEF LoadInv, BootInv
  <2>. QED
    BY <1>2, <1>6, <1>7, <2>1 DEF BootInv
<1>12. CurrentShared'
  BY <1>6 DEF CurrentShared
<1>13. ASSUME NEW l \in Modules, NEW j \in 1..Len(types'[l]), TypesOf(l)[j] = TypesOf(m)[len + 1]
       PROVE  types'[l][j] = r
  <2>1. CASE l = m
    <3>1. j \in 1..Len(TypesOf(m)) /\ len + 1 \in 1..Len(TypesOf(m))
      BY <1>3, <1>4, <2>1
    <3>2. j = len + 1
      BY <1>2, <1>13, <2>1, <3>1, TableFacts DEF IsInjective
    <3>. QED
      BY <1>4, <2>1, <3>2
  <2>2. CASE l # m
    <3>1. l \in Known
      <4>1. Len(types[l]) # 0
        BY <1>5, <1>13, <2>2
      <4>. QED
        BY <1>2, <2>2, <4>1 DEF LoadInv, TablesInv
    <3>. QED
      BY <1>1, <1>3, <1>5, <1>13, <2>2, <3>1 DEF LoadInv, CurrentShared, r
  <2>. QED
    BY <2>1, <2>2
<1>14. \A l \in Modules : DOMAIN types[l] = 1..Len(types[l]) /\ DOMAIN types'[l] = 1..Len(types'[l])
  BY <1>10 DEF LoadInv, TablesInv
<1>15. OneRecordPerType'
  <2> SUFFICES ASSUME NEW l \in Modules, NEW o \in Modules, NEW i \in 1..Len(types'[l]),
                      NEW j \in 1..Len(types'[o]), TypesOf(l)[i] = TypesOf(o)[j]
               PROVE  types'[l][i] = types'[o][j]
    BY <1>14 DEF OneRecordPerType
  <2>1. CASE TypesOf(l)[i] = TypesOf(m)[len + 1]
    BY <1>13, <2>1
  <2>2. CASE TypesOf(l)[i] # TypesOf(m)[len + 1]
    <3>1. \A k \in Modules : \A h \in 1..Len(types'[k]) :
            TypesOf(k)[h] # TypesOf(m)[len + 1] => h \in DOMAIN types[k] /\ types'[k][h] = types[k][h]
      <4> SUFFICES ASSUME NEW k \in Modules, NEW h \in 1..Len(types'[k]),
                          TypesOf(k)[h] # TypesOf(m)[len + 1]
                   PROVE  h \in DOMAIN types[k] /\ types'[k][h] = types[k][h]
        OBVIOUS
      <4>1. CASE k # m
        BY <1>5, <1>14, <4>1
      <4>2. CASE k = m
        <5>1. h \in 1..len /\ DOMAIN types[m] = 1..len
          BY <1>2, <1>4, <1>9, <1>14, <4>2 DEF len
        <5>. QED
          BY <1>4, <4>2, <5>1
      <4>. QED
        BY <4>1, <4>2
    <3>. QED
      BY <2>2, <3>1 DEF LoadInv, OneRecordPerType
  <2>. QED
    BY <2>1, <2>2
<1>. QED
  BY <1>1, <1>4, <1>5, <1>6, <1>7, <1>8, <1>10, <1>11, <1>12, <1>15 DEF LoadInv, m, len, r

(* The module is loaded. *)
LEMMA LoadInstall ==
  ASSUME LoadInv, Install
  PROVE  /\ LoadInv' /\ Booting /\ ~Booting' /\ boot.type = NoRecord /\ boot'.type = NoRecord
         /\ boot.module \in Ring /\ Known' = Known \cup {boot.module}
         /\ Len(types[boot.module]) = Len(TypesOf(boot.module))
<1>1. /\ Booting /\ boot.type = NoRecord /\ boot' = Idle
      /\ Len(types[boot.module]) = Len(TypesOf(boot.module))
      /\ UNCHANGED <<next, head, types, casts, call>>
  BY DEF Install
<1>2. boot'.module = Nothing /\ boot'.type = NoRecord /\ ~Booting'
  BY <1>1 DEF Idle, Booting
<1>3. boot.module \in Ring /\ boot.module \in Modules /\ Known = Ring \ {boot.module}
  BY <1>1, KnownRing, ModuleNames DEF LoadInv, BootInv
<1>4. RingInv' /\ Ring' = Ring
  BY <1>1, RingKept DEF LoadInv
<1>5. Known' = Ring
  BY <1>2, <1>4 DEF Known
<1>6. TablesInv'
  BY <1>1, <1>3, <1>4, <1>5 DEF LoadInv, TablesInv
<1>7. BootInv'
  <2>1. boot' = [module |-> Nothing, type |-> NoRecord, cast |-> 1]
    BY <1>1 DEF Idle
  <2>2. boot' \in [module : Modules \cup {Nothing}, type : Record \cup {NoRecord}, cast : Nat \ {0}]
    BY <2>1
  <2>. QED
    BY <1>2, <2>2 DEF BootInv
<1>8. OneRecordPerType' /\ CurrentShared'
  BY <1>1, <1>2 DEF LoadInv, OneRecordPerType, CurrentShared
<1>. QED
  BY <1>1, <1>2, <1>3, <1>4, <1>5, <1>6, <1>7, <1>8 DEF LoadInv

LEMMA LoadStill ==
  LoadInv /\ UNCHANGED <<next, head, types, boot>>
    => LoadInv' /\ Known' = Known /\ Ring' = Ring /\ Booting' = Booting
<1> SUFFICES ASSUME LoadInv, UNCHANGED <<next, head, types, boot>>
             PROVE  LoadInv' /\ Known' = Known /\ Ring' = Ring /\ Booting' = Booting
  OBVIOUS
<1>1. RingInv' /\ Ring' = Ring
  BY RingKept DEF LoadInv
<1>2. Known' = Known /\ Booting' = Booting
  BY <1>1 DEF Known, Booting
<1>. QED
  BY <1>1, <1>2 DEF LoadInv, TablesInv, BootInv, OneRecordPerType, CurrentShared

LEMMA LoadInductive == LoadInv /\ [Next]_vars => LoadInv'
<1> SUFFICES ASSUME LoadInv, [Next]_vars PROVE LoadInv'
  OBVIOUS
<1>1. CASE UNCHANGED <<next, head, types, boot>>
  BY <1>1, LoadStill
<1>. QED
  BY <1>1, LoadInitialize, LoadTake, LoadCast, LoadSet, LoadInstall
     DEF Next, Boot, BootAgain, Wrap, SetSpi, vars

(* Modules that know a type use one record of it, whatever the order in    *)
(* which they are loaded.                                                  *)
THEOREM OneRecordPerTypeCorrect == Spec => []OneRecordPerType
<1>1. LoadInv => OneRecordPerType
  BY DEF LoadInv
<1>. QED
  BY <1>1, LoadInit, LoadInductive, PTL DEF Spec

-----------------------------------------------------------------------------
(* The records in use: they are in a table, or about to be. *)
Used ==
  {r \in Record : r = boot.type \/ \E m \in Modules : \E i \in 1..Len(types[m]) : types[m][i] = r}

(* The casts into n that the module that is being loaded has added so far. *)
Reached(n) == \E i \in 1..Len(types[boot.module]) : TypesOf(boot.module)[i] = n

Added(n) ==
  IF ~Booting THEN {}
  ELSE IF Reached(n) THEN ToSet(CastsOf(boot.module, n))
  ELSE IF boot.type # NoRecord /\ boot.type[2] = n
  THEN {CastsOf(boot.module, n)[k] : k \in 1..boot.cast - 1} ELSE {}

(* Every cast list in use names what the loaded modules declare and the    *)
(* module that is being loaded has added, each name once.                  *)
CastInv ==
  /\ DOMAIN casts = Record
  /\ \A r \in Record : casts[r] \in Seq(Record) /\ Once(casts[r])
  /\ \A r \in Used : Names(casts[r]) = Declared(r[2]) \cup Added(r[2])
  /\ \A r \in Record \ Used : casts[r] = <<>>

BindInv == LoadInv /\ CastInv

LEMMA NoNames == Names(<<>>) = {} /\ Once(<<>>) /\ <<>> \in Seq(Record)
BY DEF Names, Once

LEMMA DeclaredKept ==
  ASSUME Known' = Known, NEW n
  PROVE  Declared(n)' = Declared(n)
BY DEF Declared

LEMMA UsedTaken ==
  ASSUME LoadInv, NEW m \in Modules, NEW i \in 1..Len(types[m])
  PROVE  types[m][i] \in Used
BY DEF Used, LoadInv, TablesInv

(* A step that leaves the lists alone. *)
LEMMA CastsStay ==
  ASSUME CastInv, casts' = casts, Used \subseteq Used',
         \A r \in Used' : /\ (Declared(r[2]) \cup Added(r[2]))' = Declared(r[2]) \cup Added(r[2])
                          /\ r \in Used \/ Declared(r[2]) \cup Added(r[2]) = {}
  PROVE  CastInv'
<1>1. \A r \in Record \ Used' : casts[r] = <<>>
  BY DEF CastInv
<1>2. ASSUME NEW r \in Used' PROVE Names(casts[r]) = (Declared(r[2]) \cup Added(r[2]))'
  <2>1. CASE r \in Used
    BY <2>1 DEF CastInv
  <2>2. CASE r \notin Used
    BY <2>2, NoNames DEF CastInv, Used
  <2>. QED
    BY <2>1, <2>2
<1>3. Used' \subseteq Record
  BY DEF Used
<1>. QED
  BY <1>1, <1>2, <1>3 DEF CastInv

LEMMA CastInit == Init => BindInv
<1> SUFFICES ASSUME Init PROVE BindInv
  OBVIOUS
<1>1. Used = {}
  <2>1. boot.type = NoRecord /\ \A m \in Modules : Len(types[m]) = 0
    BY DEF Init, Idle
  <2>. QED
    BY <2>1, RecordFacts DEF Used
<1>2. casts = [r \in Record |-> <<>>]
  BY DEF Init
<1>. QED
  BY <1>1, <1>2, LoadInit, NoNames DEF BindInv, CastInv

LEMMA CastInitialize ==
  ASSUME BindInv, NEW m \in Modules, InitializeModule(m)
  PROVE  CastInv'
<1>1. /\ LoadInv /\ CastInv /\ LoadInv' /\ Known' = Known /\ m \notin Ring /\ ~Booting
      /\ boot' = [Idle EXCEPT !.module = m]
      /\ types' = types /\ casts' = casts
  BY LoadInitialize DEF BindInv, InitializeModule
<1>2. boot'.module = m /\ boot'.type = NoRecord
  BY <1>1 DEF Idle
<1>3. boot.type = NoRecord
  BY <1>1 DEF LoadInv, BootInv
<1>4. Used' = Used
  BY <1>1, <1>2, <1>3 DEF Used
<1>5. Len(types[m]) = 0
  BY <1>1 DEF LoadInv, TablesInv
<1>6. \A n : Added(n) = {}
  BY <1>1 DEF Added
<1>7. \A n : Added(n)' = {}
  BY <1>1, <1>2, <1>5 DEF Added, Reached
<1>. QED
  BY <1>1, <1>4, <1>6, <1>7, CastsStay, DeclaredKept

LEMMA CastTake ==
  ASSUME BindInv, TakeType
  PROVE  CastInv'
<1> DEFINE m == boot.module
           r == boot'.type
           n == TypesOf(m)[Len(types[m]) + 1]
<1>1. /\ LoadInv /\ CastInv /\ LoadInv' /\ Known' = Known /\ boot'.cast = 1 /\ boot'.module = m
      /\ Booting /\ Booting' /\ boot.type = NoRecord /\ r \in Record /\ r[2] = n
      /\ Len(types[m]) < Len(TypesOf(m))
      /\ \/ \A l \in Known : n \notin ToSet(TypesOf(l))
         \/ \E o \in Known : \E i \in 1..Len(types[o]) : r = types[o][i]
      /\ types' = types /\ casts' = casts
  BY LoadTake DEF BindInv, TakeType
<1>2. m \in Modules /\ Known \subseteq Modules
  BY <1>1, KnownRing, ModuleNames DEF LoadInv, BootInv
<1>3. ~Reached(n)
  <2> SUFFICES ASSUME NEW i \in 1..Len(types[m]), TypesOf(m)[i] = n PROVE FALSE
    BY DEF Reached
  <2>1. Len(types[m]) \in Nat /\ Len(TypesOf(m)) \in Nat
    BY <1>2, <1>1, TableFacts DEF LoadInv, TablesInv
  <2>2. i \in 1..Len(TypesOf(m)) /\ Len(types[m]) + 1 \in 1..Len(TypesOf(m))
    BY <1>1, <2>1
  <2>3. i = Len(types[m]) + 1
    BY <1>2, <2>2, TableFacts DEF IsInjective
  <2>. QED
    BY <2>1, <2>3
<1>4. Used' = Used \cup {r}
  BY <1>1, RecordFacts DEF Used
<1>5. \A k : Reached(k)' <=> Reached(k)
  BY <1>1 DEF Reached
<1>6. Added(n) = {} /\ \A k : Added(k)' = Added(k)
  <2>1. Added(n) = {}
    BY <1>1, <1>3 DEF Added
  <2>2. 1..boot'.cast - 1 = {}
    BY <1>1
  <2>3. ASSUME NEW k PROVE Added(k)' = Added(k)
    <3>1. CASE Reached(k)
      BY <1>1, <1>5, <3>1 DEF Added
    <3>2. CASE ~Reached(k)
      BY <1>1, <1>5, <2>2, <3>2 DEF Added
    <3>. QED
      BY <3>1, <3>2
  <2>. QED
    BY <2>1, <2>3
<1>7. r \in Used \/ Declared(n) = {}
  BY <1>1, <1>2, UsedTaken DEF Declared
<1>. HIDE DEF n, r
<1>8. \A k : (Declared(k) \cup Added(k))' = Declared(k) \cup Added(k)
  BY <1>1, <1>6, DeclaredKept
<1>. QED
  BY <1>1, <1>4, <1>6, <1>7, <1>8, CastsStay

LEMMA CastSet ==
  ASSUME BindInv, SetType
  PROVE  CastInv'
<1> DEFINE m == boot.module
           r == boot.type
           len == Len(types[m])
           list == CastsOf(m, r[2])
<1>1. /\ LoadInv /\ CastInv /\ LoadInv' /\ Known' = Known /\ boot'.module = m /\ boot'.type = NoRecord
      /\ Booting /\ Booting' /\ r # NoRecord
      /\ \A l \in Modules \ {m} : types'[l] = types[l]
      /\ Len(types'[m]) = len + 1
      /\ \A i \in 1..len : types'[m][i] = types[m][i]
      /\ types'[m][len + 1] = r
      /\ boot.cast > Len(list) /\ casts' = casts
  BY LoadSet DEF BindInv, SetType
<1>2. m \in Modules /\ boot.cast <= Len(list) + 1 /\ boot.cast \in Nat
  BY <1>1, ModuleNames DEF LoadInv, BootInv
<1>3. len \in Nat /\ r[2] = TypesOf(m)[len + 1] /\ len < Len(TypesOf(m)) /\ Len(TypesOf(m)) \in Nat
  BY <1>1, <1>2, TableFacts DEF LoadInv, BootInv, TablesInv
<1>4. \A i \in 1..len + 1 : i \in 1..len \/ i = len + 1
  BY <1>3
<1>5. len + 1 \in 1..len + 1 /\ \A i \in 1..len : i \in 1..len + 1
  BY <1>3
<1>6. Used' = Used
  <2>1. ASSUME NEW x \in Used PROVE x \in Used'
    <3>1. CASE x = r
      BY <1>1, <1>2, <1>5, <3>1 DEF Used
    <3>2. ASSUME NEW l \in Modules, NEW i \in 1..Len(types[l]), x = types[l][i]
          PROVE  x \in Used'
      <4>1. i \in 1..Len(types'[l]) /\ x = types'[l][i]
        BY <1>1, <1>5, <3>2
      <4>. QED
        BY <4>1 DEF Used
    <3>. QED
      BY <2>1, <3>1, <3>2 DEF Used
  <2>2. ASSUME NEW x \in Used' PROVE x \in Used
    <3>1. PICK l \in Modules : \E i \in 1..Len(types'[l]) : x = types'[l][i]
      BY <1>1, <2>2, RecordFacts DEF Used
    <3>2. PICK i \in 1..Len(types'[l]) : x = types'[l][i]
      BY <3>1
    <3>3. x = r \/ (i \in 1..Len(types[l]) /\ x = types[l][i])
      BY <1>1, <1>4, <3>2
    <3>. QED
      BY <1>1, <3>3 DEF Used
  <2>. QED
    BY <2>1, <2>2
<1>7. \A n : Reached(n)' <=> Reached(n) \/ n = r[2]
  BY <1>1, <1>3, <1>4, <1>5 DEF Reached
<1>8. {list[k] : k \in 1..boot.cast - 1} = ToSet(list)
  <2>1. r[2] \in ToSet(TypesOf(m))
    BY <1>2, <1>3, TableFacts DEF ToSet
  <2>2. Len(list) \in Nat /\ DOMAIN list = 1..Len(list)
    BY <1>2, <2>1, TableFacts
  <2>3. boot.cast - 1 = Len(list)
    BY <1>1, <1>2, <2>2
  <2>. QED
    BY <2>2, <2>3 DEF ToSet
<1>9. ~Reached(r[2]) => Added(r[2]) = ToSet(list)
  BY <1>1, <1>8 DEF Added
<1>. HIDE DEF len, list
<1>10. ASSUME NEW n PROVE Added(n)' = Added(n)
  <2>1. CASE Reached(n)
    BY <1>1, <1>7, <2>1 DEF Added
  <2>2. CASE ~Reached(n) /\ n = r[2]
    BY <1>1, <1>7, <1>9, <2>2 DEF Added, list
  <2>3. CASE ~Reached(n) /\ n # r[2]
    BY <1>1, <1>7, <2>3 DEF Added
  <2>. QED
    BY <2>1, <2>2, <2>3
<1>11. \A n : (Declared(n) \cup Added(n))' = Declared(n) \cup Added(n)
  BY <1>1, <1>10, DeclaredKept
<1>. QED
  BY <1>1, <1>6, <1>11, CastsStay

LEMMA CastInstall ==
  ASSUME BindInv, Install
  PROVE  CastInv'
<1> DEFINE m == boot.module
<1>1. /\ LoadInv /\ CastInv /\ Booting /\ ~Booting' /\ boot.type = NoRecord /\ boot'.type = NoRecord
      /\ m \in Ring /\ Known' = Known \cup {m} /\ Len(types[m]) = Len(TypesOf(m))
      /\ types' = types /\ casts' = casts
  BY LoadInstall DEF BindInv, Install
<1>2. m \in Modules /\ DOMAIN TypesOf(m) = 1..Len(types[m])
  BY <1>1, ModuleNames, TableFacts
<1>3. Used' = Used
  BY <1>1 DEF Used
<1>4. ASSUME NEW n PROVE (Declared(n) \cup Added(n))' = Declared(n) \cup Added(n)
  <2>1. Added(n)' = {}
    BY <1>1 DEF Added
  <2>2. Reached(n) <=> n \in ToSet(TypesOf(m))
    BY <1>2 DEF Reached, ToSet
  <2>3. Added(n) = IF n \in ToSet(TypesOf(m)) THEN ToSet(CastsOf(m, n)) ELSE {}
    BY <1>1, <2>2 DEF Added
  <2>4. Declared(n)' = Declared(n) \cup (IF n \in ToSet(TypesOf(m)) THEN ToSet(CastsOf(m, n)) ELSE {})
    BY <1>1 DEF Declared
  <2>. QED
    BY <2>1, <2>3, <2>4
<1>. QED
  BY <1>1, <1>3, <1>4, CastsStay

(* An entry of one list moves to its front. *)
LEMMA CastMoved ==
  ASSUME CastInv, NEW r \in Record, NEW n, casts' = TypeCheck(r, n), Used' = Used,
         \A k : (Declared(k) \cup Added(k))' = Declared(k) \cup Added(k)
  PROVE  CastInv'
<1> DEFINE i == Place(casts[r], n)
<1>1. DOMAIN casts = Record /\ casts[r] \in Seq(Record)
  BY DEF CastInv
<1>2. CASE i = 0
  <2>1. casts' = casts
    BY <1>2 DEF TypeCheck
  <2>. QED
    BY <2>1, CastsStay
<1>3. CASE i # 0
  <2>1. i \in 1..Len(casts[r])
    BY <1>1, <1>3, PlaceFound
  <2>2. casts' = [casts EXCEPT ![r] = ToFront(casts[r], i)]
    BY <1>3 DEF TypeCheck
  <2>. HIDE DEF i
  <2>3. /\ ToFront(casts[r], i) \in Seq(Record)
        /\ Names(ToFront(casts[r], i)) = Names(casts[r])
        /\ Once(casts[r]) => Once(ToFront(casts[r], i))
    BY <1>1, <2>1, FrontElements, FrontKeeps
  <2>4. r \in Used
    BY <1>1, <2>1 DEF CastInv
  <2>5. DOMAIN casts' = Record /\ casts'[r] = ToFront(casts[r], i)
        /\ \A s \in Record \ {r} : casts'[s] = casts[s]
    BY <1>1, <2>2
  <2>6. \A s \in Record : /\ casts'[s] \in Seq(Record) /\ Once(casts'[s])
                         /\ Names(casts'[s]) = Names(casts[s])
    BY <2>3, <2>5 DEF CastInv
  <2>7. \A s \in Used : s \in Record
    BY DEF Used
  <2>8. \A s \in Record \ Used : casts'[s] = <<>>
    BY <2>4, <2>5 DEF CastInv
  <2>. QED
    BY <2>5, <2>6, <2>7, <2>8 DEF CastInv
<1>. QED
  BY <1>2, <1>3

(* A type has one record in use. *)
LEMMA UsedOne ==
  ASSUME LoadInv, boot.type # NoRecord, NEW s \in Used, s[2] = boot.type[2]
  PROVE  s = boot.type
<1> DEFINE m == boot.module
<1>1. CASE s = boot.type
  BY <1>1
<1>2. ASSUME NEW l \in Modules, NEW i \in 1..Len(types[l]), types[l][i] = s
      PROVE  s = boot.type
  <2>1. TypesOf(l)[i] = boot.type[2]
    BY <1>2 DEF LoadInv, TablesInv
  <2>2. l \in Ring
    <3>1. Len(types[l]) # 0
      BY <1>2
    <3>. QED
      BY <3>1 DEF LoadInv, TablesInv
  <2>3. m \in Modules /\ Known = Ring \ {m} /\ Len(types[m]) < Len(TypesOf(m))
        /\ boot.type[2] = TypesOf(m)[Len(types[m]) + 1]
    BY KnownRing, ModuleNames DEF LoadInv, BootInv
  <2>4. CASE l = m
    <3>1. /\ Len(types[m]) \in Nat /\ Len(TypesOf(m)) \in Nat
          /\ DOMAIN TypesOf(m) = 1..Len(TypesOf(m)) /\ IsInjective(TypesOf(m))
      BY <2>3, TableFacts DEF LoadInv, TablesInv
    <3>2. /\ i \in 1..Len(TypesOf(m)) /\ i # Len(types[m]) + 1
          /\ Len(types[m]) + 1 \in 1..Len(TypesOf(m))
      BY <1>2, <2>3, <2>4, <3>1
    <3>. QED
      BY <2>1, <2>3, <2>4, <3>1, <3>2 DEF IsInjective
  <2>5. CASE l # m
    BY <1>2, <2>1, <2>2, <2>3, <2>5 DEF LoadInv, CurrentShared
  <2>. QED
    BY <2>4, <2>5
<1>. QED
  BY <1>1, <1>2 DEF Used

(* One more cast of the module that is being loaded. *)
LEMMA CastAdd ==
  ASSUME BindInv, AddCast
  PROVE  CastInv'
<1> DEFINE m == boot.module
           r == boot.type
           list == CastsOf(m, r[2])
           n == list[boot.cast]
           loaded == MangledTypeQuery(m, n)
           own == r[1] = m
<1>1. /\ LoadInv /\ CastInv /\ LoadInv' /\ Known' = Known /\ Ring' = Ring
      /\ Booting /\ r # NoRecord /\ boot.cast <= Len(list)
      /\ boot' = [boot EXCEPT !.cast = @ + 1]
      /\ types' = types
  BY LoadCast DEF BindInv, AddCast
<1>2. \/ loaded # NoRecord /\ ~own /\ Place(casts[r], n) # 0 /\ casts' = TypeCheck(r, n)
      \/ /\ loaded = NoRecord \/ own \/ Place(casts[r], n) = 0
         /\ casts' = [casts EXCEPT ![r] =
                         <<IF loaded # NoRecord /\ own THEN loaded ELSE <<m, n>>>> \o @]
  BY DEF AddCast
<1>3. boot'.module = m /\ boot'.type = r /\ boot'.cast = boot.cast + 1 /\ boot.cast \in Nat \ {0}
  BY <1>1 DEF LoadInv, BootInv
<1>4. m \in Modules /\ r \in Record /\ m \notin Known /\ Known \subseteq Modules
      /\ Len(types[m]) < Len(TypesOf(m)) /\ r[2] = TypesOf(m)[Len(types[m]) + 1]
  BY <1>1, ModuleNames, KnownRing DEF LoadInv, BootInv
<1>5. Len(types[m]) \in Nat /\ Len(TypesOf(m)) \in Nat /\ DOMAIN TypesOf(m) = 1..Len(TypesOf(m))
  BY <1>1, <1>4, TableFacts DEF LoadInv, TablesInv
<1>6. Len(types[m]) + 1 \in 1..Len(TypesOf(m))
  BY <1>4, <1>5
<1>7. r[2] \in ToSet(TypesOf(m))
  BY <1>4, <1>5, <1>6 DEF ToSet
<1>8. list \in Seq(ToSet(TypesOf(m))) /\ IsInjective(list) /\ ToSet(TypesOf(m)) \subseteq TypeNames
  BY <1>4, <1>7, TableFacts
<1>9. boot.cast \in 1..Len(list) /\ Len(list) \in Nat /\ DOMAIN list = 1..Len(list)
  BY <1>1, <1>3, <1>8
<1>10. n \in ToSet(TypesOf(m)) /\ n \in TypeNames
  BY <1>8, <1>9
<1>11. ~Reached(r[2])
  <2> SUFFICES ASSUME NEW i \in 1..Len(types[m]), TypesOf(m)[i] = r[2] PROVE FALSE
    BY DEF Reached
  <2>1. i \in 1..Len(TypesOf(m))
    BY <1>4, <1>5
  <2>2. i = Len(types[m]) + 1
    BY <1>4, <1>5, <1>6, <2>1, TableFacts DEF IsInjective
  <2>. QED
    BY <1>5, <2>2
<1>12. Booting' /\ (\A k : Reached(k)' <=> Reached(k)) /\ Used' = Used
  BY <1>1, <1>3 DEF Booting, Reached, Used
<1>13. r \in Used /\ casts[r] \in Seq(Record) /\ Once(casts[r]) /\ DOMAIN casts = Record
  BY <1>4, <1>1 DEF CastInv, Used
<1>14. Added(r[2]) = {list[k] : k \in 1..boot.cast - 1}
  BY <1>1, <1>11 DEF Added
<1>15. Added(r[2])' = {list[k] : k \in 1..(boot.cast + 1) - 1}
  BY <1>1, <1>3, <1>11, <1>12 DEF Added
<1>16. Names(casts[r]) = Declared(r[2]) \cup Added(r[2])
  BY <1>1, <1>13 DEF CastInv
<1>17. \/ loaded = NoRecord /\ \A l \in Known : n \notin ToSet(TypesOf(l))
       \/ loaded \in Record /\ loaded # NoRecord /\ loaded[2] = n
  BY <1>1, Loaded
<1>18. own => Declared(r[2]) = {}
  BY <1>1 DEF LoadInv, CurrentShared, Declared
<1>. HIDE DEF n, list, m, r, loaded
<1>19. Added(r[2])' = Added(r[2]) \cup {n}
  <2>1. \A k : k \in 1..(boot.cast + 1) - 1 <=> k \in 1..boot.cast - 1 \/ k = boot.cast
    BY <1>3
  <2>. QED
    BY <1>14, <1>15, <2>1 DEF n
<1>30. r' = r
  BY <1>3 DEF r
<1>20. \A k : k # r[2] => Added(k)' = Added(k)
  BY <1>1, <1>3, <1>12 DEF Added, m, r
<1>21. n \notin Added(r[2])
  <2> SUFFICES ASSUME NEW k \in 1..boot.cast - 1, list[k] = list[boot.cast] PROVE FALSE
    BY <1>14 DEF n
  <2>1. k \in 1..Len(list) /\ k # boot.cast
    BY <1>9
  <2>. QED
    BY <1>8, <1>9, <2>1 DEF IsInjective
<1>22. loaded = NoRecord => n \notin Declared(r[2])
  <2> SUFFICES ASSUME loaded = NoRecord, NEW l \in Known, r[2] \in ToSet(TypesOf(l)),
                      n \in ToSet(CastsOf(l, r[2]))
               PROVE  FALSE
    BY DEF Declared
  <2>1. CastsOf(l, r[2]) \in Seq(ToSet(TypesOf(l)))
    BY <1>4, TableFacts
  <2>2. n \in ToSet(TypesOf(l))
    BY <2>1 DEF ToSet
  <2>. QED
    BY <1>17, <2>2
<1>23. CASE loaded # NoRecord /\ ~own /\ Place(casts[r], n) # 0 /\ casts' = TypeCheck(r, n)
  <2>1. n \in Names(casts[r])
    BY <1>13, <1>23, PlaceFound
  <2>2. n \in Declared(r[2])
    BY <1>16, <1>21, <2>1
  <2>3. \A k : (Declared(k) \cup Added(k))' = Declared(k) \cup Added(k)
    <3> SUFFICES ASSUME NEW k PROVE (Declared(k) \cup Added(k))' = Declared(k) \cup Added(k)
      OBVIOUS
    <3>1. Declared(k)' = Declared(k)
      BY <1>1, DeclaredKept
    <3>. QED
      BY <1>19, <1>20, <1>30, <2>2, <3>1
  <2>. QED
    BY <1>1, <1>4, <1>12, <1>23, <2>3, CastMoved
<1>24. CASE /\ loaded = NoRecord \/ own \/ Place(casts[r], n) = 0
            /\ casts' = [casts EXCEPT ![r] =
                         <<IF loaded # NoRecord /\ own THEN loaded ELSE <<m, n>>>> \o @]
  <2> DEFINE e == IF loaded # NoRecord /\ own THEN loaded ELSE <<m, n>>
             new == <<e>> \o casts[r]
  <2>1. e \in Record /\ e[2] = n
    BY <1>4, <1>10, <1>17, RecordFacts
  <2>2. n \notin Names(casts[r])
    <3>1. CASE loaded = NoRecord
      BY <1>16, <1>21, <1>22, <3>1
    <3>2. CASE own
      BY <1>16, <1>18, <1>21, <3>2
    <3>3. CASE Place(casts[r], n) = 0
      <4>1. n \in Names(casts[r]) => Place(casts[r], n) \in 1..Len(casts[r])
        BY <1>13, PlaceFound
      <4>. QED
        BY <3>3, <4>1
    <3>. QED
      BY <1>24, <3>1, <3>2, <3>3
  <2>. HIDE DEF e
  <2>3. new \in Seq(Record) /\ Once(new) /\ Names(new) = Names(casts[r]) \cup {n}
    BY <1>13, <2>1, <2>2, PushKeeps
  <2>4. casts' = [casts EXCEPT ![r] = new]
    BY <1>24 DEF e
  <2>. HIDE DEF new
  <2>5. DOMAIN casts' = Record /\ casts'[r] = new /\ \A s \in Record \ {r} : casts'[s] = casts[s]
    BY <1>4, <1>13, <2>4
  <2>6. \A s \in Record : casts'[s] \in Seq(Record) /\ Once(casts'[s])
    BY <1>1, <2>3, <2>5 DEF CastInv
  <2>7. ASSUME NEW s \in Used PROVE Names(casts'[s]) = (Declared(s[2]) \cup Added(s[2]))'
    <3>1. Declared(s[2])' = Declared(s[2]) /\ s \in Record
      BY <1>1, DeclaredKept DEF Used
    <3>2. CASE s = r
      BY <1>16, <1>19, <1>30, <2>3, <2>5, <3>1, <3>2
    <3>3. CASE s # r
      <4>1. s[2] # r[2]
        BY <1>1, <3>1, <3>3, <2>7, UsedOne DEF r
      <4>. QED
        BY <1>1, <1>20, <2>5, <3>1, <3>3, <4>1 DEF CastInv
    <3>. QED
      BY <3>2, <3>3
  <2>8. \A s \in Record \ Used : casts'[s] = <<>>
    BY <1>1, <1>13, <2>5 DEF CastInv
  <2>. QED
    BY <1>12, <2>5, <2>6, <2>7, <2>8 DEF CastInv
<1>. QED
  BY <1>2, <1>23, <1>24 DEF m, r, n, list, loaded

(* The record in which the wrappers of Robotc look for what casts into a robot. *)
LEMMA RobotRecord ==
  ASSUME BindInv, ~Booting, "Robotc" \in Ring
  PROVE  /\ types["Robotc"][3] \in Used /\ types["Robotc"][3] \in Record
         /\ types["Robotc"][3][2] = "_p_robot"
         /\ casts[types["Robotc"][3]] \in Seq(Record)
         /\ Names(casts[types["Robotc"][3]]) = Declared("_p_robot")
<1>1. "Robotc" \in Known /\ "Robotc" \in Modules /\ LoadInv
  BY KnownRing, ModuleNames DEF BindInv
<1>2. Len(types["Robotc"]) = 4
  BY <1>1 DEF LoadInv, TablesInv, TypesOf, RobotTypes
<1>3. 3 \in 1..Len(types["Robotc"])
  BY <1>2
<1>4. types["Robotc"][3] \in Used /\ types["Robotc"][3] \in Record
  BY <1>1, <1>3, UsedTaken DEF Used
<1>5. types["Robotc"][3][2] = "_p_robot"
  BY <1>1, <1>3 DEF LoadInv, TablesInv, TypesOf, RobotTypes
<1>6. Added("_p_robot") = {}
  BY DEF Added
<1>7. Names(casts[types["Robotc"][3]]) = Declared("_p_robot") \cup Added("_p_robot")
  BY <1>4, <1>5 DEF BindInv, CastInv
<1>. QED
  BY <1>4, <1>5, <1>6, <1>7 DEF BindInv, CastInv

LEMMA UsedKept ==
  LoadInv /\ UNCHANGED <<next, head, types, boot>> =>
    Used' = Used /\ \A k : (Declared(k) \cup Added(k))' = Declared(k) \cup Added(k)
<1> SUFFICES ASSUME LoadInv, UNCHANGED <<next, head, types, boot>>
             PROVE  Used' = Used /\ \A k : (Declared(k) \cup Added(k))' = Declared(k) \cup Added(k)
  OBVIOUS
<1>1. Known' = Known /\ Booting' = Booting
  BY LoadStill
<1>2. Used' = Used
  BY DEF Used
<1>3. \A k : Reached(k)' <=> Reached(k)
  BY DEF Reached
<1>4. ASSUME NEW k PROVE Added(k)' = Added(k)
  BY <1>1, <1>3 DEF Added
<1>5. ASSUME NEW k PROVE (Declared(k) \cup Added(k))' = Declared(k) \cup Added(k)
  BY <1>1, <1>4, DeclaredKept
<1>. QED
  BY <1>2, <1>5

LEMMA CastStill ==
  ASSUME BindInv, UNCHANGED <<next, head, types, boot, casts>>
  PROVE  CastInv'
<1>1. Used' = Used /\ \A k : (Declared(k) \cup Added(k))' = Declared(k) \cup Added(k)
  BY UsedKept DEF BindInv
<1>. QED
  BY <1>1, CastsStay DEF BindInv

(* A wrapper's search shuffles the list of the robot's record. *)
LEMMA CastWrap ==
  ASSUME BindInv, NEW f, NEW items, NEW v, Wrap(f, items, v)
  PROVE  CastInv'
<1>1. UNCHANGED <<next, head, types, boot>> /\ ~Booting /\ "Robotc" \in Ring
  BY DEF Wrap
<1>2. casts' = casts \/ casts' = TypeCheck(types["Robotc"][3], v.class)
  BY DEF Wrap
<1>3. CASE casts' = casts
  BY <1>1, <1>3, CastStill
<1>4. CASE casts' = TypeCheck(types["Robotc"][3], v.class)
  <2>1. Used' = Used /\ \A k : (Declared(k) \cup Added(k))' = Declared(k) \cup Added(k)
    BY <1>1, UsedKept DEF BindInv
  <2>2. types["Robotc"][3] \in Record
    BY <1>1, RobotRecord
  <2>. QED
    BY <1>4, <2>1, <2>2, CastMoved DEF BindInv
<1>. QED
  BY <1>2, <1>3, <1>4

LEMMA CastInductive == BindInv /\ [Next]_vars => BindInv'
<1> SUFFICES ASSUME BindInv, [Next]_vars PROVE BindInv'
  OBVIOUS
<1>1. LoadInv'
  BY LoadInductive DEF BindInv
<1>2. CASE UNCHANGED <<next, head, types, boot, casts>>
  BY <1>1, <1>2, CastStill DEF BindInv
<1>. QED
  BY <1>1, <1>2, CastInitialize, CastTake, CastAdd, CastSet, CastInstall, CastWrap
     DEF Next, Boot, BootAgain, SetSpi, vars, BindInv

(* Whatever the order of loading and of the searches since, the cast list  *)
(* of a type has what the loaded modules declare for it, each cast once.   *)
THEOREM CastsDeclaredCorrect == Spec => []CastsDeclared
<1>1. BindInv => CastsDeclared
  <2> SUFFICES ASSUME BindInv, ~Booting, NEW m \in Ring, NEW r \in ToSet(types[m])
               PROVE  /\ {t[2] : t \in ToSet(casts[r])} = Declared(r[2])
                      /\ Len(casts[r]) = Cardinality(Declared(r[2]))
    BY DEF CastsDeclared
  <2>1. m \in Modules /\ DOMAIN types[m] = 1..Len(types[m])
    BY ModuleNames DEF BindInv, LoadInv, TablesInv
  <2>2. r \in Used
    BY <2>1, UsedTaken DEF BindInv, ToSet
  <2>3. casts[r] \in Seq(Record) /\ Once(casts[r])
    BY <2>2 DEF BindInv, CastInv, Used
  <2>4. Added(r[2]) = {}
    BY DEF Added
  <2>5. Names(casts[r]) = Declared(r[2])
    BY <2>2, <2>4 DEF BindInv, CastInv
  <2>6. {t[2] : t \in ToSet(casts[r])} = Names(casts[r])
    <3>1. DOMAIN casts[r] = 1..Len(casts[r])
      BY <2>3
    <3>. QED
      BY <3>1 DEF ToSet, Names
  <2>. QED
    BY <2>3, <2>5, <2>6, OnceCounted
<1>. QED
  BY <1>1, CastInit, CastInductive, PTL DEF Spec

(* The variables of the binding have their types. *)
THEOREM TypeCorrect == Spec => []TypeOK
<1>1. BindInv /\ IntInv => TypeOK
  <2> SUFFICES ASSUME BindInv, IntInv PROVE TypeOK
    OBVIOUS
  <2>1. /\ next \in [Modules -> Modules \cup {Nothing}]
        /\ head \in Modules \cup {Nothing}
    BY ModuleNames DEF BindInv, LoadInv, RingInv
  <2>2. ASSUME NEW m \in Modules
        PROVE  /\ Len(types[m]) <= Len(TypesOf(m))
               /\ \A i \in 1..Len(types[m]) : types[m][i] \in Record /\ types[m][i][2] = TypesOf(m)[i]
    BY DEF BindInv, LoadInv, TablesInv
  <2>3. ASSUME NEW r \in Record PROVE ToSet(casts[r]) \subseteq Record
    <3>1. casts[r] \in Seq(Record)
      BY DEF BindInv, CastInv
    <3>. QED
      BY <3>1 DEF ToSet
  <2>4. boot.module \in Modules \cup {Nothing} /\ boot.type \in Record \cup {NoRecord}
    BY DEF BindInv, LoadInv, BootInv
  <2>. QED
    BY <2>1, <2>2, <2>3, <2>4 DEF TypeOK, IntInv, CallTypes
<1>. QED
  BY <1>1, CastInit, CastInductive, CallInit, CallInductive, PTL DEF Spec

(* What the call of a wrapper that wants a robot comes to. *)
LEMMA WrapCalled ==
  ASSUME BindInv, NEW f \in DOMAIN Commands, NEW items, NEW v, Wrap(f, items, v)
  PROVE  RobotCalled
<1> DEFINE r == types["Robotc"][3]
<1>. SUFFICES ASSUME Commands[f] = "robot"
     PROVE  call'.out = "called" <=>
              /\ items = 1
              /\ v.kind = "undef" \/ (v.kind = "object" /\ v.class \in Declared("_p_robot"))
  <2>1. call'.to = f /\ call'.items = items /\ call'.arg = v
    BY DEF Wrap
  <2>. QED
    BY <2>1 DEF RobotCalled
<1>1. ~Booting /\ "Robotc" \in Ring
  BY DEF Wrap
<1>2. casts[r] \in Seq(Record) /\ Names(casts[r]) = Declared("_p_robot")
  BY <1>1, RobotRecord
<1>3. Place(casts[r], v.class) # 0 <=> v.class \in Declared("_p_robot")
  <2>1. \A n \in 1..Len(casts[r]) : n # 0
    BY <1>2
  <2>2. IF v.class \in Declared("_p_robot") THEN Place(casts[r], v.class) \in 1..Len(casts[r])
        ELSE Place(casts[r], v.class) = 0
    BY <1>2, PlaceFound
  <2>. QED
    BY <2>1, <2>2
<1>4. call'.out = IF items = 1 /\ Converts("robot", v) THEN "called" ELSE "croak"
  BY DEF Wrap
<1>5. Converts("robot", v) <=> v.kind = "undef" \/ (v.kind = "object" /\ Place(casts[r], v.class) # 0)
  BY DEF Converts, ConvertPtr
<1>. QED
  BY <1>3, <1>4, <1>5

(* A function that wants a robot is called for undef and for an object of  *)
(* a class declared to cast into it, always, and for nothing else.         *)
THEOREM CalledAsDeclaredCorrect == Spec => CalledAsDeclared
<1>1. BindInv /\ [Next]_vars => [RobotCalled]_vars
  <2> SUFFICES ASSUME BindInv, Next PROVE RobotCalled
    OBVIOUS
  <2>1. CASE Boot
    <3>1. call' = NoCall \/ call' = call
      BY <2>1, BootQuiet
    <3>2. NoCall.to \notin DOMAIN Commands
      BY DEF NoCall, Commands, Nothing
    <3>. QED
      BY <3>1, <3>2 DEF RobotCalled
  <2>2. ASSUME NEW v, SetSpi(v) PROVE RobotCalled
    <3>1. call'.to = "spi"
      BY <2>2 DEF SetSpi
    <3>2. "spi" \notin DOMAIN Commands
      BY DEF Commands
    <3>. QED
      BY <3>1, <3>2 DEF RobotCalled
  <2>. QED
    BY <2>1, <2>2, WrapCalled DEF Next
<1>. QED
  BY <1>1, CastInit, CastInductive, PTL DEF Spec, CalledAsDeclared
=============================================================================
