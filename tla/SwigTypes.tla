----------------------------- MODULE SwigTypes -----------------------------
(***************************************************************************)
(* The Perl binding: robot_wrap.c, which SWIG generated from an older      *)
(* robot.c.  A Perl program may load several SWIG modules in any order;    *)
(* they share their type records, so what a function of Robotc accepts     *)
(* depends on which modules were loaded and in which order.                *)
(*                                                                         *)
(* Each module brings static records, one per type it uses, and for each a *)
(* static array of the types that cast into it.  Loading links the modules *)
(* into a ring, takes the record of a type another module has registered   *)
(* in place of its own, and adds the casts to the record's list.           *)
(*                                                                         *)
(* One interpreter; no module of this kind sets clientdata, so an object's *)
(* class is its type's mangled name.  Numbers are in quarters: enough for  *)
(* every way of rounding a fraction.                                       *)
(***************************************************************************)
EXTENDS Integers, FiniteSets, SequencesExt

CONSTANTS
  Others,      (* the other SWIG modules the Perl program may load          *)
  OtherTypes,  (* their types, in the order of their tables                 *)
  OtherCasts,  (* for each of these types, the types that cast into it      *)
  IntMax,      (* INT_MAX                                                   *)
  LongMax,     (* LONG_MAX                                                  *)
  DoubleMax,   (* LONG_MAX as a double: one more where long has 64 bits     *)
  Quarters     (* the numbers, in quarters, that Perl passes                *)

ASSUME SwigAssumption ==
  /\ IsFiniteSet(Others) /\ Others \cap {"Robotc", "none"} = {}
  /\ IntMax \in Nat /\ LongMax \in Nat /\ IntMax <= LongMax
  /\ DoubleMax \in {LongMax, LongMax + 1}
  /\ IntMax = LongMax => DoubleMax = LongMax
  /\ Quarters \subseteq Int

(* The tables are static and SWIG generates them sorted, for the binary    *)
(* search of SWIG_MangledTypeQueryModule: a type is there once, and what   *)
(* casts into it are types of the same table, each named once.             *)
ASSUME TableAssumption ==
  \A m \in Others :
    /\ OtherTypes[m] \in Seq(STRING) /\ IsInjective(OtherTypes[m])
    /\ \A n \in ToSet(OtherTypes[m]) :
         /\ OtherCasts[m][n] \in Seq(ToSet(OtherTypes[m]))
         /\ IsInjective(OtherCasts[m][n])

VARIABLES
  next,    \* the ring of loaded modules: swig_module.next of each
  head,    \* the module the interpreter's type_pointer names
  types,   \* swig_module.types: the record of each type, as far as loaded
  casts,   \* the cast list of each record
  boot,    \* the call of SWIG_InitializeModule that is under way
  call     \* the last call of a wrapper, and what came of it

vars == <<next, head, types, casts, boot, call>>

Modules == Others \cup {"Robotc"}

RobotTypes == <<"_p_char", "_p_int16_t", "_p_robot", "_p_void">>

(* swig_type_initial and swig_cast_initial of each module. *)
TypesOf(m) == IF m = "Robotc" THEN RobotTypes ELSE OtherTypes[m]
CastsOf(m, n) == IF m = "Robotc" THEN <<n>> ELSE OtherCasts[m][n]

TypeNames == UNION {ToSet(TypesOf(m)) : m \in Modules}
Record == {<<m, n>> : m \in Modules, n \in TypeNames}
Nothing == "none"
NoRecord == <<Nothing, Nothing>>

Commands ==
  [initRobot |-> "none", robotToString |-> "none", robotDebug |-> "none",
   updateRobotState |-> "pointer", getRobotIR |-> "robot", getRobotAcc |-> "robot",
   getRobotSteps |-> "robot", waitWhileCrowded |-> "robot", waitForRandDecay |-> "int",
   closeRobot |-> "none"]

(* The objects Perl may get from the functions of a module: no function of *)
(* Robotc returns a robot.                                                 *)
Returned(m) == IF m = "Robotc" THEN {"_p_int16_t", "_p_void"} ELSE ToSet(OtherTypes[m])

Ring == {m \in Modules : next[m] # Nothing}
Booting == boot.module # Nothing
Known == IF Booting THEN Ring \ {boot.module} ELSE Ring

(* What Perl may pass: undef, a reference to no object, an object, text    *)
(* that is no number, and numbers: integers, which may be unsigned and     *)
(* reach up to ULONG_MAX, floats, and text in decimal, after a leading 0   *)
(* ("octal": its digits are still those of the decimal number) or after 0x.*)
Scalar(k, c, q) == [kind |-> k, class |-> c, quarters |-> q]
Undef == Scalar("undef", Nothing, 0)

Numbers ==
  {Undef, Scalar("junk", Nothing, 0)}
    \cup {Scalar(k, Nothing, q) : k \in {"float", "text"}, q \in Quarters}
    \cup {Scalar(k, Nothing, q) : k \in {"octal", "hex"}, q \in {p \in Quarters : p % 4 = 0}}
    \cup {Scalar("int", Nothing, q) :
            q \in {p \in Quarters : p % 4 = 0 /\ p \div 4 \in -LongMax - 1..2 * LongMax + 1}}

Pointers ==
  {Undef, Scalar("ref", Nothing, 0), Scalar("int", Nothing, 4)}
    \cup {Scalar("object", c, 0) : c \in UNION {Returned(m) : m \in Known}}

Arguments(want, items) ==
  IF items # 1 \/ want = "none" THEN {Undef}
  ELSE IF want = "int" THEN Numbers ELSE Pointers

NoCall == [to |-> Nothing, items |-> 0, arg |-> Undef,
           out |-> "none", value |-> 0]

Idle == [module |-> Nothing, type |-> NoRecord, cast |-> 1]

TypeOK ==
  /\ next \in [Modules -> Modules \cup {Nothing}]
  /\ head \in Modules \cup {Nothing}
  /\ \A m \in Modules :
       /\ Len(types[m]) <= Len(TypesOf(m))
       /\ \A i \in 1..Len(types[m]) : types[m][i] \in Record /\ types[m][i][2] = TypesOf(m)[i]
  /\ \A r \in Record : ToSet(casts[r]) \subseteq Record
  /\ boot.module \in Modules \cup {Nothing} /\ boot.type \in Record \cup {NoRecord}
  /\ call.to \in DOMAIN Commands \cup {"spi", Nothing}
  /\ call.out \in {"none", "croak", "called"} /\ call.value \in -IntMax - 1..IntMax

Init ==
  /\ next = [m \in Modules |-> Nothing]
  /\ head = Nothing
  /\ types = [m \in Modules |-> <<>>]
  /\ casts = [r \in Record |-> <<>>]
  /\ boot = Idle
  /\ call = NoCall

-----------------------------------------------------------------------------
(* Hop(m)[k]: the module k steps round the ring from m. *)
Hop(m) ==
  LET hop[k \in 0..Cardinality(Modules)] == IF k = 0 THEN m ELSE next[hop[k - 1]]
  IN  hop

(* Faulty: only the next module is asked. *)
MangledTypeQueryNear(m, n) ==
  LET near == next[m] IN
  IF near = m \/ n \notin ToSet(TypesOf(near)) THEN NoRecord
  ELSE types[near][CHOOSE i \in DOMAIN types[near] : TypesOf(near)[i] = n]

(* The record under which another module of the ring has registered n. *)
MangledTypeQuery(m, n) ==
  LET hop == Hop(m)
      found == {k \in 1..Cardinality(Modules) :
                  /\ n \in ToSet(TypesOf(hop[k]))
                  /\ \A j \in 1..k : hop[j] # m}
      owner == hop[Min(found)]
  IN
  IF found = {} THEN NoRecord
  ELSE types[owner][CHOOSE i \in DOMAIN types[owner] : TypesOf(owner)[i] = n]

(* The place of the first entry of a cast list whose type has the name n.  *)
Place(list, n) == SelectInSeq(list, LAMBDA r : r[2] = n)

(* Faulty: the entries before the one that moves are lost. *)
ToFrontLosing(list, i) == SubSeq(list, i, Len(list))

ToFront(list, i) == <<list[i]>> \o RemoveAt(list, i)

(* TypeCheck: the entry that is found is moved to the front of its list.   *)
TypeCheck(r, n) ==
  LET i == Place(casts[r], n)
  IN  IF i = 0 THEN casts ELSE [casts EXCEPT ![r] = ToFront(@, i)]

-----------------------------------------------------------------------------
(* SWIG_InitializeModule(m).  The first module becomes the head. *)
FirstModule(m) ==
  /\ head = Nothing
  /\ head' = m
  /\ next' = [next EXCEPT ![m] = m]

(* Faulty: the ring is not closed behind the new module. *)
NextModuleLoose(m) ==
  /\ head # Nothing /\ m \notin {Hop(head)[k] : k \in 0..Cardinality(Modules)}
  /\ next' = [next EXCEPT ![m] = m, ![head] = m]
  /\ UNCHANGED head

(* A later one is put after the head. *)
NextModule(m) ==
  /\ head # Nothing /\ m \notin {Hop(head)[k] : k \in 0..Cardinality(Modules)}
  /\ next' = [next EXCEPT ![m] = next[head], ![head] = m]
  /\ UNCHANGED head

InitializeModule(m) ==
  /\ ~Booting
  /\ FirstModule(m) \/ NextModule(m)
  /\ boot' = [Idle EXCEPT !.module = m]
  /\ call' = NoCall
  /\ UNCHANGED <<types, casts>>

(* A module the ring has already is left as it is. *)
BootAgain(m) ==
  /\ ~Booting /\ head # Nothing
  /\ \E k \in 0..Cardinality(Modules) : Hop(head)[k] = m
  /\ UNCHANGED vars

(* The next type: the record another module registered, or the own one. *)
TakeType ==
  LET m == boot.module
      i == Len(types[m]) + 1
      loaded == MangledTypeQuery(m, TypesOf(m)[i])
  IN
  /\ Booting /\ boot.type = NoRecord /\ i <= Len(TypesOf(m))
  /\ boot' = [module |-> m, cast |-> 1,
               type |-> IF loaded = NoRecord THEN <<m, TypesOf(m)[i]>> ELSE loaded]
  /\ UNCHANGED <<next, head, types, casts, call>>

(* Faulty: what both modules know is taken to be in the list. *)
AddCastKnown ==
  LET m == boot.module
      list == CastsOf(m, boot.type[2])
      n == list[boot.cast]
      loaded == MangledTypeQuery(m, n)
      own == boot.type[1] = m
  IN
  /\ Booting /\ boot.type # NoRecord /\ boot.cast <= Len(list)
  /\ casts' = CASE loaded = NoRecord -> [casts EXCEPT ![boot.type] = <<<<m, n>>>> \o @]
               [] loaded # NoRecord /\ own -> [casts EXCEPT ![boot.type] = <<loaded>> \o @]
               [] OTHER -> casts
  /\ boot' = [boot EXCEPT !.cast = @ + 1]
  /\ UNCHANGED <<next, head, types, call>>

(* The next cast of its array.  Three cases: its type is not registered;   *)
(* it is, and the list is the module's own; both are another module's.  In *)
(* the last one the list may have it; if not it is added as it stands,     *)
(* with the module's own record for a type that has another one.           *)
AddCast ==
  LET m == boot.module
      list == CastsOf(m, boot.type[2])
      n == list[boot.cast]
      loaded == MangledTypeQuery(m, n)
      own == boot.type[1] = m
  IN
  /\ Booting /\ boot.type # NoRecord /\ boot.cast <= Len(list)
  /\ \/ /\ loaded # NoRecord /\ ~own /\ Place(casts[boot.type], n) # 0
        /\ casts' = TypeCheck(boot.type, n)
     \/ /\ loaded = NoRecord \/ own \/ Place(casts[boot.type], n) = 0
        /\ casts' = [casts EXCEPT ![boot.type] =
                        <<IF loaded # NoRecord /\ own THEN loaded ELSE <<m, n>>>> \o @]
  /\ boot' = [boot EXCEPT !.cast = @ + 1]
  /\ UNCHANGED <<next, head, types, call>>

(* Faulty: the type goes on being current. *)
SetTypeAgain ==
  LET m == boot.module IN
  /\ Booting /\ boot.type # NoRecord /\ boot.cast > Len(CastsOf(m, boot.type[2]))
  /\ types' = [types EXCEPT ![m] = Append(@, boot.type)]
  /\ UNCHANGED <<next, head, casts, boot, call>>

(* swig_module.types[i] = type *)
SetType ==
  LET m == boot.module IN
  /\ Booting /\ boot.type # NoRecord /\ boot.cast > Len(CastsOf(m, boot.type[2]))
  /\ types' = [types EXCEPT ![m] = Append(@, boot.type)]
  /\ boot' = [boot EXCEPT !.type = NoRecord]
  /\ UNCHANGED <<next, head, casts, call>>

(* SWIG_init installs the commands and the variable spi. *)
Install ==
  /\ Booting /\ boot.type = NoRecord
  /\ Len(types[boot.module]) = Len(TypesOf(boot.module))
  /\ boot' = Idle
  /\ UNCHANGED <<next, head, types, casts, call>>

-----------------------------------------------------------------------------
(* Conversions return a sequence: empty for an error, else the value.      *)

(* SWIG_CanCastAsInteger on a double of q quarters, then (long).  It means *)
(* to let rounding errors pass, and compares diff / (rd + x) with them,    *)
(* which is negative for every negative fraction.  A double of LONG_MAX    *)
(* plus one becomes LONG_MIN on the processors this runs on.               *)
CanCastAsInteger(q) ==
  LET fx == q \div 4
      rd == IF q - 4 * fx < 2 THEN fx ELSE fx + 1
  IN
  IF 4 * (-LongMax - 1) > q \/ q > 4 * DoubleMax THEN <<>>
  ELSE IF q % 4 # 0 /\ 4 * rd + q >= 0 THEN <<>>
  ELSE <<IF rd > LongMax THEN -LongMax - 1 ELSE rd>>

(* strtol in base 0 on a 0 and the decimal digits of n: whether it reads   *)
(* them to the end, and as what.                                           *)
OctalDigits[n \in Nat] == (n % 10) < 8 /\ (n < 10 \/ OctalDigits[n \div 10])
OctalValue[n \in Nat] == IF n = 0 THEN 0 ELSE 8 * OctalValue[n \div 10] + (n % 10)

ReadAsOctal(v) ==
  LET n == v.quarters \div 4
  IN  v.kind = "octal" /\ OctalDigits[IF n < 0 THEN -n ELSE n]

Octal(n) == IF n < 0 THEN -OctalValue[-n] ELSE OctalValue[n]

(* SWIG_AsVal_long: of an integer SvIV, which wraps the unsigned ones; else*)
(* what strtol makes of the text, if it reads it to its end (no text at all*)
(* is 0), which out of range is an error; else SWIG_AsVal_double.          *)
AsValLong(v) ==
  LET q == v.quarters
      n == IF ReadAsOctal(v) THEN Octal(q \div 4) ELSE q \div 4
      fits == -LongMax - 1 <= n /\ n <= LongMax
      whole == q % 4 = 0 /\ (v.kind = "octal" => ReadAsOctal(v))
  IN
  CASE v.kind = "undef" -> <<0>>
    [] v.kind \in {"junk", "ref", "object"} -> <<>>
    [] v.kind = "int" -> <<IF fits THEN n ELSE n - 2 * (LongMax + 1)>>
    [] v.kind \in {"float", "text", "octal", "hex"} /\ whole /\ fits -> <<n>>
    [] (v.kind \in {"text", "hex"} \/ ReadAsOctal(v)) /\ ~fits -> <<>>
    [] OTHER -> CanCastAsInteger(q)

(* Faulty: the long is cut to an int. *)
AsValIntCut(v) ==
  LET w == 2 * (IntMax + 1)
      got == AsValLong(v)
  IN
  IF got = <<>> THEN <<>> ELSE <<((got[1] + IntMax + 1) % w) - IntMax - 1>>

(* SWIG_AsVal_int: a long out of the range of int is an error. *)
AsValInt(v) ==
  LET got == AsValLong(v)
  IN  IF got # <<>> /\ got[1] \in -IntMax - 1..IntMax THEN got ELSE <<>>

(* SWIG_ConvertPtr: undef is NULL; else it takes an object, for a robot    *)
(* one whose class is in the cast list of the record of robot.             *)
ConvertPtr(v, robot) ==
  \/ v.kind = "undef"
  \/ v.kind = "object" /\ (robot => Place(casts[types["Robotc"][3]], v.class) # 0)

Converts(want, v) ==
  CASE want = "int" -> AsValInt(v) # <<>>
    [] want = "none" -> TRUE
    [] OTHER -> ConvertPtr(v, want = "robot")

(* A wrapper: the number of arguments, then the conversion of the one, and *)
(* only then the function.  What it returns leaves the tables alone.       *)
Wrap(f, items, v) ==
  LET want == Commands[f]
      arity == IF want = "none" THEN 0 ELSE 1
      called == items = arity /\ Converts(want, v)
  IN
  /\ ~Booting /\ "Robotc" \in Ring
  /\ call' = [to |-> f, items |-> items, arg |-> v,
               out |-> IF called THEN "called" ELSE "croak",
               value |-> IF called /\ want = "int" THEN AsValInt(v)[1] ELSE 0]
  /\ casts' = IF items = 1 /\ want = "robot" /\ v.kind = "object"
              THEN TypeCheck(types["Robotc"][3], v.class) ELSE casts
  /\ UNCHANGED <<next, head, types, boot>>

(* $spi = v: the setter stores the int, or sets $@ and stores nothing.     *)
SetSpi(v) ==
  LET got == AsValInt(v) IN
  /\ ~Booting /\ "Robotc" \in Ring
  /\ call' = [to |-> "spi", items |-> 1, arg |-> v,
               out |-> IF got = <<>> THEN "croak" ELSE "called",
               value |-> IF got = <<>> THEN 0 ELSE got[1]]
  /\ UNCHANGED <<next, head, types, casts, boot>>

Boot ==
  \/ \E m \in Modules : InitializeModule(m) \/ BootAgain(m)
  \/ TakeType \/ AddCast \/ SetType \/ Install

Next ==
  \/ Boot
  \/ \E f \in DOMAIN Commands, items \in 0..2 :
       \E v \in Arguments(Commands[f], items) : Wrap(f, items, v)
  \/ \E v \in Numbers : SetSpi(v)

Spec == Init /\ [][Next]_vars

-----------------------------------------------------------------------------
(* The ring links every loaded module and no other, from wherever a walk   *)
(* over it starts (the walks of SWIG_InitializeModule end nowhere else).   *)
RingClosed ==
  \A m \in Ring : {Hop(m)[k] : k \in 1..Cardinality(Ring)} = Ring

(* Whatever the order of loading, modules that know a type use one record  *)
(* of it, or a pointer one of them made would be foreign to the other.     *)
OneRecordPerType ==
  \A m, l \in Modules : \A i \in DOMAIN types[m], j \in DOMAIN types[l] :
    TypesOf(m)[i] = TypesOf(l)[j] => types[m][i] = types[l][j]

(* The types that cast into n according to the modules loaded. *)
Declared(n) ==
  UNION {ToSet(CastsOf(m, n)) : m \in {l \in Known : n \in ToSet(TypesOf(l))}}

(* Whatever the order of loading, and however the searches have shuffled   *)
(* the list since, it holds each cast some loaded module declares, once.   *)
CastsDeclared ==
  ~Booting => \A m \in Ring : \A r \in ToSet(types[m]) :
    /\ {t[2] : t \in ToSet(casts[r])} = Declared(r[2])
    /\ Len(casts[r]) = Cardinality(Declared(r[2]))

(* A step that calls a function that wants a robot. *)
RobotCalled ==
  call' # call /\ call'.to \in {f \in DOMAIN Commands : Commands[f] = "robot"} =>
    (call'.out = "called") =
      /\ call'.items = 1
      /\ \/ call'.arg.kind = "undef"
         \/ call'.arg.kind = "object" /\ call'.arg.class \in Declared("_p_robot")

(* A function that wants a robot is called for undef and for an object of  *)
(* a class declared to cast into it, always, and for nothing else.         *)
CalledAsDeclared == [][RobotCalled]_vars

(* A number that arrives in C is the one Perl had, with three exceptions:  *)
(* a negative fraction is rounded to the nearest integer, digits after a   *)
(* leading 0 are octal where C can read them so, and an integer above      *)
(* LONG_MAX arrives as the negative one that many below zero.              *)
IntAsWritten ==
  /\ call.out = "called" /\ call.arg.kind \in {"int", "float", "text", "octal", "hex"}
  /\ call.to = "spi" \/ (call.to \in DOMAIN Commands /\ Commands[call.to] = "int")
  =>
    LET q == call.arg.quarters
        off == 4 * call.value - q
    IN  \/ off = 0
        \/ call.arg.kind \in {"float", "text"} /\ q < 0 /\ off \in -2..2
        \/ ReadAsOctal(call.arg) /\ call.value = Octal(q \div 4)
        \/ call.arg.kind = "int" /\ q > 4 * LongMax /\ off = -8 * (LongMax + 1)
=============================================================================
