--------------------------- MODULE SpiFrameProofs ---------------------------
(***************************************************************************)
(* Proofs about SpiFrame, for any set of threads, any speeds and any       *)
(* number of calls.                                                        *)
(***************************************************************************)
EXTENDS SpiFrame, TLAPS

Words == Wheels \cup {"cmd"}

Places == {"idle", "fill", "fill_cmd", "ioctl", "refill", "led", "led_store", "ir", "closed"}

Types ==
  /\ cmd \subseteq Bits
  /\ motor \in [Wheels -> Speeds]
  /\ pc \in [Threads -> Places]
  /\ stage \in [Threads -> {"drive", "stop", "reset"}]
  /\ todo \in [Threads -> SUBSET Words]
  /\ DOMAIN temp = Threads /\ temp = [t \in Threads |-> temp[t]]
  /\ DOMAIN arg = Threads /\ arg = [t \in Threads |-> arg[t]]
  /\ \A t \in Threads : pc[t] \in {"fill", "fill_cmd", "ioctl"} => arg[t] \in [Wheels -> Speeds]
  /\ \A t \in Threads : pc[t] = "fill_cmd" => temp[t] \subseteq Bits

(* What the place of one thread tells about the words it has stored.       *)
Local(t) ==
  /\ pc[t] \in {"idle", "led", "led_store", "ir"} => stage[t] = "drive"
  /\ pc[t] = "fill_cmd" => "cmd" \in todo[t]
  /\ pc[t] \in {"ioctl", "refill", "closed"} => todo[t] = {}
  /\ pc[t] = "closed" => stage[t] = "reset"
  /\ stage[t] = "stop" => arg[t] = AtRest
  /\ stage[t] = "reset" => todo[t] \subseteq {"cmd"}

(* set_motor, once stored, is in the word and in every stale copy of it    *)
(* that will be stored without adding it.                                  *)
HasDriven(t) == stage[t] = "reset" \/ (pc[t] \in {"fill", "ioctl", "refill"} /\ "cmd" \notin todo[t])

MotorBitKept ==
  \A t \in Threads :
    /\ HasDriven(t) => "set_motor" \in cmd
    /\ pc[t] = "fill_cmd" /\ stage[t] = "reset" => "set_motor" \in temp[t]

HasReset(t) == stage[t] = "reset" /\ "cmd" \notin todo[t]

HasStopped(t, w) == stage[t] = "reset" \/ (stage[t] = "stop" /\ w \notin todo[t])

(* A word that every thread has stored for the last time holds what        *)
(* closeRobot stores: whoever stored last was in closeRobot too.           *)
LastStores ==
  /\ (\A t \in Threads : HasReset(t)) => "reset" \in cmd
  /\ \A w \in Wheels : (\A t \in Threads : HasStopped(t, w)) => motor[w] = 0

(* The last transfer of all, while its words still arrive and after.       *)
Returning(t) == pc[t] = "closed" \/ (pc[t] = "refill" /\ stage[t] = "reset")

LastTransfer ==
  (\A t \in Threads : Returning(t)) /\ delivered => dsPIC = [motor |-> AtRest, reset |-> TRUE]

FrameInv ==
  Types /\ (\A t \in Threads : Local(t)) /\ MotorBitKept /\ LastStores /\ LastTransfer

LEMMA InitInv == Init => FrameInv
<1> SUFFICES ASSUME Init PROVE FrameInv
  OBVIOUS
<1>1. Types
  BY FrameAssumption DEF Init, Types, Places, AtRest, Words
<1>2. \A t \in Threads : Local(t) /\ ~HasDriven(t) /\ ~HasReset(t) /\ pc[t] = "idle"
                         /\ \A w \in Wheels : ~HasStopped(t, w)
  BY DEF Init, Local, HasDriven, HasReset, HasStopped
<1>. QED
  BY <1>1, <1>2, FrameAssumption DEF FrameInv, MotorBitKept, LastStores, LastTransfer, Returning

(* Steps that store no word of the frame: t starts a call, loads, or       *)
(* copies.                                                                 *)
LEMMA QuietStep ==
  ASSUME FrameInv, NEW t \in Threads,
         LoadCmd(t) \/ Clear(t) \/ Refill(t) \/ LoadLed(t) \/ CallGetIr(t) \/ CopyIr(t)
  PROVE  FrameInv'
<1> USE DEF frameVars, linkVars
<1>1. Types'
  BY DEF FrameInv, Types, Places, LoadCmd, Clear, Refill, LoadLed, CallGetIr, CopyIr, Call
<1>2. UNCHANGED <<cmd, motor, stage, todo, arg, delivered, dsPIC>>
  BY DEF LoadCmd, Clear, Refill, LoadLed, CallGetIr, CopyIr
<1>3. \A u \in Threads : u # t => pc'[u] = pc[u] /\ temp'[u] = temp[u]
  BY DEF FrameInv, Types, LoadCmd, Clear, Refill, LoadLed, CallGetIr, CopyIr, Call
<1>4. \/ pc[t] = "fill" /\ pc'[t] = "fill_cmd" /\ "cmd" \in todo[t] /\ temp'[t] = cmd
      \/ pc[t] = "fill" /\ pc'[t] = "ioctl" /\ todo[t] = {} /\ temp'[t] = temp[t]
      \/ pc[t] = "refill" /\ pc'[t] = "refill" /\ UNCHANGED temp
      \/ pc[t] \in {"idle", "led", "ir"} /\ pc'[t] \in {"idle", "led", "led_store", "ir"}
  BY DEF FrameInv, Types, LoadCmd, Clear, Refill, LoadLed, CallGetIr, CopyIr, Call
<1>5. \A u \in Threads : Local(u)'
  BY <1>2, <1>3, <1>4 DEF FrameInv, Local
<1>6. MotorBitKept'
  BY <1>2, <1>3, <1>4 DEF FrameInv, Local, MotorBitKept, HasDriven
<1>7. LastStores'
  BY <1>2 DEF FrameInv, LastStores, HasReset, HasStopped
<1>8. LastTransfer'
  <2>1. \A u \in Threads : Returning(u)' => Returning(u)
    BY <1>2, <1>3, <1>4 DEF Returning
  <2>. QED
    BY <1>2, <2>1 DEF FrameInv, LastTransfer
<1>. QED
  BY <1>1, <1>5, <1>6, <1>7, <1>8 DEF FrameInv

(* A call begins: the thread is no longer among those that have made their *)
(* last stores.                                                            *)
LEMMA BeginStep ==
  ASSUME FrameInv, NEW t \in Threads,
         \/ \E speeds \in [Wheels -> Speeds] : Drive(t, speeds)
         \/ Close(t)
         \/ \E led \in Leds, on \in BOOLEAN : CallSetLED(t, led, on)
         \/ StoreLed(t)
  PROVE  FrameInv'
<1> USE DEF frameVars, linkVars
<1>1. Types'
  <2>1. AtRest \in [Wheels -> Speeds]
    BY FrameAssumption DEF AtRest
  <2>2. CASE \E speeds \in [Wheels -> Speeds] : Drive(t, speeds)
    <3>1. PICK speeds \in [Wheels -> Speeds] : Drive(t, speeds)
      BY <2>2
    <3>2. pc' \in [Threads -> Places]
      BY <3>1 DEF FrameInv, Types, Drive, Begin, Places
    <3>. QED
      BY <3>1, <3>2 DEF FrameInv, Types, Drive, Begin, Words
  <2>3. CASE Close(t)
    BY <2>1, <2>3 DEF FrameInv, Types, Close, Begin, Words, Places
  <2>4. CASE StoreLed(t) \/ \E led \in Leds, on \in BOOLEAN : CallSetLED(t, led, on)
    BY <2>4 DEF FrameInv, Types, StoreLed, CallSetLED, Call, Places
  <2>. QED
    BY <2>2, <2>3, <2>4
<1>2. UNCHANGED <<cmd, motor, delivered, dsPIC>>
  BY DEF Drive, Close, CallSetLED, StoreLed
<1>3. \A u \in Threads : u # t => /\ pc'[u] = pc[u] /\ stage'[u] = stage[u]
                                  /\ todo'[u] = todo[u] /\ arg'[u] = arg[u]
                                  /\ temp'[u] = temp[u]
  BY DEF FrameInv, Types, Drive, Close, CallSetLED, StoreLed, Begin
<1>4. \/ pc'[t] = "fill" /\ stage'[t] = "drive" /\ todo'[t] = Words
      \/ pc'[t] = "fill" /\ stage'[t] = "stop" /\ todo'[t] = Words /\ arg'[t] = AtRest
      \/ /\ pc[t] \in {"idle", "led_store"} /\ pc'[t] \in {"idle", "led"}
         /\ UNCHANGED <<stage, todo>>
  BY DEF FrameInv, Types, Drive, Close, CallSetLED, StoreLed, Call, Begin, Words
<1>5. Local(t)' /\ ~HasDriven(t)' /\ ~HasReset(t)' /\ \A w \in Wheels : ~HasStopped(t, w)'
  BY <1>4 DEF FrameInv, Local, HasDriven, HasReset, HasStopped, Words
<1>6. \A u \in Threads : u # t => Local(u)'
  BY <1>3 DEF FrameInv, Local
<1>7. MotorBitKept'
  <2>1. \A u \in Threads : u # t => (HasDriven(u)' <=> HasDriven(u))
    BY <1>3 DEF HasDriven
  <2>2. ~(pc'[t] = "fill_cmd")
    BY <1>4
  <2>. QED
    BY <1>2, <1>3, <1>5, <2>1, <2>2 DEF FrameInv, MotorBitKept
<1>8. LastStores'
  BY <1>5 DEF LastStores
<1>9. LastTransfer'
  BY <1>4 DEF LastTransfer, Returning
<1>. QED
  BY <1>1, <1>5, <1>6, <1>7, <1>8, <1>9 DEF FrameInv

(* The store of a command bit over whatever the others have set since.     *)
LEMMA StoreCmdStep ==
  ASSUME FrameInv, NEW t \in Threads, StoreCmd(t)
  PROVE  FrameInv'
<1>1. /\ UNCHANGED <<motor, stage, arg, delivered, dsPIC>>
      /\ pc[t] = "fill_cmd" /\ pc'[t] = "fill"
      /\ todo'[t] = todo[t] \ {"cmd"}
      /\ \A u \in Threads : u # t => pc'[u] = pc[u] /\ todo'[u] = todo[u]
                                  /\ temp'[u] = temp[u]
  BY DEF FrameInv, Types, StoreCmd, linkVars
<1>2. "set_motor" \in cmd' /\ (stage[t] = "reset" => "reset" \in cmd')
  BY DEF FrameInv, Types, MotorBitKept, StoreCmd
<1>3. Types'
  <2>1. cmd' \subseteq Bits
    BY DEF FrameInv, Types, StoreCmd, Bits
  <2>. QED
    BY <2>1, <1>1 DEF FrameInv, Types, StoreCmd, Places
<1>4. \A u \in Threads : Local(u)'
  BY <1>1 DEF FrameInv, Local
<1>5. MotorBitKept'
  BY <1>1, <1>2 DEF FrameInv, MotorBitKept, HasDriven
<1>6. LastStores'
  <2>1. \A u \in Threads, w \in Wheels : HasStopped(u, w)' <=> HasStopped(u, w)
    BY <1>1 DEF HasStopped, Wheels
  <2>2. ASSUME \A u \in Threads : HasReset(u)' PROVE "reset" \in cmd'
    BY <1>1, <1>2, <2>2 DEF HasReset
  <2>. QED
    BY <1>1, <2>1, <2>2 DEF FrameInv, LastStores
<1>7. LastTransfer'
  BY <1>1 DEF LastTransfer, Returning
<1>. QED
  BY <1>3, <1>4, <1>5, <1>6, <1>7 DEF FrameInv

(* The store of a speed: a thread that is not closing has not made its     *)
(* last one, and one that is stores a zero.                                *)
LEMMA StoreWheelStep ==
  ASSUME FrameInv, NEW t \in Threads, NEW v \in Wheels, StoreWheel(t, v)
  PROVE  FrameInv'
<1>1. /\ UNCHANGED <<cmd, pc, stage, temp, arg, delivered, dsPIC>>
      /\ pc[t] \in {"fill", "fill_cmd"} /\ v \in todo[t]
      /\ todo'[t] = todo[t] \ {v}
      /\ \A u \in Threads : u # t => todo'[u] = todo[u]
  BY DEF FrameInv, Types, StoreWheel, linkVars
<1>2. motor' = [motor EXCEPT ![v] = arg[t][v]] /\ arg[t] \in [Wheels -> Speeds]
  BY DEF FrameInv, Types, StoreWheel
<1>3. v # "cmd" /\ stage[t] # "reset"
  BY <1>1 DEF FrameInv, Local, Wheels
<1>4. Types'
  <2>1. motor' \in [Wheels -> Speeds]
    BY <1>2 DEF FrameInv, Types
  <2>2. todo' \in [Threads -> SUBSET Words]
    BY DEF FrameInv, Types, StoreWheel
  <2>. QED
    BY <1>1, <2>1, <2>2 DEF FrameInv, Types
<1>5. \A u \in Threads : Local(u)'
  BY <1>1, <1>3 DEF FrameInv, Local
<1>6. MotorBitKept'
  <2>1. \A u \in Threads : HasDriven(u)' <=> HasDriven(u)
    BY <1>1, <1>3 DEF HasDriven
  <2>. QED
    BY <1>1, <2>1 DEF FrameInv, MotorBitKept
<1>7. LastStores'
  <2>1. \A u \in Threads : HasReset(u)' <=> HasReset(u)
    BY <1>1, <1>3 DEF HasReset
  <2>2. ASSUME NEW w \in Wheels, \A u \in Threads : HasStopped(u, w)'
        PROVE  motor'[w] = 0
    <3>1. CASE w = v
      <4>1. stage[t] = "stop"
        BY <1>1, <1>3, <2>2 DEF HasStopped
      <4>2. arg[t][v] = 0
        BY <4>1 DEF FrameInv, Local, AtRest
      <4>. QED
        BY <1>2, <3>1, <4>2 DEF FrameInv, Types
    <3>2. CASE w # v
      <4>1. \A u \in Threads : HasStopped(u, w)
        BY <1>1, <2>2, <3>2 DEF HasStopped
      <4>. QED
        BY <1>2, <3>2, <4>1 DEF FrameInv, Types, LastStores
    <3>. QED
      BY <3>1, <3>2
  <2>. QED
    BY <1>1, <2>1, <2>2 DEF FrameInv, LastStores
<1>8. LastTransfer'
  BY <1>1 DEF LastTransfer, Returning, FrameInv
<1>. QED
  BY <1>4, <1>5, <1>6, <1>7, <1>8 DEF FrameInv

(* When all threads have closed but one, which has only this transfer to   *)
(* make, every word of the frame has been stored for the last time.        *)
LEMMA FrameAtRest ==
  ASSUME FrameInv, \A t \in Threads : stage[t] = "reset" /\ todo[t] = {}
  PROVE  cmd = Bits /\ motor = AtRest
<1>1. "set_motor" \in cmd
  BY FrameAssumption DEF FrameInv, MotorBitKept, HasDriven
<1>2. "reset" \in cmd
  BY DEF FrameInv, LastStores, HasReset
<1>3. \A w \in Wheels : motor[w] = 0
  BY DEF FrameInv, LastStores, HasStopped
<1>. QED
  BY <1>1, <1>2, <1>3 DEF FrameInv, Types, Bits, AtRest

(* The exchange of a frame. *)
LEMMA TransferStep ==
  ASSUME FrameInv, NEW t \in Threads, Transfer(t)
  PROVE  FrameInv'
<1>1. /\ UNCHANGED <<cmd, motor, stage, todo, temp, arg>>
      /\ pc[t] = "ioctl" /\ pc'[t] = "refill" /\ \A u \in Threads : u # t => pc'[u] = pc[u]
  BY DEF FrameInv, Types, Transfer, frameVars
<1>2. Types'
  <2>1. pc' \in [Threads -> Places]
    BY DEF FrameInv, Types, Transfer, Places
  <2>. QED
    BY <1>1, <2>1 DEF FrameInv, Types
<1>3. (\A u \in Threads : Local(u)') /\ MotorBitKept' /\ LastStores'
  <2>1. \A u \in Threads : Local(u)'
    BY <1>1 DEF FrameInv, Local
  <2>2. MotorBitKept'
    BY <1>1 DEF FrameInv, MotorBitKept, HasDriven
  <2>3. LastStores'
    BY <1>1 DEF FrameInv, LastStores, HasReset, HasStopped
  <2>. QED
    BY <2>1, <2>2, <2>3
<1>4. LastTransfer'
  <2> SUFFICES ASSUME \A u \in Threads : Returning(u)'
               PROVE  dsPIC' = [motor |-> AtRest, reset |-> TRUE]
    BY DEF LastTransfer
  <2>1. \A u \in Threads : stage[u] = "reset" /\ todo[u] = {}
    BY <1>1 DEF Returning, FrameInv, Local
  <2>2. cmd = Bits /\ motor = AtRest
    BY <2>1, FrameAtRest
  <2>. QED
    BY <2>2 DEF Transfer, Bits
<1>. QED
  BY <1>2, <1>3, <1>4 DEF FrameInv

(* The return of an ioctl: to the caller, or into reset_robot.             *)
LEMMA ReturnStep ==
  ASSUME FrameInv, NEW t \in Threads, Return(t) \/ Fail(t)
  PROVE  FrameInv'
<1>1. UNCHANGED <<cmd, motor, temp>> /\ pc[t] \in {"ioctl", "refill"} /\ todo[t] = {} /\ Continue(t)
  BY DEF Return, Fail, frameVars, FrameInv, Local
<1>2. \A u \in Threads : u # t => /\ pc'[u] = pc[u] /\ stage'[u] = stage[u]
                                  /\ todo'[u] = todo[u] /\ arg'[u] = arg[u]
  BY <1>1 DEF FrameInv, Types, Continue, Begin
<1>3. \/ /\ stage[t] = "stop" /\ stage'[t] = "reset"
         /\ pc'[t] = "fill" /\ todo'[t] = {"cmd"}
      \/ /\ stage[t] # "stop" /\ UNCHANGED <<stage, todo, arg>>
         /\ pc'[t] = IF stage[t] = "drive" THEN "idle" ELSE "closed"
  BY <1>1 DEF FrameInv, Types, Continue, Begin
<1>4. Types'
  <2>1. AtRest \in [Wheels -> Speeds]
    BY FrameAssumption DEF AtRest
  <2>2. CASE stage[t] = "stop"
    <3>1. Begin(t, "reset", {"cmd"}, AtRest)
      BY <1>1, <2>2 DEF Continue
    <3>2. pc' \in [Threads -> Places]
      BY <3>1 DEF FrameInv, Types, Begin, Places
    <3>3. stage' \in [Threads -> {"drive", "stop", "reset"}]
      BY <3>1 DEF FrameInv, Types, Begin
    <3>4. todo' \in [Threads -> SUBSET Words]
      BY <3>1 DEF FrameInv, Types, Begin, Words
    <3>5. DOMAIN arg' = Threads /\ arg' = [u \in Threads |-> arg'[u]]
      BY <3>1 DEF FrameInv, Types, Begin
    <3>6. \A u \in Threads : pc'[u] \in {"fill", "fill_cmd", "ioctl"} => arg'[u] \in [Wheels -> Speeds]
      BY <3>1, <2>1 DEF FrameInv, Types, Begin
    <3>7. \A u \in Threads : pc'[u] = "fill_cmd" => temp'[u] \subseteq Bits
      BY <3>1, <1>1 DEF FrameInv, Types, Begin
    <3>. QED
      BY <1>1, <3>2, <3>3, <3>4, <3>5, <3>6, <3>7 DEF FrameInv, Types
  <2>3. CASE stage[t] # "stop"
    BY <1>1, <2>3 DEF FrameInv, Types, Continue, Places
  <2>. QED
    BY <2>2, <2>3
<1>5. \A u \in Threads : Local(u)'
  <2>1. Local(t)'
    BY <1>1, <1>3 DEF FrameInv, Types, Local
  <2>. QED
    BY <1>2, <2>1 DEF FrameInv, Local
<1>6. MotorBitKept'
  <2>1. HasDriven(t)' => HasDriven(t)
    BY <1>1, <1>3 DEF HasDriven
  <2>2. pc'[t] # "fill_cmd"
    BY <1>3
  <2>3. \A u \in Threads : u # t => (HasDriven(u)' <=> HasDriven(u))
    BY <1>2 DEF HasDriven
  <2>. QED
    BY <1>1, <1>2, <2>1, <2>2, <2>3 DEF FrameInv, MotorBitKept
<1>7. LastStores'
  <2>1. HasReset(t)' => HasReset(t)
    BY <1>1, <1>3 DEF HasReset
  <2>2. \A w \in Wheels : HasStopped(t, w)' => HasStopped(t, w)
    BY <1>1, <1>3 DEF HasStopped
  <2>3. \A u \in Threads : u # t => (HasReset(u)' <=> HasReset(u))
    BY <1>2 DEF HasReset
  <2>4. \A u \in Threads, w \in Wheels : u # t => (HasStopped(u, w)' <=> HasStopped(u, w))
    BY <1>2 DEF HasStopped
  <2>. QED
    BY <1>1, <2>1, <2>2, <2>3, <2>4 DEF FrameInv, LastStores
<1>8. LastTransfer'
  <2> SUFFICES ASSUME \A u \in Threads : Returning(u)', delivered'
               PROVE  dsPIC' = [motor |-> AtRest, reset |-> TRUE]
    BY DEF LastTransfer
  <2>1. Return(t) /\ UNCHANGED <<dsPIC, delivered>>
    BY DEF Return, Fail, linkVars
  <2>2. Returning(t)
    BY <1>1, <1>3, <2>1 DEF Returning, Return, FrameInv, Types
  <2>3. \A u \in Threads : Returning(u)
    BY <1>2, <2>2 DEF Returning
  <2>. QED
    BY <2>1, <2>3 DEF FrameInv, LastTransfer
<1>. QED
  BY <1>4, <1>5, <1>6, <1>7, <1>8 DEF FrameInv

LEMMA Inductive == FrameInv /\ [Next]_vars => FrameInv'
<1> SUFFICES ASSUME FrameInv, [Next]_vars PROVE FrameInv'
  OBVIOUS
<1>1. CASE UNCHANGED vars
  <2>1. UNCHANGED <<cmd, motor, dsPIC, delivered, pc, stage, todo, temp, arg>>
    BY <1>1 DEF vars, frameVars, linkVars, localVars
  <2>. QED
    BY <2>1 DEF FrameInv, Types, Local, MotorBitKept, HasDriven, LastStores, HasReset,
                HasStopped, LastTransfer, Returning
<1>2. ASSUME NEW t \in Threads, ThreadStep(t) PROVE FrameInv'
  BY <1>2, QuietStep, BeginStep, StoreCmdStep, StoreWheelStep, TransferStep,
     ReturnStep DEF ThreadStep
<1>. QED
  BY <1>1, <1>2 DEF Next, Ended

(* Every frame of every thread is obeyed, whatever bits the threads undo   *)
(* of one another.                                                         *)
THEOREM FramesObeyedCorrect == Spec => []FramesObeyed
<1>1. FrameInv => FramesObeyed
  BY DEF FrameInv, Local, MotorBitKept, HasDriven, FramesObeyed
<1>. QED
  BY <1>1, InitInv, Inductive, PTL DEF Spec

(* However many threads run closeRobot at once, the last of them leaves a  *)
(* frame, and a robot, at rest.                                            *)
THEOREM ClosedTogetherCorrect == Spec => []ClosedTogether
<1>1. FrameInv => ClosedTogether
  <2> SUFFICES ASSUME FrameInv, AllClosed PROVE ClosedTogether
    BY DEF ClosedTogether
  <2>1. \A t \in Threads : stage[t] = "reset" /\ todo[t] = {}
    BY DEF AllClosed, FrameInv, Local
  <2>. QED
    BY <2>1, FrameAtRest DEF ClosedTogether, FrameInv, LastTransfer, Returning, AllClosed
<1>. QED
  BY <1>1, InitInv, Inductive, PTL DEF Spec

-----------------------------------------------------------------------------
(* A word of msgRX is cleared, or of the newest frame, or of the one       *)
(* before it while it has still to arrive: the driver's lock lets no next  *)
(* frame in until the last has arrived whole.                              *)
RxInv ==
  /\ frames \in Nat /\ arriving \subseteq 1..RxWords
  /\ ir \in [1..RxWords -> Nat]
  /\ \A j \in 1..RxWords :
       /\ ir[j] <= frames
       /\ (j <= CopyWords /\ ir[j] = 0) \/ ir[j] = frames \/ (j \in arriving /\ ir[j] = frames - 1)
  /\ (\A u \in Threads : pc[u] # "refill") => arriving = {}

GotInv ==
  /\ got \in [Threads -> Seq(Nat)]
  /\ \A t \in Threads : \A j \in 1..Len(got[t]) : got[t][j] <= frames
  /\ IrForward

LEMMA RxKept ==
  ASSUME RxInv, FrameInv, NEW t \in Threads, ThreadStep(t)
  PROVE  RxInv' /\ frames <= frames'
<1>1. CASE Clear(t) \/ Fail(t)
  <2>1. UNCHANGED <<frames, arriving>> /\ ClearRx
    BY <1>1 DEF Clear, Fail
  <2>2. \A u \in Threads : pc[u] = "refill" => pc'[u] = "refill"
    BY <1>1 DEF Clear, Fail, Continue, Begin, FrameInv, Types
  <2>. QED
    BY <2>1, <2>2, FrameAssumption DEF RxInv, ClearRx
<1>2. CASE Transfer(t)
  <2>1. arriving = {} /\ pc'[t] = "refill" /\ frames' = frames + 1 /\ arriving' = 1..RxWords /\ ir' = ir
    BY <1>2 DEF Transfer, RxInv, FrameInv, Types
  <2>. QED
    BY <2>1, FrameAssumption DEF RxInv
<1>3. CASE Refill(t)
  <2>1. pc'[t] = "refill" /\ frames' = frames
    BY <1>3 DEF Refill
  <2>2. PICK j \in arriving : ir' = [ir EXCEPT ![j] = frames] /\ arriving' = arriving \ {j}
    BY <1>3 DEF Refill
  <2>. QED
    BY <2>1, <2>2, FrameAssumption DEF RxInv
<1>4. CASE ~(Clear(t) \/ Fail(t) \/ Transfer(t) \/ Refill(t))
  <2>1. UNCHANGED <<ir, frames, arriving>>
    BY <1>4 DEF ThreadStep, Drive, LoadCmd, StoreCmd, Close, Return, StoreWheel, CallSetLED,
                LoadLed, StoreLed, CallGetIr, CopyIr, linkVars
  <2>2. (\A u \in Threads : pc'[u] # "refill") => arriving = {}
    <3>1. CASE Return(t)
      BY <3>1 DEF Return
    <3>2. CASE ~Return(t)
      <4>1. \A u \in Threads : pc[u] = "refill" => pc'[u] = "refill"
        BY <1>4, <3>2 DEF ThreadStep, Drive, Call, Begin, LoadCmd, StoreCmd, Close, StoreWheel,
                          CallSetLED, LoadLed, StoreLed, CallGetIr, CopyIr, FrameInv, Types
      <4>. QED
        BY <4>1 DEF RxInv
    <3>. QED
      BY <3>1, <3>2
  <2>. QED
    BY <2>1, <2>2 DEF RxInv
<1>. QED
  BY <1>1, <1>2, <1>3, <1>4

LEMMA GotKept ==
  ASSUME RxInv, FrameInv, GotInv, NEW t \in Threads, ThreadStep(t)
  PROVE  GotInv'
<1>1. RxInv' /\ frames <= frames' /\ frames' \in Nat /\ frames \in Nat
  BY RxKept DEF RxInv
<1>2. CASE UNCHANGED got
  BY <1>1, <1>2 DEF GotInv, IrForward
<1>3. CASE CallGetIr(t)
  BY <1>1, <1>3 DEF CallGetIr, GotInv, IrForward
<1>4. CASE CopyIr(t) /\ Len(got[t]) < RxWords
  <2> DEFINE n == Len(got[t]) + 1
  <2>1. got[t] \in Seq(Nat) /\ n \in 1..RxWords
    BY <1>4, FrameAssumption DEF GotInv
  <2>2. got' = [got EXCEPT ![t] = Append(got[t], ir[n])] /\ frames' = frames
    BY <1>4 DEF CopyIr, linkVars
  <2>3. /\ ir[n] \in Nat /\ ir[n] <= frames /\ frames \in Nat
        /\ frames - 1 <= ir[n] \/ (n <= CopyWords /\ ir[n] = 0)
    BY <2>1 DEF RxInv
  <2>4. got' \in [Threads -> Seq(Nat)]
    BY <2>1, <2>2, <2>3 DEF GotInv
  <2>5. Len(got'[t]) = n /\ got'[t][n] = ir[n]
    BY <2>1, <2>2, <2>3 DEF GotInv
  <2>6. \A j \in 1..n - 1 : got'[t][j] = got[t][j]
    BY <2>1, <2>2, <2>3 DEF GotInv
  <2>7. \A u \in Threads : u # t => got'[u] = got[u]
    BY <2>2 DEF GotInv
  <2>8. \A j \in 1..n : got'[t][j] <= frames'
    BY <2>1, <2>2, <2>3, <2>5, <2>6 DEF GotInv
  <2>9. \A j, k \in 1..n :
          j < k => got'[t][j] - 1 <= got'[t][k] \/ (k <= CopyWords /\ got'[t][k] = 0)
    <3> SUFFICES ASSUME NEW j \in 1..n, NEW k \in 1..n, j < k
                 PROVE  got'[t][j] - 1 <= got'[t][k] \/ (k <= CopyWords /\ got'[t][k] = 0)
      OBVIOUS
    <3>1. CASE k = n
      <4>1. got'[t][j] \in Nat /\ got'[t][j] <= frames /\ got'[t][n] = ir[n]
        BY <2>2, <2>4, <2>5, <2>8
      <4>. QED
        BY <3>1, <2>3, <4>1
    <3>2. CASE k # n
      <4>1. j \in 1..n - 1 /\ k \in 1..n - 1 /\ n - 1 = Len(got[t])
        BY <3>2, <2>1
      <4>2. got[t][j] - 1 <= got[t][k] \/ (k <= CopyWords /\ got[t][k] = 0)
        BY <4>1 DEF GotInv, IrForward
      <4>. QED
        BY <4>1, <4>2, <2>6
    <3>. QED
      BY <3>1, <3>2
  <2>10. \A u \in Threads : \A j \in 1..Len(got'[u]) : got'[u][j] <= frames'
    BY <2>2, <2>5, <2>7, <2>8 DEF GotInv
  <2>11. IrForward'
    BY <2>5, <2>7, <2>9 DEF GotInv, IrForward
  <2>. QED
    BY <2>4, <2>10, <2>11 DEF GotInv
<1>5. UNCHANGED got \/ CallGetIr(t) \/ (CopyIr(t) /\ Len(got[t]) < RxWords)
  BY DEF ThreadStep, Drive, LoadCmd, StoreCmd, Clear, Transfer, Refill, Return, Fail, Close,
         StoreWheel, CallSetLED, LoadLed, StoreLed, CopyIr
<1>. QED
  BY <1>2, <1>3, <1>4, <1>5

(* However many frames arrive word by word under a get_ir_data, its copy   *)
(* never falls back by more than one frame, except to words that a memset  *)
(* has cleared.                                                            *)
THEOREM IrForwardCorrect == Spec => []IrForward
<1>1. Init => RxInv /\ GotInv
  BY FrameAssumption DEF Init, RxInv, GotInv, IrForward
<1>2. FrameInv /\ RxInv /\ GotInv /\ [Next]_vars => (RxInv /\ GotInv)'
  <2> SUFFICES ASSUME FrameInv, RxInv, GotInv, [Next]_vars PROVE (RxInv /\ GotInv)'
    OBVIOUS
  <2>1. CASE UNCHANGED vars
    BY <2>1 DEF vars, linkVars, localVars, RxInv, GotInv, IrForward
  <2>2. ASSUME NEW t \in Threads, ThreadStep(t) PROVE (RxInv /\ GotInv)'
    BY <2>2, RxKept, GotKept
  <2>. QED
    BY <2>1, <2>2 DEF Next, Ended
<1>3. GotInv => IrForward
  BY DEF GotInv
<1>. QED
  BY <1>1, <1>2, <1>3, InitInv, Inductive, PTL DEF Spec

-----------------------------------------------------------------------------
(* The types.  A thread in setLED has a LED and its state for arguments,   *)
(* and the word it has loaded is that of the LEDs.                         *)
LedTypes ==
  \A t \in Threads :
    /\ pc[t] \in {"led", "led_store"} => arg[t] \in [led : Leds, on : BOOLEAN]
    /\ pc[t] = "led_store" => temp[t] \subseteq Leds

WordTypes ==
  /\ led_cmd \subseteq Leds
  /\ dsPIC \in [motor : [Wheels -> Speeds], reset : BOOLEAN]
  /\ temp \in [Threads -> SUBSET (Bits \cup Leds)]
  /\ arg \in [Threads -> [Wheels -> Speeds] \cup [led : Leds, on : BOOLEAN]]
  /\ delivered \in BOOLEAN /\ calls \in 0..MaxCalls

LEMMA AtRestTyped == AtRest \in [Wheels -> Speeds]
BY FrameAssumption DEF AtRest

LEMMA SwitchedTyped ==
  ASSUME NEW leds \in SUBSET Leds, NEW led \in Leds, NEW on \in BOOLEAN
  PROVE  Switched(leds, led, on) \subseteq Leds
BY DEF Switched

(* A step of thread t that goes to a place outside setLED.                 *)
LEMMA LocalsApart ==
  ASSUME FrameInv, LedTypes, WordTypes, NEW t \in Threads, NEW here,
         here \notin {"led", "led_store"}, pc' = [pc EXCEPT ![t] = here],
         temp' = temp \/ temp' = [temp EXCEPT ![t] = cmd] \/ temp' = [temp EXCEPT ![t] = {}],
         arg' = arg \/ \E speeds \in [Wheels -> Speeds] : arg' = [arg EXCEPT ![t] = speeds]
  PROVE  /\ temp' \in [Threads -> SUBSET (Bits \cup Leds)]
         /\ arg' \in [Threads -> [Wheels -> Speeds] \cup [led : Leds, on : BOOLEAN]]
         /\ LedTypes'
<1>1. temp' \in [Threads -> SUBSET (Bits \cup Leds)]
  BY DEF WordTypes, FrameInv, Types
<1>2. arg' \in [Threads -> [Wheels -> Speeds] \cup [led : Leds, on : BOOLEAN]]
  BY DEF WordTypes
<1>3. \A u \in Threads : pc'[u] \in {"led", "led_store"} =>
        pc'[u] = pc[u] /\ temp'[u] = temp[u] /\ arg'[u] = arg[u]
  BY DEF WordTypes, FrameInv, Types
<1>. QED
  BY <1>1, <1>2, <1>3 DEF LedTypes

LEMMA LocalsKept ==
  ASSUME FrameInv, LedTypes, WordTypes, NEW t \in Threads, ThreadStep(t)
  PROVE  /\ temp' \in [Threads -> SUBSET (Bits \cup Leds)]
         /\ arg' \in [Threads -> [Wheels -> Speeds] \cup [led : Leds, on : BOOLEAN]]
         /\ LedTypes'
<1> DEFINE Goal == /\ temp' \in [Threads -> SUBSET (Bits \cup Leds)]
                   /\ arg' \in [Threads -> [Wheels -> Speeds] \cup [led : Leds, on : BOOLEAN]]
                   /\ LedTypes'
<1>1. CASE (\E speeds \in [Wheels -> Speeds] : Drive(t, speeds)) \/ Close(t)
  BY <1>1, LocalsApart, AtRestTyped DEF Drive, Close, Begin
<1>2. CASE Return(t) \/ Fail(t)
  BY <1>2, LocalsApart, AtRestTyped DEF Return, Fail, Continue, Begin
<1>3. CASE LoadCmd(t) \/ StoreCmd(t) \/ Clear(t) \/ Transfer(t) \/ CallGetIr(t)
  BY <1>3, LocalsApart DEF LoadCmd, StoreCmd, Clear, Transfer, CallGetIr
<1>4. CASE Refill(t) \/ CopyIr(t) \/ \E w \in Wheels : StoreWheel(t, w)
  <2>1. pc'[t] \notin {"led", "led_store"} /\ UNCHANGED <<temp, arg>>
        /\ \A u \in Threads : u # t => pc'[u] = pc[u]
    BY <1>4 DEF Refill, CopyIr, StoreWheel, FrameInv, Types
  <2>. QED
    BY <2>1 DEF WordTypes, LedTypes
<1>5. ASSUME NEW led \in Leds, NEW on \in BOOLEAN, CallSetLED(t, led, on)
      PROVE  Goal
  <2> DEFINE new == [led |-> led, on |-> on]
  <2>1. new \in [led : Leds, on : BOOLEAN]
    OBVIOUS
  <2>2. arg' = [arg EXCEPT ![t] = new] /\ UNCHANGED temp /\ pc' = [pc EXCEPT ![t] = "led"]
    BY <1>5 DEF CallSetLED
  <2> HIDE DEF new
  <2>3. pc'[t] = "led" /\ arg'[t] = new
        /\ \A u \in Threads : u # t => pc'[u] = pc[u] /\ arg'[u] = arg[u]
    BY <2>2 DEF FrameInv, Types
  <2>4. LedTypes'
    BY <2>1, <2>2, <2>3 DEF LedTypes
  <2>5. arg' \in [Threads -> [Wheels -> Speeds] \cup [led : Leds, on : BOOLEAN]]
    BY <2>1, <2>2 DEF WordTypes
  <2>. QED
    BY <2>2, <2>4, <2>5 DEF WordTypes
<1>6. CASE LoadLed(t)
  <2>1. pc' = [pc EXCEPT ![t] = "led_store"] /\ temp' = [temp EXCEPT ![t] = led_cmd] /\ arg' = arg
        /\ pc[t] = "led"
    BY <1>6 DEF LoadLed
  <2>2. temp' \in [Threads -> SUBSET (Bits \cup Leds)]
    BY <2>1 DEF WordTypes
  <2>3. temp'[t] = led_cmd /\ \A u \in Threads : u # t => pc'[u] = pc[u] /\ temp'[u] = temp[u]
    BY <2>1 DEF FrameInv, Types
  <2>. QED
    BY <2>1, <2>2, <2>3 DEF WordTypes, LedTypes
<1>7. CASE StoreLed(t)
  BY <1>7, LocalsApart, AtRestTyped DEF StoreLed
<1>. QED
  BY <1>1, <1>2, <1>3, <1>4, <1>5, <1>6, <1>7 DEF ThreadStep

LEMMA WordsKept ==
  ASSUME FrameInv, LedTypes, WordTypes, NEW t \in Threads, ThreadStep(t)
  PROVE  /\ led_cmd' \subseteq Leds
         /\ dsPIC' \in [motor : [Wheels -> Speeds], reset : BOOLEAN]
         /\ delivered' \in BOOLEAN /\ calls' \in 0..MaxCalls
<1>1. led_cmd' \subseteq Leds
  <2>1. CASE StoreLed(t)
    <3>1. arg[t] \in [led : Leds, on : BOOLEAN] /\ temp[t] \subseteq Leds
      BY <2>1 DEF StoreLed, LedTypes
    <3>2. arg[t].led \in Leds /\ arg[t].on \in BOOLEAN
      BY <3>1
    <3>. QED
      BY <2>1, <3>1, <3>2, SwitchedTyped DEF StoreLed
  <2>2. CASE ~StoreLed(t)
    BY <2>2 DEF ThreadStep, Drive, LoadCmd, StoreCmd, Clear, Transfer, Refill, Return, Fail, Close, StoreWheel,
                CallSetLED, LoadLed, CallGetIr, CopyIr, frameVars, WordTypes
  <2>. QED
    BY <2>1, <2>2
<1>2. /\ dsPIC' \in [motor : [Wheels -> Speeds], reset : BOOLEAN]
      /\ delivered' \in BOOLEAN
  <2>1. CASE Transfer(t)
    <3> DEFINE wheels == IF "set_motor" \in cmd THEN motor ELSE dsPIC.motor
               bit == "reset" \in cmd
    <3>1. wheels \in [Wheels -> Speeds]
      BY DEF WordTypes, FrameInv, Types
    <3>2. bit \in BOOLEAN
      OBVIOUS
    <3>3. dsPIC' = [motor |-> wheels, reset |-> bit] /\ delivered' = TRUE
      BY <2>1, Zenon DEF Transfer
    <3> HIDE DEF wheels, bit
    <3>4. dsPIC' \in [motor : [Wheels -> Speeds], reset : BOOLEAN]
      BY <3>1, <3>2, <3>3
    <3>. QED
      BY <3>3, <3>4
  <2>2. CASE Fail(t)
    <3>1. delivered' \in BOOLEAN
      BY <2>2, Zenon DEF Fail
    <3>. QED
      BY <2>2, <3>1 DEF Fail, WordTypes
  <2>3. CASE ~Transfer(t) /\ ~Fail(t)
    BY <2>3 DEF ThreadStep, Drive, LoadCmd, StoreCmd, Clear, Refill, Return, Close, StoreWheel,
                CallSetLED, LoadLed, StoreLed, CallGetIr, CopyIr, linkVars, WordTypes
  <2>. QED
    BY <2>1, <2>2, <2>3
<1>3. calls' \in 0..MaxCalls
  <2>1. CASE Call(t)
    BY <2>1, FrameAssumption DEF Call, WordTypes
  <2>2. CASE UNCHANGED calls
    BY <2>2 DEF WordTypes
  <2>. QED
    BY <2>1, <2>2 DEF ThreadStep, Drive, LoadCmd, StoreCmd, Clear, Transfer, Refill, Return, Fail, Close, StoreWheel,
                CallSetLED, LoadLed, StoreLed, CallGetIr, CopyIr
<1>. QED
  BY <1>1, <1>2, <1>3

(* The types of the frame's words: no stale copy of one word is ever       *)
(* stored into the other.                                                  *)
THEOREM TypeCorrect == Spec => []TypeOK
<1>1. Init => LedTypes /\ WordTypes /\ RxInv /\ GotInv
  <2> SUFFICES ASSUME Init PROVE LedTypes /\ WordTypes /\ RxInv /\ GotInv
    OBVIOUS
  <2>1. RxInv /\ GotInv
    BY FrameAssumption DEF Init, RxInv, GotInv, IrForward
  <2>2. LedTypes
    BY DEF Init, LedTypes
  <2>3. delivered \in BOOLEAN
    BY Zenon DEF Init
  <2>4. dsPIC \in [motor : [Wheels -> Speeds], reset : BOOLEAN]
    BY AtRestTyped DEF Init
  <2>. QED
    BY <2>1, <2>2, <2>3, <2>4, AtRestTyped, FrameAssumption DEF Init, WordTypes
<1>2. /\ FrameInv /\ LedTypes /\ WordTypes /\ RxInv /\ GotInv
      /\ [Next]_vars
      => (LedTypes /\ WordTypes /\ RxInv /\ GotInv)'
  <2> SUFFICES ASSUME FrameInv, LedTypes, WordTypes, RxInv, GotInv, [Next]_vars
               PROVE  (LedTypes /\ WordTypes /\ RxInv /\ GotInv)'
    OBVIOUS
  <2>1. CASE UNCHANGED vars
    BY <2>1 DEF vars, frameVars, linkVars, localVars, LedTypes, WordTypes, RxInv, GotInv, IrForward
  <2>2. ASSUME NEW t \in Threads, ThreadStep(t) PROVE (LedTypes /\ WordTypes /\ RxInv /\ GotInv)'
    BY <2>2, LocalsKept, WordsKept, RxKept, GotKept DEF WordTypes
  <2>. QED
    BY <2>1, <2>2 DEF Next, Ended
<1>3. FrameInv /\ WordTypes /\ RxInv /\ GotInv => TypeOK
  BY DEF FrameInv, Types, Places, Words, WordTypes, RxInv, GotInv, TypeOK
<1>. QED
  BY <1>1, <1>2, <1>3, InitInv, Inductive, PTL DEF Spec
=============================================================================
