---------------------------- MODULE DevicesProofs ----------------------------
(***************************************************************************)
(* Proofs about Devices, for any set of threads and any size of the        *)
(* descriptor table.                                                       *)
(***************************************************************************)
EXTENDS Devices, TLAPS

Types ==
  /\ table \in [Fds -> Files \cup {"free"}] /\ leaked \subseteq Fds
  /\ fd \in [Threads -> Fds \cup {NoFd}]
  /\ pc \in [Threads -> Places]
  /\ port \in Fds \cup {NoFd}

(* A leaked descriptor stays open, so it is never handed out again.        *)
Kept == \A d \in leaked : table[d] # "free" /\ \A t \in Threads : fd[t] # d

(* The port is bound only while a thread receives on it.                   *)
PortUsed == port # NoFd => \E t \in Threads : pc[t] \in {"recv", "match"} /\ fd[t] = port

Accounted == \A d \in Fds : table[d] # "free" => d \in leaked \/ \E t \in Threads : fd[t] = d

DescriptorInv == Types /\ OwnDescriptor /\ Kept /\ PortUsed /\ Accounted

(* The files a thread may find behind its descriptor at a place.           *)
LEMMA FileAtFiles ==
  \A p \in Places : FileAt(p) \in Files \cup {"none"} /\ FileAt(p) # "free"
BY DEF Places, FileAt, Files

LEMMA InitInv == Init => DescriptorInv
BY DEF Init, DescriptorInit, GpsInit, DescriptorInv, Types, Places, OwnDescriptor, Kept,
       PortUsed, Accounted, FileAt, NoFd, Fds

(* A call opens file and goes on to a place where it is used.              *)
LEMMA OpenStep ==
  ASSUME DescriptorInv, NEW t \in Threads, fd[t] = NoFd, NEW file, NEW next \in Places,
         FileAt(next) = file, file # "none", next \notin {"recv", "match"},
         pc[t] \notin {"recv", "match"},
         Opened(t, file), pc' = [pc EXCEPT ![t] = next], UNCHANGED port
  PROVE  DescriptorInv'
<1> PICK d \in Free : /\ table' = [table EXCEPT ![d] = file]
                      /\ fd' = [fd EXCEPT ![t] = d]
                      /\ UNCHANGED leaked
  BY DEF Opened
<1>1. d \in Fds /\ d # NoFd /\ table[d] = "free" /\ file \in Files /\ file # "free"
  BY FileAtFiles DEF Free, Fds, NoFd
<1>2. Types'
  BY <1>1 DEF DescriptorInv, Types
<1>3. d \notin leaked /\ \A u \in Threads : fd[u] # d
  <2>1. \A u \in Threads : fd[u] # NoFd => table[fd[u]] # "free"
    BY FileAtFiles DEF DescriptorInv, OwnDescriptor, Types
  <2>. QED
    BY <1>1, <2>1 DEF DescriptorInv, Kept
<1>4. OwnDescriptor'
  <2>1. \A u \in Threads : u # t => fd'[u] = fd[u] /\ pc'[u] = pc[u] /\ fd'[u] # d
    BY <1>3 DEF DescriptorInv, Types
  <2>2. fd'[t] = d /\ pc'[t] = next /\ table'[d] = file
    BY <1>1 DEF DescriptorInv, Types
  <2>3. \A e \in Fds : e # d => table'[e] = table[e]
    BY <1>1 DEF DescriptorInv, Types
  <2>4. \A u \in Threads : IF FileAt(pc'[u]) = "none" THEN fd'[u] = NoFd
                           ELSE fd'[u] # NoFd /\ table'[fd'[u]] = FileAt(pc'[u])
    BY <1>1, <2>1, <2>2, <2>3 DEF DescriptorInv, OwnDescriptor, Types
  <2>5. \A u, v \in Threads : u # v /\ fd'[u] # NoFd => fd'[u] # fd'[v]
    BY <1>1, <2>1, <2>2 DEF DescriptorInv, OwnDescriptor
  <2>6. port # d
    BY <1>1, <1>3 DEF DescriptorInv, PortUsed
  <2>7. \A u \in Threads : pc'[u] \in {"recv", "match"} <=> (fd'[u] # NoFd /\ port' = fd'[u])
    BY <2>1, <2>2, <2>6 DEF DescriptorInv, OwnDescriptor
  <2>. QED
    BY <2>4, <2>5, <2>7 DEF OwnDescriptor
<1>5. Kept'
  BY <1>1, <1>2, <1>3 DEF DescriptorInv, Kept, Types
<1>6. PortUsed'
  <2> SUFFICES ASSUME port # NoFd
               PROVE  \E u \in Threads : pc'[u] \in {"recv", "match"} /\ fd'[u] = port
    BY DEF PortUsed
  <2>1. PICK u \in Threads : pc[u] \in {"recv", "match"} /\ fd[u] = port
    BY DEF DescriptorInv, PortUsed
  <2>2. pc'[u] = pc[u] /\ fd'[u] = fd[u]
    BY <2>1 DEF DescriptorInv, Types
  <2>. QED
    BY <2>1, <2>2
<1>7. Accounted'
  <2>1. fd'[t] = d /\ \A u \in Threads : u # t => fd'[u] = fd[u]
    BY DEF DescriptorInv, Types
  <2>2. \A e \in Fds : e # d => table'[e] = table[e] /\ e # NoFd
    BY <1>1 DEF DescriptorInv, Types, Fds, NoFd
  <2> SUFFICES ASSUME NEW e \in Fds, table'[e] # "free", e \notin leaked
               PROVE  \E u \in Threads : fd'[u] = e
    BY DEF Accounted
  <2>3. CASE e = d
    BY <2>1, <2>3
  <2>4. CASE e # d
    <3>1. PICK u \in Threads : fd[u] = e
      BY <2>2, <2>4 DEF DescriptorInv, Accounted
    <3>. QED
      BY <2>1, <2>2, <2>4, <3>1
  <2>. QED
    BY <2>3, <2>4
<1>. QED
  BY <1>2, <1>4, <1>5, <1>6, <1>7 DEF DescriptorInv

(* A call closes its descriptor, with the port if it has it.               *)
LEMMA CloseStep ==
  ASSUME DescriptorInv, NEW t \in Threads, fd[t] # NoFd, Closed(t),
         NEW next \in Places, FileAt(next) = "none",
         pc' = [pc EXCEPT ![t] = next],
         port' = IF pc[t] \in {"recv", "match"} THEN NoFd ELSE port
  PROVE  DescriptorInv'
<1>1. /\ fd[t] \in Fds
      /\ table' = [table EXCEPT ![fd[t]] = "free"]
      /\ fd' = [fd EXCEPT ![t] = NoFd] /\ UNCHANGED leaked
  BY DEF Closed, DescriptorInv, Types
<1>2. next \notin {"recv", "match"}
  BY DEF FileAt
<1>3. \A u \in Threads : u # t => fd'[u] = fd[u] /\ pc'[u] = pc[u] /\ fd[u] # fd[t]
  BY <1>1 DEF DescriptorInv, Types, OwnDescriptor
<1>4. fd'[t] = NoFd /\ pc'[t] = next
  BY <1>1 DEF DescriptorInv, Types
<1>5. \A d \in Fds : d # fd[t] => table'[d] = table[d]
  BY <1>1 DEF DescriptorInv, Types
<1>6. Types'
  BY <1>1 DEF DescriptorInv, Types
<1>7. \A u \in Threads : u # t => (pc[u] \in {"recv", "match"} <=> (fd[u] # NoFd /\ port' = fd[u]))
  BY <1>3 DEF DescriptorInv, OwnDescriptor
<1>8. OwnDescriptor'
  <2>1. \A u \in Threads : IF FileAt(pc'[u]) = "none" THEN fd'[u] = NoFd
                           ELSE fd'[u] # NoFd /\ table'[fd'[u]] = FileAt(pc'[u])
    BY <1>3, <1>4, <1>5 DEF DescriptorInv, OwnDescriptor, Types
  <2>2. \A u, v \in Threads : u # v /\ fd'[u] # NoFd => fd'[u] # fd'[v]
    BY <1>3, <1>4 DEF DescriptorInv, OwnDescriptor
  <2>3. \A u \in Threads : pc'[u] \in {"recv", "match"} <=> (fd'[u] # NoFd /\ port' = fd'[u])
    BY <1>2, <1>3, <1>4, <1>7
  <2>. QED
    BY <2>1, <2>2, <2>3 DEF OwnDescriptor
<1>9. Kept'
  BY <1>1, <1>3, <1>4, <1>5 DEF DescriptorInv, Kept, Types, NoFd, Fds
<1>10. PortUsed'
  <2> SUFFICES ASSUME port' # NoFd
               PROVE  \E u \in Threads : pc'[u] \in {"recv", "match"} /\ fd'[u] = port'
    BY DEF PortUsed
  <2>1. port' = port /\ pc[t] \notin {"recv", "match"}
    OBVIOUS
  <2>2. PICK u \in Threads : pc[u] \in {"recv", "match"} /\ fd[u] = port
    BY <2>1 DEF DescriptorInv, PortUsed
  <2>. QED
    BY <1>3, <2>1, <2>2
<1>11. Accounted'
  <2> SUFFICES ASSUME NEW e \in Fds, table'[e] # "free", e \notin leaked
               PROVE  \E u \in Threads : fd'[u] = e
    BY <1>1 DEF Accounted
  <2>1. e # fd[t]
    BY <1>1 DEF DescriptorInv, Types
  <2>2. PICK u \in Threads : fd[u] = e
    BY <1>5, <2>1 DEF DescriptorInv, Accounted
  <2>. QED
    BY <1>3, <2>1, <2>2
<1>. QED
  BY <1>6, <1>8, <1>9, <1>10, <1>11 DEF DescriptorInv

(* An error return that forgets its descriptor.                            *)
LEMMA LeakStep ==
  ASSUME DescriptorInv, NEW t \in Threads, fd[t] # NoFd, Leaked(t),
         pc[t] \notin {"recv", "match"},
         pc' = [pc EXCEPT ![t] = "idle"], UNCHANGED port
  PROVE  DescriptorInv'
<1>1. /\ fd[t] \in Fds /\ leaked' = leaked \cup {fd[t]}
      /\ fd' = [fd EXCEPT ![t] = NoFd] /\ UNCHANGED table
  BY DEF Leaked, DescriptorInv, Types
<1>2. \A u \in Threads : u # t => fd'[u] = fd[u] /\ pc'[u] = pc[u] /\ fd[u] # fd[t]
  BY <1>1 DEF DescriptorInv, Types, OwnDescriptor
<1>3. fd'[t] = NoFd /\ pc'[t] = "idle"
  BY <1>1 DEF DescriptorInv, Types
<1>4. Types'
  BY <1>1 DEF DescriptorInv, Types, Places
<1>5. OwnDescriptor'
  <2>1. FileAt("idle") = "none"
    BY DEF FileAt
  <2>2. \A u \in Threads : IF FileAt(pc'[u]) = "none" THEN fd'[u] = NoFd
                           ELSE fd'[u] # NoFd /\ table'[fd'[u]] = FileAt(pc'[u])
    BY <1>1, <1>2, <1>3, <2>1 DEF DescriptorInv, OwnDescriptor
  <2>3. \A u, v \in Threads : u # v /\ fd'[u] # NoFd => fd'[u] # fd'[v]
    BY <1>2, <1>3 DEF DescriptorInv, OwnDescriptor
  <2>4. \A u \in Threads : pc'[u] \in {"recv", "match"} <=> (fd'[u] # NoFd /\ port' = fd'[u])
    <3>1. \A u \in Threads : u # t =>
            (pc'[u] \in {"recv", "match"} <=> (fd'[u] # NoFd /\ port' = fd'[u]))
      BY <1>2 DEF DescriptorInv, OwnDescriptor
    <3>2. ~(pc'[t] \in {"recv", "match"}) /\ ~(fd'[t] # NoFd)
      BY <1>3
    <3>. QED
      BY <3>1, <3>2
  <2>. QED
    BY <2>2, <2>3, <2>4 DEF OwnDescriptor
<1>6. Kept'
  <2>1. table[fd[t]] # "free"
    BY FileAtFiles DEF DescriptorInv, OwnDescriptor, Types
  <2>2. ASSUME NEW d \in leaked', NEW u \in Threads PROVE table[d] # "free" /\ fd'[u] # d
    <3>1. d # NoFd /\ (d = fd[t] \/ d \in leaked)
      BY <1>1, <2>2 DEF DescriptorInv, Types, NoFd, Fds
    <3>. QED
      BY <1>2, <1>3, <2>1, <3>1 DEF DescriptorInv, Kept
  <2>. QED
    BY <1>1, <2>1, <2>2 DEF Kept, DescriptorInv
<1>7. PortUsed'
  BY <1>2 DEF DescriptorInv, PortUsed
<1>8. Accounted'
  BY <1>1, <1>2 DEF DescriptorInv, Accounted
<1>. QED
  BY <1>4, <1>5, <1>6, <1>7, <1>8 DEF DescriptorInv

(* A thread goes on with the descriptor it has, or has none and returns.   *)
LEMMA MoveStep ==
  ASSUME DescriptorInv, NEW t \in Threads, NEW next \in Places,
         FileAt(next) = FileAt(pc[t]),
         next \in {"recv", "match"} <=> pc[t] \in {"recv", "match"},
         pc' = [pc EXCEPT ![t] = next], UNCHANGED <<fdVars, port>>
  PROVE  DescriptorInv'
<1>1. UNCHANGED <<table, leaked, fd, port>>
  BY DEF fdVars
<1>2. \A u \in Threads : /\ FileAt(pc'[u]) = FileAt(pc[u])
                         /\ pc'[u] \in {"recv", "match"} <=> pc[u] \in {"recv", "match"}
  BY DEF DescriptorInv, Types
<1>3. Types'
  BY <1>1 DEF DescriptorInv, Types
<1>4. OwnDescriptor' /\ PortUsed'
  BY <1>1, <1>2 DEF DescriptorInv, OwnDescriptor, PortUsed
<1>5. Kept' /\ Accounted'
  BY <1>1 DEF DescriptorInv, Kept, Accounted
<1>. QED
  BY <1>3, <1>4, <1>5 DEF DescriptorInv

(* The port is bound to the socket of the thread that will receive on it.  *)
LEMMA BoundStep ==
  ASSUME DescriptorInv, NEW t \in Threads, pc[t] = "bind",
         port = NoFd, port' = fd[t], pc' = [pc EXCEPT ![t] = "recv"], UNCHANGED fdVars
  PROVE  DescriptorInv'
<1>1. UNCHANGED <<table, leaked, fd>>
  BY DEF fdVars
<1>2. FileAt("bind") = "socket" /\ FileAt("recv") = "socket"
  BY DEF FileAt
<1>3. fd[t] \in Fds /\ fd[t] # NoFd
  BY <1>2 DEF DescriptorInv, Types, OwnDescriptor
<1>4. pc'[t] = "recv" /\ \A u \in Threads : u # t => pc'[u] = pc[u]
  BY DEF DescriptorInv, Types
<1>5. Types'
  BY <1>1, <1>3 DEF DescriptorInv, Types, Places
<1>6. OwnDescriptor'
  <2>1. \A u \in Threads : FileAt(pc'[u]) = FileAt(pc[u])
    BY <1>2, <1>4
  <2>2. \A u \in Threads : u # t => pc[u] \notin {"recv", "match"} /\ fd[u] # fd[t]
    BY <1>3 DEF DescriptorInv, OwnDescriptor
  <2>3. \A u \in Threads : pc'[u] \in {"recv", "match"} <=> (fd'[u] # NoFd /\ port' = fd'[u])
    BY <1>1, <1>3, <1>4, <2>2
  <2>. QED
    BY <1>1, <2>1, <2>3 DEF DescriptorInv, OwnDescriptor
<1>7. PortUsed'
  BY <1>1, <1>4 DEF PortUsed
<1>8. Kept' /\ Accounted'
  BY <1>1 DEF DescriptorInv, Kept, Accounted
<1>. QED
  BY <1>5, <1>6, <1>7, <1>8 DEF DescriptorInv

LEMMA OpenOrStep ==
  ASSUME DescriptorInv, NEW t \in Threads, FileAt(pc[t]) = "none",
         NEW file, NEW next \in Places, FileAt(next) = file, file # "none",
         next \notin {"recv", "match"}, NEW locals, NEW error,
         OpenOr(t, file, next, locals, error), UNCHANGED port
  PROVE  DescriptorInv'
<1>1. fd[t] = NoFd /\ pc[t] \notin {"recv", "match"}
  BY DEF DescriptorInv, OwnDescriptor, FileAt
<1>2. CASE Opened(t, file) /\ Go(t, next, locals)
  BY <1>1, <1>2, OpenStep DEF Go
<1>3. CASE UNCHANGED fdVars /\ Return(t, error)
  <2>1. "idle" \in Places /\ FileAt("idle") = "none"
    BY DEF Places, FileAt
  <2>. QED
    BY <1>1, <1>3, <2>1, MoveStep DEF Return
<1>. QED
  BY <1>2, <1>3 DEF OpenOr

LEMMA PlaceFiles ==
  /\ \A p \in {"idle", "open_off"} : FileAt(p) = "none"
  /\ FileAt("read_switch") = "switch" /\ FileAt("write_led") = "brightness"
  /\ FileAt("write_on") = "delay_on" /\ FileAt("write_off") = "delay_off"
  /\ \A p \in {"read_event", "scan_beyond"} : FileAt(p) = "event0"
  /\ \A p \in {"bind", "recv", "match"} : FileAt(p) = "socket"
  /\ {"idle", "open_off", "read_switch", "write_led", "write_on", "write_off",
      "read_event", "scan_beyond", "bind", "recv", "match"} \subseteq Places
BY DEF FileAt, Places

LEMMA SupportInv ==
  ASSUME DescriptorInv, NEW t \in Threads, SupportStep(t), UNCHANGED gpsVars
  PROVE  DescriptorInv'
<1> UNCHANGED port
  BY DEF gpsVars
<1> USE PlaceFiles
<1>1. fd[t] # NoFd <=> FileAt(pc[t]) # "none"
  BY DEF DescriptorInv, OwnDescriptor
<1>2. CASE GetSwitch(t)
  BY <1>2, OpenOrStep DEF GetSwitch, At
<1>3. CASE ReadSwitch(t)
  BY <1>1, <1>3, CloseStep, LeakStep DEF ReadSwitch, At, Return
<1>4. ASSUME NEW led_no \in LedNos, NEW on \in {0, 1}, SetBoardLed(t, led_no, on)
      PROVE  DescriptorInv'
  <2>1. CASE led_no \in UserLeds
    BY <1>4, <2>1, OpenOrStep DEF SetBoardLed, At
  <2>2. CASE led_no \notin UserLeds
    BY <1>1, <1>4, <2>2, MoveStep DEF SetBoardLed, At, Return
  <2>. QED
    BY <2>1, <2>2
<1>5. ASSUME NEW led_no \in LedNos, NEW d \in Blinks, BlinkBoardLed(t, led_no, d[1], d[2])
      PROVE  DescriptorInv'
  <2>1. CASE BeginBlink(t, led_no, d[1], d[2])
    BY <1>1, <1>5, <2>1, OpenStep DEF BlinkBoardLed, BeginBlink, At
  <2>2. CASE UNCHANGED fdVars /\ Return(t, 0)
    BY <1>1, <1>5, <2>2, MoveStep DEF BlinkBoardLed, At, Return
  <2>. QED
    BY <1>5, <2>1, <2>2 DEF BlinkBoardLed
<1>6. CASE WriteLed(t)
  BY <1>1, <1>6, CloseStep DEF WriteLed, Write, WriteFails, At, Return
<1>7. CASE WriteOn(t)
  BY <1>1, <1>7, CloseStep DEF WriteOn, Write, WriteFails, At, Return, Go
<1>8. CASE OpenOff(t)
  BY <1>8, OpenOrStep DEF OpenOff, At
<1>9. CASE WriteOff(t)
  BY <1>1, <1>9, CloseStep DEF WriteOff, Write, WriteFails, At, Return
<1>10. ASSUME NEW code \in Buttons, WaitBtnTrigger(t, code)
       PROVE  DescriptorInv'
  BY <1>10, OpenOrStep DEF WaitBtnTrigger, At
<1>11. CASE ReadEvent(t)
  <2>1. CASE Closed(t) /\ Return(t, 1)
    BY <1>1, <1>11, <2>1, CloseStep DEF ReadEvent, At, Return
  <2>2. CASE UNCHANGED fdVars /\ Go(t, "read_event", [call[t] EXCEPT !.events = {}])
    BY <1>1, <1>11, <2>2, MoveStep DEF ReadEvent, At, Go
  <2>. QED
    BY <1>11, <2>1, <2>2 DEF ReadEvent
<1>12. CASE ShortRead(t)
  BY <1>1, <1>12, LeakStep DEF ShortRead, At, Return
<1>13. CASE FailedRead(t)
  BY <1>1, <1>13, MoveStep DEF FailedRead, At, Go
<1>14. CASE ScanBeyond(t)
  <2>1. CASE Closed(t) /\ Return(t, 1)
    BY <1>1, <1>14, <2>1, CloseStep DEF ScanBeyond, At, Return
  <2>2. CASE UNCHANGED <<fdVars, callVars>>
    BY <2>2 DEF fdVars, callVars, DescriptorInv, Types, OwnDescriptor, Kept, PortUsed, Accounted
  <2>. QED
    BY <1>14, <2>1, <2>2 DEF ScanBeyond
<1>. QED
  BY <1>2, <1>3, <1>4, <1>5, <1>6, <1>7, <1>8, <1>9, <1>10, <1>11, <1>12, <1>13, <1>14
     DEF SupportStep

LEMMA GpsInv ==
  ASSUME DescriptorInv, NEW t \in Threads, GpsStep(t)
  PROVE  DescriptorInv'
<1> USE PlaceFiles
<1>1. fd[t] # NoFd <=> FileAt(pc[t]) # "none"
  BY DEF DescriptorInv, OwnDescriptor
<1>2. ASSUME NEW id \in Ids, GetGPS(t, id) PROVE DescriptorInv'
  BY <1>2, OpenOrStep DEF GetGPS, At, gpsVars
<1>3. CASE Bind(t)
  <2>1. CASE port = NoFd /\ port' = fd[t] /\ Go(t, "recv", call[t]) /\ UNCHANGED fdVars
    BY <1>3, <2>1, BoundStep DEF Bind, At, Go
  <2>2. CASE Leaked(t) /\ Return(t, 1) /\ UNCHANGED port
    BY <1>1, <1>3, <2>2, LeakStep DEF Bind, At, Return
  <2>. QED
    BY <1>3, <2>1, <2>2 DEF Bind
<1>4. CASE Receive(t)
  BY <1>1, <1>4, MoveStep DEF Receive, At, Go
<1>5. CASE Match(t)
  <2>1. CASE Closed(t) /\ Return(t, 0) /\ port' = NoFd
    BY <1>1, <1>5, <2>1, CloseStep DEF Match, At, Return
  <2>2. CASE Go(t, "recv", call[t]) /\ UNCHANGED <<fdVars, port, inbox>>
    BY <1>1, <1>5, <2>2, MoveStep DEF Match, At, Go
  <2>. QED
    BY <1>5, <2>1, <2>2 DEF Match
<1>. QED
  BY <1>2, <1>3, <1>4, <1>5 DEF GpsStep

LEMMA Inductive == DescriptorInv /\ [Next]_vars => DescriptorInv'
<1> SUFFICES ASSUME DescriptorInv, [Next]_vars PROVE DescriptorInv'
  OBVIOUS
<1>1. ASSUME NEW t \in Threads, ThreadStep(t) PROVE DescriptorInv'
  BY <1>1, SupportInv, GpsInv DEF ThreadStep
<1>2. CASE \/ \E code \in Codes : Press(code)
           \/ \E d \in Datagrams : Send(d)
           \/ UNCHANGED vars
  <2>1. UNCHANGED <<table, leaked, fd, pc, port>>
    BY <1>2 DEF Press, Event, Send, SendPosition, vars, fdVars, callVars, gpsVars
  <2>. QED
    BY <2>1 DEF DescriptorInv, Types, OwnDescriptor, Kept, PortUsed, Accounted
<1>. QED
  BY <1>1, <1>2 DEF Next, Crashed

(* No two threads use one descriptor, none uses one that is closed or open *)
(* on another file, and the GPS port has one owner.                        *)
THEOREM OwnDescriptorCorrect == Spec => []OwnDescriptor
<1>1. DescriptorInv => OwnDescriptor
  BY DEF DescriptorInv
<1>. QED
  BY <1>1, InitInv, Inductive, PTL DEF Spec

(* Only the three error returns that forget their descriptor leak one.     *)
THEOREM DescriptorsAccountedCorrect == Spec => []DescriptorsAccounted
<1>1. DescriptorInv => DescriptorsAccounted
  <2> SUFFICES ASSUME DescriptorInv PROVE DescriptorsAccounted
    OBVIOUS
  <2>1. \A t \in Threads : fd[t] # NoFd => table[fd[t]] # "free" /\ fd[t] \in Fds
    BY FileAtFiles DEF DescriptorInv, OwnDescriptor, Types
  <2>2. \A t \in Threads : fd[t] \notin leaked
    BY DEF DescriptorInv, Kept
  <2>3. \A d \in leaked : table[d] # "free" /\ d \in Fds
    BY DEF DescriptorInv, Kept, Types
  <2>4. \A d \in Fds : d # NoFd
    BY DEF Fds, NoFd
  <2>. QED
    BY <2>1, <2>2, <2>3, <2>4 DEF DescriptorInv, Accounted, DescriptorsAccounted
<1>. QED
  BY <1>1, InitInv, Inductive, PTL DEF Spec

-----------------------------------------------------------------------------
(* The local variables of a call, by the place it has reached.             *)
GpsPlaces == {"bind", "recv", "match"}
GpsPosition == Ids \cup {Unknown}
BlinkPlaces == {"write_on", "open_off", "write_off"}
ButtonPlaces == {"read_event", "scan_beyond"}

LedCall == [fn : {"set_board_led"}, led_no : UserLeds, on : {0, 1}]
BlinkCall == [fn : {"blink_board_led"}, led_no : UserLeds, delay_on : Delays,
              delay_off : Delays, found : Delays \cup {"met"}]
ButtonCall == [fn : {"wait_btn_trigger"}, code : Buttons, events : SUBSET Codes]
GpsCall == [fn : {"getGPS"}, id : Ids, pos : GpsPosition]

(* May c be the call of a thread at place?                                 *)
Fits(place, c) ==
  /\ place = "idle" => c = NoCall
  /\ place = "read_switch" => c.fn = "get_switch"
  /\ place = "write_led" => c \in LedCall
  /\ place \in BlinkPlaces => c \in BlinkCall
  /\ place \in ButtonPlaces => c \in ButtonCall
  /\ place \in GpsPlaces => c \in GpsCall

CallTypes ==
  /\ pc \in [Threads -> Places]
  /\ DOMAIN call = Threads
  /\ \A t \in Threads : Fits(pc[t], call[t])
  /\ inbox \in Seq(Datagrams)

DeviceTypes ==
  /\ leds \in [UserLeds -> [brightness : {0, 255}, delay_on : Delays, delay_off : Delays]]
  /\ result \in [Threads -> {Nothing, -1, 0, 1, 99} \cup Positions]
  /\ crashed \in BOOLEAN

LEMMA PlaceCalls ==
  ASSUME NEW c
  PROVE  /\ Fits("idle", c) <=> c = NoCall
         /\ Fits("read_switch", c) <=> c.fn = "get_switch"
         /\ Fits("write_led", c) <=> c \in LedCall
         /\ \A place \in BlinkPlaces : Fits(place, c) <=> c \in BlinkCall
         /\ \A place \in ButtonPlaces : Fits(place, c) <=> c \in ButtonCall
         /\ \A place \in GpsPlaces : Fits(place, c) <=> c \in GpsCall
BY DEF Fits, BlinkPlaces, ButtonPlaces, GpsPlaces

LEMMA CallSet ==
  ASSUME CallTypes, NEW t \in Threads, NEW next \in Places, NEW locals, Fits(next, locals),
         pc' = [pc EXCEPT ![t] = next], call' = [call EXCEPT ![t] = locals],
         inbox' \in Seq(Datagrams)
  PROVE  CallTypes'
<1>1. pc'[t] = next /\ \A u \in Threads \ {t} : pc'[u] = pc[u]
  BY DEF CallTypes
<1>2. call'[t] = locals /\ \A u \in Threads \ {t} : call'[u] = call[u]
  BY DEF CallTypes
<1>3. pc' \in [Threads -> Places] /\ DOMAIN call' = Threads
  BY DEF CallTypes
<1>. QED
  BY <1>1, <1>2, <1>3 DEF CallTypes

LEMMA CallReturned ==
  ASSUME CallTypes, NEW t \in Threads, NEW value, Return(t, value), inbox' \in Seq(Datagrams)
  PROVE  CallTypes'
<1>1. "idle" \in Places /\ Fits("idle", NoCall)
  BY PlaceCalls DEF Places
<1>. QED
  BY <1>1, CallSet DEF Return

LEMMA CallGone ==
  ASSUME CallTypes, NEW t \in Threads, NEW next \in Places, NEW locals, Fits(next, locals),
         Go(t, next, locals), inbox' \in Seq(Datagrams)
  PROVE  CallTypes'
BY CallSet DEF Go

(* The blink_board_led that begins, and those on its LED that hear of it.  *)
LEMMA CallBlinks ==
  ASSUME CallTypes, DeviceTypes, NEW t \in Threads, NEW led_no \in UserLeds,
         NEW on \in Delays, NEW off \in Delays, BeginBlink(t, led_no, on, off),
         inbox' \in Seq(Datagrams)
  PROVE  CallTypes'
<1> DEFINE others == {u \in Threads : Blinking(u, led_no)}
           found == IF others = {} THEN leds[led_no].delay_off ELSE "met"
           new == [fn |-> "blink_board_led", led_no |-> led_no, delay_on |-> on,
                   delay_off |-> off, found |-> found]
<1>1. found \in Delays \cup {"met"}
  BY DEF DeviceTypes
<1>2. /\ pc' = [pc EXCEPT ![t] = "write_on"] /\ DOMAIN call' = Threads
      /\ call'[t] = new
      /\ \A u \in Threads \ {t} :
           call'[u] = IF u \in others THEN [call[u] EXCEPT !.found = "met"] ELSE call[u]
  BY DEF BeginBlink
<1> HIDE DEF found
<1>3. new \in BlinkCall
  BY <1>1 DEF BlinkCall
<1>4. pc'[t] = "write_on" /\ (\A u \in Threads \ {t} : pc'[u] = pc[u]) /\ pc' \in [Threads -> Places]
  BY <1>2 DEF CallTypes, Places
<1> HIDE DEF new
<1>5. ASSUME NEW u \in Threads \ {t} PROVE Fits(pc[u], call'[u])
  <2>1. CASE u \notin others
    BY <1>2, <2>1 DEF CallTypes
  <2>2. CASE u \in others
    <3>1. call[u].fn = "blink_board_led" /\ Fits(pc[u], call[u]) /\ pc[u] \in Places
      BY <2>2 DEF Blinking, CallTypes
    <3>2. pc[u] \in BlinkPlaces
      BY <3>1 DEF Fits, Places, BlinkPlaces, ButtonPlaces, GpsPlaces, NoCall, LedCall,
                  ButtonCall, GpsCall
    <3>3. call[u] \in BlinkCall
      BY <3>1, <3>2, PlaceCalls
    <3>4. [call[u] EXCEPT !.found = "met"] \in BlinkCall
      BY <3>3 DEF BlinkCall
    <3>. QED
      BY <1>2, <2>2, <3>2, <3>4, PlaceCalls
  <2>. QED
    BY <2>1, <2>2
<1>6. Fits("write_on", call'[t])
  BY <1>2, <1>3, PlaceCalls DEF BlinkPlaces
<1>. QED
  BY <1>2, <1>4, <1>5, <1>6 DEF CallTypes

LEMMA SupportCalls ==
  ASSUME CallTypes, DeviceTypes, NEW t \in Threads, SupportStep(t), UNCHANGED gpsVars
  PROVE  CallTypes'
<1>0. inbox' \in Seq(Datagrams)
  BY DEF CallTypes, gpsVars
<1>1. CASE GetSwitch(t)
  <2>1. Fits("read_switch", [fn |-> "get_switch"]) /\ "read_switch" \in Places
    BY PlaceCalls DEF Places
  <2>. QED
    BY <1>0, <1>1, <2>1, CallGone, CallReturned DEF GetSwitch, OpenOr
<1>2. CASE ReadSwitch(t)
  BY <1>0, <1>2, CallReturned DEF ReadSwitch
<1>3. ASSUME NEW led_no \in LedNos, NEW on \in {0, 1}, SetBoardLed(t, led_no, on)
      PROVE  CallTypes'
  <2> DEFINE locals == [fn |-> "set_board_led", led_no |-> led_no, on |-> on]
  <2>1. CASE led_no \in UserLeds
    <3>1. Fits("write_led", locals) /\ "write_led" \in Places
      BY <2>1, PlaceCalls DEF Places, LedCall
    <3>2. Go(t, "write_led", locals) \/ Return(t, 0)
      BY <1>3, <2>1 DEF SetBoardLed, OpenOr
    <3>. HIDE DEF locals
    <3>. QED
      BY <1>0, <3>1, <3>2, CallGone, CallReturned
  <2>2. CASE led_no \notin UserLeds
    BY <1>0, <1>3, <2>2, CallReturned DEF SetBoardLed
  <2>. QED
    BY <2>1, <2>2
<1>4. ASSUME NEW led_no \in LedNos, NEW d \in Blinks, BlinkBoardLed(t, led_no, d[1], d[2])
      PROVE  CallTypes'
  <2>1. d[1] \in Delays /\ d[2] \in Delays
    BY SupportAssumption
  <2>. QED
    BY <1>0, <1>4, <2>1, CallBlinks, CallReturned DEF BlinkBoardLed
<1>5. CASE WriteLed(t)
  BY <1>0, <1>5, CallReturned DEF WriteLed, WriteFails
<1>6. CASE WriteOn(t)
  <2>1. Fits("open_off", call[t]) /\ "open_off" \in Places
    BY <1>6, PlaceCalls DEF WriteOn, At, CallTypes, BlinkPlaces, Places
  <2>. QED
    BY <1>0, <1>6, <2>1, CallGone, CallReturned DEF WriteOn, WriteFails
<1>7. CASE OpenOff(t)
  <2>1. Fits("write_off", call[t]) /\ "write_off" \in Places
    BY <1>7, PlaceCalls DEF OpenOff, At, CallTypes, BlinkPlaces, Places
  <2>. QED
    BY <1>0, <1>7, <2>1, CallGone, CallReturned DEF OpenOff, OpenOr
<1>8. CASE WriteOff(t)
  BY <1>0, <1>8, CallReturned DEF WriteOff, WriteFails
<1>9. ASSUME NEW code \in Buttons, WaitBtnTrigger(t, code)
      PROVE  CallTypes'
  <2> DEFINE locals == [fn |-> "wait_btn_trigger", code |-> code, events |-> {}]
  <2>1. Fits("read_event", locals) /\ "read_event" \in Places
    BY PlaceCalls DEF Places, ButtonPlaces, ButtonCall
  <2>2. Go(t, "read_event", locals) \/ Return(t, -1)
    BY <1>9 DEF WaitBtnTrigger, OpenOr
  <2>. HIDE DEF locals
  <2>. QED
    BY <1>0, <2>1, <2>2, CallGone, CallReturned
<1>10. CASE ReadEvent(t) \/ FailedRead(t)
  <2> DEFINE locals == [call[t] EXCEPT !.events = {}]
  <2>1. call[t] \in ButtonCall
    BY <1>10, PlaceCalls DEF ReadEvent, FailedRead, At, CallTypes, ButtonPlaces
  <2>2. locals \in ButtonCall
    BY <2>1 DEF ButtonCall
  <2>3. \/ Return(t, 1)
        \/ \E next \in {"read_event", "scan_beyond"} : Go(t, next, locals)
    BY <1>10 DEF ReadEvent, FailedRead
  <2>. HIDE DEF locals
  <2>4. {"read_event", "scan_beyond"} \subseteq Places
    BY DEF Places
  <2>. QED
    BY <1>0, <2>2, <2>3, <2>4, PlaceCalls, CallGone, CallReturned DEF ButtonPlaces
<1>11. CASE ShortRead(t)
  BY <1>0, <1>11, CallReturned DEF ShortRead
<1>12. CASE ScanBeyond(t)
  <2>1. CASE UNCHANGED <<fdVars, callVars>>
    BY <1>0, <2>1 DEF callVars, CallTypes
  <2>. QED
    BY <1>0, <1>12, <2>1, CallReturned DEF ScanBeyond
<1>. QED
  BY <1>1, <1>2, <1>3, <1>4, <1>5, <1>6, <1>7, <1>8, <1>9, <1>10, <1>11, <1>12 DEF SupportStep

(* What a datagram leaves in pos. *)
LEMMA PositionFilled ==
  ASSUME NEW pos \in GpsPosition, NEW d \in Datagrams
  PROVE  Filled(pos, d) \in GpsPosition
BY DEF Filled, Datagrams, GpsPosition

LEMMA InboxKept ==
  ASSUME inbox \in Seq(Datagrams), inbox # <<>>
  PROVE  Head(inbox) \in Datagrams /\ Tail(inbox) \in Seq(Datagrams)
OBVIOUS

LEMMA GpsCalls ==
  ASSUME CallTypes, NEW t \in Threads, GpsStep(t)
  PROVE  CallTypes'
<1>0. inbox \in Seq(Datagrams) /\ <<>> \in Seq(Datagrams)
  BY DEF CallTypes
<1>1. GpsPlaces \subseteq Places
  BY DEF GpsPlaces, Places
<1>2. pc[t] \in GpsPlaces => call[t] \in GpsCall
  BY PlaceCalls DEF CallTypes
<1>3. ASSUME NEW id \in Ids, GetGPS(t, id) PROVE CallTypes'
  <2> DEFINE locals == [fn |-> "getGPS", id |-> id, pos |-> Unknown]
  <2>1. Unknown \in GpsPosition
    BY DEF GpsPosition
  <2>2. locals \in GpsCall
    BY <2>1 DEF GpsCall
  <2>3. Go(t, "bind", locals) \/ Return(t, 1)
    BY <1>3 DEF GetGPS, OpenOr
  <2>4. inbox' \in Seq(Datagrams)
    BY <1>0, <1>3 DEF GetGPS, gpsVars
  <2> HIDE DEF locals
  <2>. QED
    BY <1>1, <2>2, <2>3, <2>4, PlaceCalls, CallGone, CallReturned DEF GpsPlaces
<1>4. CASE Bind(t)
  BY <1>0, <1>1, <1>2, <1>4, PlaceCalls, CallGone, CallReturned DEF Bind, At, GpsPlaces
<1>5. CASE Receive(t)
  <2> DEFINE pos == Filled(call[t].pos, Head(inbox))
             locals == [call[t] EXCEPT !.pos = pos]
  <2>1. call[t] \in GpsCall /\ Head(inbox) \in Datagrams /\ inbox' \in Seq(Datagrams)
    BY <1>0, <1>2, <1>5, InboxKept DEF Receive, At, GpsPlaces
  <2>2. call[t].pos \in GpsPosition
    BY <2>1 DEF GpsCall
  <2>3. pos \in GpsPosition
    BY <2>1, <2>2, PositionFilled
  <2>4. Go(t, "match", locals)
    BY <1>5 DEF Receive
  <2> HIDE DEF pos
  <2>5. locals \in GpsCall
    BY <2>1, <2>3 DEF GpsCall
  <2> HIDE DEF locals
  <2>. QED
    BY <1>1, <2>1, <2>4, <2>5, PlaceCalls, CallGone DEF GpsPlaces
<1>6. CASE Match(t)
  BY <1>0, <1>1, <1>2, <1>6, PlaceCalls, CallGone, CallReturned DEF Match, At, GpsPlaces
<1>. QED
  BY <1>3, <1>4, <1>5, <1>6 DEF GpsStep

(* A key event reaches the calls that wait for a button. *)
LEMMA EventCalls ==
  ASSUME CallTypes, NEW code \in Codes, Press(code)
  PROVE  CallTypes'
<1>1. pc' = pc /\ inbox' = inbox
  BY DEF Press, Event, gpsVars
<1>2. DOMAIN call' = Threads
  BY DEF Press, Event
<1>3. ASSUME NEW u \in Threads PROVE Fits(pc[u], call'[u])
  <2>1. Fits(pc[u], call[u])
    BY DEF CallTypes
  <2>2. CASE pc[u] # "read_event"
    <3>1. call'[u] = call[u]
      BY <2>2 DEF Press, Event
    <3>. QED
      BY <2>1, <3>1
  <2>3. CASE pc[u] = "read_event"
    <3>1. call'[u] = [call[u] EXCEPT !.events = @ \cup {code}]
      BY <2>3 DEF Press, Event
    <3>2. call[u] \in ButtonCall
      BY <2>1, <2>3, PlaceCalls DEF ButtonPlaces
    <3>3. call'[u] \in ButtonCall
      BY <3>1, <3>2 DEF ButtonCall
    <3>. QED
      BY <2>3, <3>3, PlaceCalls DEF ButtonPlaces
  <2>. QED
    BY <2>2, <2>3
<1>. QED
  BY <1>1, <1>2, <1>3 DEF CallTypes

LEMMA CallInductive == CallTypes /\ DeviceTypes /\ [Next]_vars => CallTypes'
<1> SUFFICES ASSUME CallTypes, DeviceTypes, [Next]_vars PROVE CallTypes'
  OBVIOUS
<1>1. ASSUME NEW t \in Threads, ThreadStep(t) PROVE CallTypes'
  BY <1>1, SupportCalls, GpsCalls DEF ThreadStep
<1>2. ASSUME NEW d \in Datagrams, Send(d) PROVE CallTypes'
  <2>1. UNCHANGED <<pc, call>>
    BY <1>2 DEF Send, SendPosition, callVars
  <2>2. inbox' \in Seq(Datagrams)
    BY <1>2 DEF Send, SendPosition, CallTypes
  <2>. QED
    BY <2>1, <2>2 DEF CallTypes
<1>3. CASE UNCHANGED vars
  BY <1>3 DEF vars, callVars, gpsVars, CallTypes
<1>. QED
  BY <1>1, <1>2, <1>3, EventCalls DEF Next, Crashed

(* What an LED holds, and what a call may return. *)
Led == [brightness : {0, 255}, delay_on : Delays, delay_off : Delays]
Values == {Nothing, -1, 0, 1, 99} \cup Positions

LEMMA LedWritten ==
  ASSUME leds \in [UserLeds -> Led], NEW l \in UserLeds, NEW attribute, NEW value,
         [leds[l] EXCEPT ![attribute] = value] \in Led,
         leds' = [leds EXCEPT ![l][attribute] = value]
  PROVE  leds' \in [UserLeds -> Led]
<1> DEFINE led == [leds[l] EXCEPT ![attribute] = value]
<1>1. leds' = [leds EXCEPT ![l] = led]
  BY Zenon
<1> HIDE DEF led
<1>. QED
  BY <1>1

LEMMA LedsKept ==
  ASSUME CallTypes, leds \in [UserLeds -> Led], NEW t \in Threads, SupportStep(t)
  PROVE  leds' \in [UserLeds -> Led]
<1>1. CASE WriteLed(t)
  <2>1. call[t] \in LedCall
    BY <1>1, PlaceCalls DEF WriteLed, At, CallTypes
  <2>2. call[t].led_no \in UserLeds /\ call[t].on \in {0, 1}
    BY <2>1 DEF LedCall
  <2>3. 255 * call[t].on \in {0, 255}
    BY <2>2
  <2>4. [leds[call[t].led_no] EXCEPT !["brightness"] = 255 * call[t].on] \in Led
    BY <2>2, <2>3 DEF Led
  <2>. QED
    BY <1>1, <2>2, <2>4, LedWritten DEF WriteLed, Write, WriteFails
<1>2. CASE WriteOn(t) \/ WriteOff(t)
  <2>1. call[t] \in BlinkCall
    BY <1>2, PlaceCalls DEF WriteOn, WriteOff, At, CallTypes, BlinkPlaces
  <2>2. call[t].led_no \in UserLeds /\ call[t].delay_on \in Delays /\ call[t].delay_off \in Delays
    BY <2>1 DEF BlinkCall
  <2>3. /\ [leds[call[t].led_no] EXCEPT !["delay_on"] = call[t].delay_on] \in Led
        /\ [leds[call[t].led_no] EXCEPT !["delay_off"] = call[t].delay_off] \in Led
    BY <2>2 DEF Led
  <2>. QED
    BY <1>2, <2>2, <2>3, LedWritten DEF WriteOn, WriteOff, Write, WriteFails
<1>3. CASE ~WriteLed(t) /\ ~WriteOn(t) /\ ~WriteOff(t)
  BY <1>3 DEF SupportStep, GetSwitch, ReadSwitch, SetBoardLed, BlinkBoardLed, OpenOff,
     WaitBtnTrigger, ReadEvent, ShortRead, FailedRead, ScanBeyond
<1>. QED
  BY <1>1, <1>2, <1>3

LEMMA ResultSet ==
  ASSUME result \in [Threads -> Values], NEW t \in Threads, NEW value \in Values,
         result' = [result EXCEPT ![t] = value]
  PROVE  result' \in [Threads -> Values]
OBVIOUS

LEMMA ResultKept ==
  ASSUME result \in [Threads -> Values], NEW t \in Threads, ThreadStep(t)
  PROVE  result' \in [Threads -> Values]
<1>1. \A value \in Positions \cup {Nothing, -1, 0, 1, 99} : value \in Values
  BY DEF Values
<1>2. CASE \E value \in Values : result' = [result EXCEPT ![t] = value]
  BY <1>2, ResultSet
<1>3. CASE UNCHANGED result
  BY <1>3
<1>4. CASE GpsStep(t)
  BY <1>1, <1>2, <1>4 DEF GpsStep, GetGPS, Bind, Receive, Match, OpenOr, Go, Return
<1>5. CASE SupportStep(t)
  BY <1>1, <1>2, <1>3, <1>5 DEF SupportStep, GetSwitch, ReadSwitch, SetBoardLed, BlinkBoardLed,
     BeginBlink, WriteLed, WriteOn, OpenOff, WriteOff, WriteFails, WaitBtnTrigger, ReadEvent,
     ShortRead, FailedRead, ScanBeyond, OpenOr, Go, Return, callVars
<1>. QED
  BY <1>4, <1>5 DEF ThreadStep

LEMMA CrashKept == crashed \in BOOLEAN /\ [Next]_vars => crashed' \in BOOLEAN
<1>1. [Next]_vars => crashed' = crashed \/ crashed' = TRUE
  <2> SUFFICES ASSUME [Next]_vars PROVE crashed' = crashed \/ crashed' = TRUE
    OBVIOUS
  <2>1. ASSUME NEW t \in Threads, GpsStep(t) PROVE crashed' = crashed
    BY <2>1, Zenon DEF GpsStep, GetGPS, Bind, Receive, Match
  <2>2. ASSUME NEW t \in Threads, SupportStep(t) PROVE crashed' = crashed \/ crashed' = TRUE
    BY <2>2, ZenonT(60) DEF SupportStep, GetSwitch, ReadSwitch, SetBoardLed, BlinkBoardLed, WriteLed,
       WriteOn, OpenOff, WriteOff, WaitBtnTrigger, ReadEvent, ShortRead, FailedRead, ScanBeyond
  <2>3. CASE \/ \E code \in Codes : Press(code)
             \/ \E d \in Datagrams : Send(d)
             \/ UNCHANGED vars
    BY <2>3, Zenon DEF Press, Event, Send, SendPosition, vars
  <2>. QED
    BY <2>1, <2>2, <2>3, Zenon DEF Next, ThreadStep, Crashed
<1>. QED
  BY <1>1, Zenon

(* The inductive invariant of the type theorem. *)
DeviceInv == DescriptorInv /\ CallTypes /\ DeviceTypes /\ Len(inbox) <= Backlog

LEMMA DeviceInit == Init => DeviceInv
<1> SUFFICES ASSUME Init PROVE DeviceInv
  OBVIOUS
<1>1. CallTypes
  <2>1. Fits("idle", NoCall)
    BY PlaceCalls
  <2>. QED
    BY <2>1 DEF Init, DescriptorInit, GpsInit, CallTypes, Places
<1>2. leds \in [UserLeds -> Led]
  BY DEF Init, SupportInit, Led
<1>3. result \in [Threads -> Values]
  BY DEF Init, DescriptorInit, Values
<1>4. crashed \in BOOLEAN
  BY Zenon DEF Init, DescriptorInit
<1>5. Len(inbox) <= Backlog
  BY GpsAssumption DEF Init, GpsInit
<1>. QED
  BY <1>1, <1>2, <1>3, <1>4, <1>5, InitInv DEF DeviceInv, DeviceTypes, Led, Values

LEMMA BacklogKept ==
  ASSUME inbox \in Seq(Datagrams), Len(inbox) <= Backlog, [Next]_vars
  PROVE  Len(inbox') <= Backlog
<1>1. CASE UNCHANGED inbox
  BY <1>1
<1>2. ASSUME NEW t \in Threads, GpsStep(t) PROVE Len(inbox') <= Backlog
  <2>1. CASE Receive(t)
    BY <2>1, GpsAssumption DEF Receive
  <2>2. CASE inbox' = <<>>
    BY <2>2, GpsAssumption
  <2>. QED
    BY <1>1, <1>2, <2>1, <2>2 DEF GpsStep, GetGPS, Bind, Match, gpsVars
<1>3. ASSUME NEW d \in Datagrams, Send(d) PROVE Len(inbox') <= Backlog
  BY <1>3, GpsAssumption DEF Send, SendPosition
<1>. QED
  BY <1>1, <1>2, <1>3 DEF Next, ThreadStep, Press, Crashed, vars, gpsVars

LEMMA DeviceInductive == DeviceInv /\ [Next]_vars => DeviceInv'
<1> SUFFICES ASSUME DeviceInv, [Next]_vars PROVE DeviceInv'
  OBVIOUS
<1>1. DescriptorInv' /\ CallTypes'
  BY Inductive, CallInductive DEF DeviceInv
<1>2. leds' \in [UserLeds -> Led]
  <2>1. leds \in [UserLeds -> Led]
    BY DEF DeviceInv, DeviceTypes, Led
  <2>2. ASSUME NEW t \in Threads, ThreadStep(t) PROVE leds' \in [UserLeds -> Led]
    BY <2>1, <2>2, LedsKept DEF ThreadStep, DeviceInv
  <2>. QED
    BY <2>1, <2>2 DEF Next, Press, Event, Send, Crashed, vars
<1>3. result' \in [Threads -> Values]
  <2>1. result \in [Threads -> Values]
    BY DEF DeviceInv, DeviceTypes, Values
  <2>. QED
    BY <2>1, ResultKept DEF Next, Press, Event, Send, SendPosition, Crashed, vars, callVars
<1>4. crashed' \in BOOLEAN
  BY CrashKept, Zenon DEF DeviceInv, DeviceTypes
<1>5. Len(inbox') <= Backlog
  BY BacklogKept DEF DeviceInv, CallTypes
<1>. QED
  BY <1>1, <1>2, <1>3, <1>4, <1>5 DEF DeviceInv, DeviceTypes, Led, Values

(* The type invariant, with the locals of a call in progress typed by the  *)
(* place it has reached.                                                   *)
THEOREM TypeCorrect == Spec => []TypeOK
<1>1. DeviceInv => TypeOK
  <2> SUFFICES ASSUME DeviceInv PROVE TypeOK
    OBVIOUS
  <2>1. ASSUME NEW t \in Threads, call[t].fn = "getGPS" PROVE call[t].pos \in GpsPosition
    <3>1. Fits(pc[t], call[t]) /\ pc[t] \in Places
      BY DEF DeviceInv, CallTypes
    <3>2. pc[t] \in GpsPlaces
      BY <2>1, <3>1 DEF Fits, Places, BlinkPlaces, ButtonPlaces, GpsPlaces, NoCall, LedCall,
                        BlinkCall, ButtonCall
    <3>3. call[t] \in GpsCall
      BY <3>1, <3>2, PlaceCalls
    <3>. QED
      BY <3>3 DEF GpsCall
  <2>. QED
    BY <2>1, Zenon DEF DeviceInv, DescriptorInv, Types, DeviceTypes, TypeOK, GpsPosition
<1>. QED
  BY <1>1, DeviceInit, DeviceInductive, PTL DEF Spec

-----------------------------------------------------------------------------
(* A blink_board_led that no other one has overlapped has the LED to       *)
(* itself: its delay_off is still the one that the call found, and its     *)
(* delay_on is the new one once the first half is written.                 *)
SecondHalf == {"open_off", "write_off"}

Undisturbed(t) ==
  LET led == leds[call[t].led_no] IN
    /\ led.delay_off = call[t].found
    /\ pc[t] \in SecondHalf => led.delay_on = call[t].delay_on

BlinkInv ==
  /\ \A t \in Threads :
       pc[t] \in BlinkPlaces /\ call[t].found # "met" => Undisturbed(t)
  /\ \A t, u \in Threads :
       /\ t # u /\ pc[t] \in BlinkPlaces /\ pc[u] \in BlinkPlaces
       /\ call[t].led_no = call[u].led_no
       => call[t].found = "met"

(* What a write to an attribute leaves in the LEDs. *)
LEMMA LedAfter ==
  ASSUME leds \in [UserLeds -> Led], NEW t \in Threads, call[t].led_no \in UserLeds,
         NEW attribute \in {"brightness", "delay_on", "delay_off"}, NEW value,
         Write(t, attribute, value)
  PROVE  LET l == call[t].led_no IN
         /\ \A k \in UserLeds \ {l} : leds'[k] = leds[k]
         /\ leds'[l].delay_on = IF attribute = "delay_on" THEN value ELSE leds[l].delay_on
         /\ leds'[l].delay_off = IF attribute = "delay_off" THEN value ELSE leds[l].delay_off
<1> DEFINE l == call[t].led_no
<1> DEFINE led == [leds[l] EXCEPT ![attribute] = value]
<1>1. leds' = [leds EXCEPT ![l] = led]
  BY Zenon DEF Write
<1>2. DOMAIN leds[l] = {"brightness", "delay_on", "delay_off"}
  BY DEF Led
<1>3. /\ led.delay_on = IF attribute = "delay_on" THEN value ELSE leds[l].delay_on
      /\ led.delay_off = IF attribute = "delay_off" THEN value ELSE leds[l].delay_off
  BY <1>2
<1> HIDE DEF led
<1>4. leds'[l] = led /\ \A k \in UserLeds \ {l} : leds'[k] = leds[k]
  BY <1>1
<1>. QED
  BY <1>3, <1>4

(* The place of a call tells whether it is one of blink_board_led. *)
LEMMA BlinkPlace ==
  ASSUME CallTypes, NEW t \in Threads
  PROVE  /\ pc[t] \in BlinkPlaces <=> call[t].fn = "blink_board_led"
         /\ pc[t] \in BlinkPlaces =>
              /\ call[t] \in BlinkCall /\ call[t].led_no \in UserLeds
              /\ call[t].fn # NoCall.fn
<1>1. Fits(pc[t], call[t]) /\ pc[t] \in Places
  BY DEF CallTypes
<1>2. pc[t] \in BlinkPlaces => call[t] \in BlinkCall
  BY <1>1, PlaceCalls
<1>3. pc[t] \in BlinkPlaces => call[t].fn = "blink_board_led" /\ call[t].led_no \in UserLeds
  BY <1>2 DEF BlinkCall
<1>4. pc[t] \notin BlinkPlaces => call[t].fn # "blink_board_led"
  BY <1>1 DEF Fits, Places, BlinkPlaces, ButtonPlaces, GpsPlaces, NoCall, LedCall, ButtonCall,
              GpsCall
<1>5. NoCall.fn # "blink_board_led"
  BY DEF NoCall
<1>. QED
  BY <1>2, <1>3, <1>4, <1>5

(* A step that no blinking LED notices. *)
LEMMA BlinkApart ==
  ASSUME BlinkInv, CallTypes,
         \A l \in UserLeds : /\ leds'[l].delay_on = leds[l].delay_on
                             /\ leds'[l].delay_off = leds[l].delay_off,
         \A t \in Threads : pc'[t] \in BlinkPlaces =>
           /\ pc[t] \in BlinkPlaces /\ call'[t] = call[t]
           /\ pc'[t] \in SecondHalf => pc[t] \in SecondHalf
  PROVE  BlinkInv'
<1>1. ASSUME NEW t \in Threads, pc'[t] \in BlinkPlaces, call'[t].found # "met"
      PROVE  Undisturbed(t)'
  <2>1. call[t].led_no \in UserLeds /\ Undisturbed(t)
    BY <1>1, BlinkPlace DEF BlinkInv
  <2>. QED
    BY <1>1, <2>1 DEF Undisturbed
<1>2. \A t, u \in Threads :
        /\ t # u /\ pc'[t] \in BlinkPlaces /\ pc'[u] \in BlinkPlaces
        /\ call'[t].led_no = call'[u].led_no
        => call'[t].found = "met"
  BY DEF BlinkInv
<1>. QED
  BY <1>1, <1>2 DEF BlinkInv

(* One thread goes on, or returns, and leaves the delays. *)
LEMMA BlinkOther ==
  ASSUME BlinkInv, CallTypes, NEW t \in Threads, NEW next, NEW locals,
         pc' = [pc EXCEPT ![t] = next], call' = [call EXCEPT ![t] = locals],
         \A l \in UserLeds : /\ leds'[l].delay_on = leds[l].delay_on
                             /\ leds'[l].delay_off = leds[l].delay_off,
         next \in BlinkPlaces =>
           /\ pc[t] \in BlinkPlaces /\ locals = call[t]
           /\ next \in SecondHalf => pc[t] \in SecondHalf
  PROVE  BlinkInv'
<1>1. pc'[t] = next /\ call'[t] = locals
  BY DEF CallTypes
<1>2. \A u \in Threads \ {t} : pc'[u] = pc[u] /\ call'[u] = call[u]
  BY DEF CallTypes
<1>. QED
  BY <1>1, <1>2, BlinkApart

LEMMA BlinkBegins ==
  ASSUME BlinkInv, CallTypes, DeviceTypes, NEW t \in Threads, pc[t] = "idle",
         NEW led_no \in UserLeds, NEW on, NEW off, BeginBlink(t, led_no, on, off), UNCHANGED leds
  PROVE  BlinkInv'
<1> DEFINE others == {u \in Threads : Blinking(u, led_no)}
           found == IF others = {} THEN leds[led_no].delay_off ELSE "met"
           new == [fn |-> "blink_board_led", led_no |-> led_no, delay_on |-> on,
                   delay_off |-> off, found |-> found]
<1>1. /\ pc'[t] = "write_on" /\ \A u \in Threads \ {t} : pc'[u] = pc[u]
      /\ call'[t] = new
      /\ \A u \in Threads \ {t} :
           call'[u] = IF u \in others THEN [call[u] EXCEPT !.found = "met"] ELSE call[u]
  BY DEF BeginBlink, CallTypes
<1>2. call'[t].led_no = led_no /\ call'[t].found = found
  BY <1>1
<1> HIDE DEF new
<1>3. \A u \in Threads : u \in others <=> pc[u] \in BlinkPlaces /\ call[u].led_no = led_no
  BY BlinkPlace DEF Blinking
<1>4. \A u \in others \ {t} : call'[u].found = "met" /\ call'[u].led_no = led_no
  <2> SUFFICES ASSUME NEW u \in others \ {t}
               PROVE  call'[u].found = "met" /\ call'[u].led_no = led_no
    OBVIOUS
  <2>1. call[u] \in BlinkCall /\ call[u].led_no = led_no
    BY <1>3, BlinkPlace
  <2>2. call'[u] = [call[u] EXCEPT !.found = "met"]
    BY <1>1
  <2>. QED
    BY <2>1, <2>2 DEF BlinkCall
<1>5. t \notin others
  BY <1>3 DEF BlinkPlaces
<1> HIDE DEF others
<1>6. ASSUME NEW u \in Threads, pc'[u] \in BlinkPlaces, call'[u].found # "met"
      PROVE  Undisturbed(u)'
  <2>1. CASE u = t
    BY <1>1, <1>2, <1>6, <2>1 DEF Undisturbed, SecondHalf
  <2>2. CASE u # t
    <3>1. pc[u] \in BlinkPlaces /\ pc'[u] = pc[u] /\ call'[u] = call[u]
      BY <1>1, <1>4, <1>6, <2>2
    <3>. QED
      BY <1>6, <3>1 DEF BlinkInv, Undisturbed
  <2>. QED
    BY <2>1, <2>2
<1>7. ASSUME NEW u \in Threads, NEW v \in Threads, u # v, pc'[u] \in BlinkPlaces,
             pc'[v] \in BlinkPlaces, call'[u].led_no = call'[v].led_no
      PROVE  call'[u].found = "met"
  <2>1. CASE u = t
    <3>1. v \in others
      <4>1. v # t /\ pc[v] \in BlinkPlaces
        BY <1>1, <1>7, <2>1
      <4>. QED
        BY <1>1, <1>2, <1>3, <1>4, <1>7, <2>1, <4>1
    <3>. QED
      BY <1>2, <2>1, <3>1
  <2>2. CASE u # t /\ u \in others
    BY <1>4, <2>2
  <2>3. CASE u # t /\ u \notin others
    <3>1. call'[u] = call[u] /\ pc[u] \in BlinkPlaces /\ call[u].led_no # led_no
      BY <1>1, <1>3, <1>7, <2>3
    <3>2. v # t /\ v \notin others
      BY <1>2, <1>4, <1>7, <3>1
    <3>. QED
      BY <1>1, <1>7, <3>1, <3>2 DEF BlinkInv
  <2>. QED
    BY <2>1, <2>2, <2>3
<1>. QED
  BY <1>6, <1>7 DEF BlinkInv

(* The two halves. *)
LEMMA HalfWritten ==
  ASSUME BlinkInv, CallTypes, leds \in [UserLeds -> Led], NEW t \in Threads,
         pc[t] \in BlinkPlaces, NEW next,
         \/ next = "open_off" /\ call' = [call EXCEPT ![t] = call[t]]
            /\ Write(t, "delay_on", call[t].delay_on)
         \/ next = "idle" /\ call' = [call EXCEPT ![t] = NoCall]
            /\ Write(t, "delay_off", call[t].delay_off),
         pc' = [pc EXCEPT ![t] = next]
  PROVE  BlinkInv'
<1> DEFINE l == call[t].led_no
<1>1. l \in UserLeds
  BY BlinkPlace
<1>2. \A k \in UserLeds \ {l} : leds'[k] = leds[k]
  BY <1>1, LedAfter
<1>3. pc'[t] = next /\ \A u \in Threads \ {t} : pc'[u] = pc[u] /\ call'[u] = call[u]
  BY DEF CallTypes
<1>4. next = "open_off" => /\ call'[t] = call[t] /\ leds'[l].delay_on = call[t].delay_on
                           /\ leds'[l].delay_off = leds[l].delay_off
  <2> SUFFICES ASSUME next = "open_off"
               PROVE  /\ call'[t] = call[t] /\ leds'[l].delay_on = call[t].delay_on
                      /\ leds'[l].delay_off = leds[l].delay_off
    OBVIOUS
  <2>. QED
    BY <1>1, LedAfter DEF CallTypes
<1>5. next \in {"idle", "open_off"} /\ "idle" \notin BlinkPlaces
  BY DEF BlinkPlaces
<1>6. ASSUME NEW u \in Threads \ {t}, pc'[u] \in BlinkPlaces, call'[u].found # "met"
      PROVE  Undisturbed(u)'
  <2>1. pc[u] \in BlinkPlaces /\ call[u].found # "met"
    BY <1>3, <1>6
  <2>2. call[u].led_no # l /\ call[u].led_no \in UserLeds
    BY <2>1, BlinkPlace DEF BlinkInv
  <2>3. Undisturbed(u)
    BY <2>1 DEF BlinkInv
  <2>. QED
    BY <1>2, <1>3, <2>2, <2>3 DEF Undisturbed
<1>7. ASSUME pc'[t] \in BlinkPlaces, call'[t].found # "met"
      PROVE  Undisturbed(t)'
  <2>1. next = "open_off"
    BY <1>3, <1>5, <1>7
  <2>2. Undisturbed(t)
    BY <1>4, <1>7, <2>1 DEF BlinkInv
  <2>. QED
    BY <1>4, <2>1, <2>2 DEF Undisturbed
<1>8. \A u, v \in Threads :
        /\ u # v /\ pc'[u] \in BlinkPlaces /\ pc'[v] \in BlinkPlaces
        /\ call'[u].led_no = call'[v].led_no
        => call'[u].found = "met"
  BY <1>3, <1>4, <1>5 DEF BlinkInv
<1>. QED
  BY <1>6, <1>7, <1>8 DEF BlinkInv

LEMMA DelaysStay ==
  ASSUME UNCHANGED leds
  PROVE  \A l \in UserLeds : /\ leds'[l].delay_on = leds[l].delay_on
                             /\ leds'[l].delay_off = leds[l].delay_off
OBVIOUS

LEMMA BlinkReturns ==
  ASSUME BlinkInv, CallTypes, NEW t \in Threads, NEW value, Return(t, value),
         \A l \in UserLeds : /\ leds'[l].delay_on = leds[l].delay_on
                             /\ leds'[l].delay_off = leds[l].delay_off
  PROVE  BlinkInv'
<1>1. "idle" \notin BlinkPlaces
  BY DEF BlinkPlaces
<1>. QED
  BY <1>1, BlinkOther DEF Return

LEMMA BlinkGoes ==
  ASSUME BlinkInv, CallTypes, NEW t \in Threads, NEW next, NEW locals, Go(t, next, locals),
         UNCHANGED leds, next \notin BlinkPlaces
  PROVE  BlinkInv'
BY BlinkOther DEF Go

LEMMA BlinkOpens ==
  ASSUME BlinkInv, CallTypes, NEW t \in Threads, NEW file, NEW next, NEW locals, NEW error,
         OpenOr(t, file, next, locals, error), UNCHANGED leds, next \notin BlinkPlaces
  PROVE  BlinkInv'
BY BlinkGoes, BlinkReturns DEF OpenOr

LEMMA BlinkSupport ==
  ASSUME BlinkInv, CallTypes, DeviceTypes, NEW t \in Threads, SupportStep(t)
  PROVE  BlinkInv'
<1> USE DEF BlinkPlaces
<1>0. leds \in [UserLeds -> Led]
  BY DEF DeviceTypes, Led
<1>1. CASE GetSwitch(t)
  BY <1>1, BlinkOpens DEF GetSwitch
<1>11. ASSUME NEW code \in Buttons, WaitBtnTrigger(t, code) PROVE BlinkInv'
  BY <1>11, BlinkOpens DEF WaitBtnTrigger
<1>2. CASE ReadSwitch(t) \/ ShortRead(t)
  BY <1>2, BlinkReturns DEF ReadSwitch, ShortRead
<1>3. ASSUME NEW led_no \in LedNos, NEW on \in {0, 1}, SetBoardLed(t, led_no, on)
      PROVE  BlinkInv'
  BY <1>3, BlinkOpens, BlinkReturns DEF SetBoardLed
<1>4. ASSUME NEW led_no \in LedNos, NEW d \in Blinks, BlinkBoardLed(t, led_no, d[1], d[2])
      PROVE  BlinkInv'
  BY <1>4, BlinkBegins, BlinkReturns DEF BlinkBoardLed, At
<1>5. CASE WriteLed(t)
  <2>1. call[t].led_no \in UserLeds
    BY <1>5, PlaceCalls DEF WriteLed, At, CallTypes, LedCall
  <2>2. CASE Write(t, "brightness", 255 * call[t].on) /\ Return(t, 1)
    <3>1. \A l \in UserLeds : /\ leds'[l].delay_on = leds[l].delay_on
                              /\ leds'[l].delay_off = leds[l].delay_off
      BY <1>0, <2>1, <2>2, LedAfter
    <3>. QED
      BY <2>2, <3>1, BlinkReturns
  <2>. QED
    BY <1>5, <2>2, BlinkReturns DEF WriteLed, WriteFails
<1>6. CASE WriteOn(t)
  BY <1>0, <1>6, HalfWritten, BlinkReturns DEF WriteOn, At, WriteFails, Go
<1>7. CASE OpenOff(t)
  <2>1. Go(t, "write_off", call[t]) \/ Return(t, 0)
    BY <1>7 DEF OpenOff, OpenOr
  <2>. QED
    BY <1>7, <2>1, BlinkOther, BlinkReturns DEF OpenOff, At, Go, SecondHalf
<1>8. CASE WriteOff(t)
  BY <1>0, <1>8, HalfWritten, BlinkReturns DEF WriteOff, At, WriteFails, Return
<1>9. CASE ReadEvent(t) \/ FailedRead(t)
  BY <1>9, BlinkGoes, BlinkReturns DEF ReadEvent, FailedRead
<1>10. CASE ScanBeyond(t)
  <2>1. CASE UNCHANGED <<fdVars, callVars>>
    BY <1>10, <2>1, BlinkApart DEF ScanBeyond, callVars
  <2>. QED
    BY <1>10, <2>1, BlinkReturns DEF ScanBeyond
<1>. QED
  BY <1>1, <1>2, <1>3, <1>4, <1>5, <1>6, <1>7, <1>8, <1>9, <1>10, <1>11 DEF SupportStep

LEMMA BlinkEvent ==
  ASSUME BlinkInv, CallTypes, NEW code, Event(code)
  PROVE  BlinkInv'
<1>1. UNCHANGED <<leds, pc>>
  BY DEF Event
<1>2. \A t \in Threads : pc[t] \in BlinkPlaces => call'[t] = call[t]
  BY DEF Event, BlinkPlaces
<1>. QED
  BY <1>1, <1>2, BlinkApart

LEMMA BlinkInductive == BlinkInv /\ CallTypes /\ DeviceTypes /\ [Next]_vars => BlinkInv'
<1> SUFFICES ASSUME BlinkInv, CallTypes, DeviceTypes, [Next]_vars PROVE BlinkInv'
  OBVIOUS
<1>1. ASSUME NEW t \in Threads, GpsStep(t), UNCHANGED leds PROVE BlinkInv'
  <2>1. \A next \in {"bind", "recv", "match"} : next \notin BlinkPlaces
    BY DEF BlinkPlaces
  <2>2. ASSUME NEW id \in Ids, GetGPS(t, id) PROVE BlinkInv'
    BY <1>1, <2>1, <2>2, BlinkOpens DEF GetGPS
  <2>3. CASE Bind(t) \/ Match(t)
    BY <1>1, <2>1, <2>3, BlinkGoes, BlinkReturns DEF Bind, Match
  <2>4. CASE Receive(t)
    BY <1>1, <2>1, <2>4, BlinkGoes DEF Receive
  <2>. QED
    BY <1>1, <2>2, <2>3, <2>4 DEF GpsStep
<1>2. CASE UNCHANGED <<pc, call, leds>>
  BY <1>2, BlinkApart
<1>. QED
  BY <1>1, <1>2, BlinkSupport, BlinkEvent
     DEF Next, ThreadStep, Press, Send, SendPosition, Crashed, vars, callVars

(* What a thread's step leaves of another's call. *)
LEMMA OthersCall ==
  ASSUME CallTypes, NEW u \in Threads, ThreadStep(u), NEW t \in Threads \ {u},
         call[t].fn = "blink_board_led"
  PROVE  call'[t].fn = "blink_board_led"
<1>1. CASE \E locals : call' = [call EXCEPT ![u] = locals]
  BY <1>1 DEF CallTypes
<1>2. CASE UNCHANGED call
  BY <1>2
<1>3. CASE GpsStep(u)
  BY <1>1, <1>3 DEF GpsStep, GetGPS, Bind, Receive, Match, OpenOr, Go, Return
<1>4. ASSUME NEW led_no, NEW on, NEW off, BeginBlink(u, led_no, on, off)
      PROVE  call'[t].fn = "blink_board_led"
  <2>1. call'[t] = call[t] \/ call'[t] = [call[t] EXCEPT !.found = "met"]
    BY <1>4 DEF BeginBlink
  <2>2. call[t] \in BlinkCall
    BY BlinkPlace
  <2>. QED
    BY <2>1, <2>2 DEF BlinkCall
<1>5. CASE SupportStep(u)
  BY <1>1, <1>2, <1>4, <1>5 DEF SupportStep, GetSwitch, ReadSwitch, SetBoardLed, BlinkBoardLed,
     WriteLed, WriteOn, OpenOff, WriteOff, WriteFails, WaitBtnTrigger, ReadEvent,
     ShortRead, FailedRead, ScanBeyond, OpenOr, Go, Return, callVars
<1>. QED
  BY <1>3, <1>5 DEF ThreadStep

BlinkingInv == DeviceInv /\ BlinkInv

(* Without an overlap, blink_board_led sets both delays or leaves the      *)
(* second as it was.                                                       *)
THEOREM BlinkInHalvesCorrect == Spec => BlinkInHalves
<1>1. Init => BlinkingInv
  BY DeviceInit DEF BlinkingInv, Init, DescriptorInit, BlinkInv, BlinkPlaces
<1>2. BlinkingInv /\ [Next]_vars => BlinkingInv'
  BY DeviceInductive, BlinkInductive DEF BlinkingInv, DeviceInv
<1>3. BlinkingInv /\ [Next]_vars => [HalvesWritten]_vars
  <2> SUFFICES ASSUME BlinkingInv, [Next]_vars, ~UNCHANGED vars, NEW t \in Threads,
                      call[t].fn = "blink_board_led", call'[t] = NoCall, call[t].found # "met"
               PROVE  LET led == leds'[call[t].led_no] IN
                        IF result'[t] = 1
                        THEN led.delay_on = call[t].delay_on /\ led.delay_off = call[t].delay_off
                        ELSE led.delay_off = call[t].found
    BY DEF HalvesWritten
  <2>1. CallTypes /\ BlinkInv /\ leds \in [UserLeds -> Led] /\ DOMAIN result = Threads
    BY DEF BlinkingInv, DeviceInv, DeviceTypes, Led
  <2>2. pc[t] \in BlinkPlaces /\ call[t].led_no \in UserLeds /\ call[t] # NoCall
    BY <2>1, BlinkPlace
  <2>3. Undisturbed(t)
    BY <2>1, <2>2 DEF BlinkInv
  <2>4. PICK u \in Threads : ThreadStep(u)
    <3>1. ~ \E code \in Codes : Press(code)
      BY <2>2 DEF Press, Event, BlinkPlaces
    <3>2. ~ \E d \in Datagrams : Send(d)
      BY <2>2 DEF Send, SendPosition, callVars
    <3>. QED
      BY <3>1, <3>2 DEF Next, Crashed
  <2>5. u = t
    BY <2>1, <2>4, OthersCall DEF NoCall
  <2>6. WriteOn(t) \/ OpenOff(t) \/ WriteOff(t)
    BY <2>2, <2>4, <2>5 DEF ThreadStep, GpsStep, GetGPS, Bind, Receive, Match, SupportStep,
       GetSwitch, ReadSwitch, SetBoardLed, BlinkBoardLed, WriteLed, WaitBtnTrigger, ReadEvent,
       ShortRead, FailedRead, ScanBeyond, At, BlinkPlaces
  <2>7. CASE Return(t, 0) /\ UNCHANGED leds
    BY <2>1, <2>3, <2>7 DEF Undisturbed, Return
  <2>8. CASE pc[t] = "write_off" /\ Write(t, "delay_off", call[t].delay_off) /\ Return(t, 1)
    <3>1. /\ leds'[call[t].led_no].delay_off = call[t].delay_off
          /\ leds'[call[t].led_no].delay_on = leds[call[t].led_no].delay_on
      BY <2>1, <2>2, <2>8, LedAfter
    <3>2. leds[call[t].led_no].delay_on = call[t].delay_on
      BY <2>3, <2>8 DEF Undisturbed, SecondHalf
    <3>. QED
      BY <2>1, <2>8, <3>1, <3>2 DEF Return
  <2>9. \A next : ~Go(t, next, call[t])
    BY <2>1, <2>2 DEF Go, CallTypes
  <2>. QED
    BY <2>6, <2>7, <2>8, <2>9 DEF WriteOn, OpenOff, WriteOff, WriteFails, OpenOr, At
<1>. QED
  BY <1>1, <1>2, <1>3, PTL DEF Spec, BlinkInHalves
=============================================================================
