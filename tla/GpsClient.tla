----------------------------- MODULE GpsClient -----------------------------
(***************************************************************************)
(* gps_client.c: getGPS waits on a UDP port of the board for the position  *)
(* of one robot among those that the tracker (external) sends for every    *)
(* robot it sees.  The port has one owner, and a bind by another thread    *)
(* fails meanwhile.  The ids of robots are below 256; of a position only   *)
(* the id is told apart.                                                   *)
(***************************************************************************)
EXTENDS Descriptors, Sequences

CONSTANTS
  Ids,         (* the robots that positions are sent of and asked for       *)
  Backlog      (* datagrams the socket holds                                *)

ASSUME GpsAssumption == Backlog \in Nat \ {0}

Unknown == -1

(* What a datagram holds of the id: all of it, its first bytes, nothing.   *)
Extents == {"id", "part", "none"}
Datagrams == [id : Ids, extent : Extents]

VARIABLES
  port,        (* the descriptor bound to LOCAL_SERVER_PORT, or NoFd        *)
  inbox        (* the datagrams waiting there                               *)

gpsVars == <<port, inbox>>

GpsInit == port = NoFd /\ inbox = <<>>

GetGPS(t, id) ==
  /\ At(t, "idle")
  /\ OpenOr(t, "socket", "bind", [fn |-> "getGPS", id |-> id, pos |-> Unknown], 1)
  /\ UNCHANGED <<gpsVars, crashed>>

(* Without the port, returns with the socket open. *)
Bind(t) ==
  /\ At(t, "bind")
  /\ \/ /\ port = NoFd /\ port' = fd[t]
        /\ Go(t, "recv", call[t]) /\ UNCHANGED fdVars
     \/ Leaked(t) /\ Return(t, 1) /\ UNCHANGED port
  /\ UNCHANGED <<inbox, crashed>>

(* The id in pos after recvfrom has stored a datagram over it.  The bytes  *)
(* that stay are those of -1, which makes no robot's id of the part, or    *)
(* the zeroes of an id.                                                    *)
Filled(pos, d) ==
  IF d.extent = "none" \/ (d.extent = "part" /\ pos = Unknown) THEN pos ELSE d.id

(* A round of the loop.  One whose recvfrom fails changes nothing and is   *)
(* followed at once by the next.                                           *)
Receive(t) ==
  /\ At(t, "recv") /\ inbox # <<>>
  /\ Go(t, "match", [call[t] EXCEPT !.pos = Filled(@, Head(inbox))])
  /\ inbox' = Tail(inbox)
  /\ UNCHANGED <<fdVars, port, crashed>>

(* Faulty: match is never set. *)
MatchNone(t) ==
  /\ At(t, "match")
  /\ Go(t, "recv", call[t])
  /\ UNCHANGED <<fdVars, port, inbox, crashed>>

Match(t) ==
  /\ At(t, "match")
  /\ IF call[t].pos = call[t].id
     THEN Closed(t) /\ Return(t, 0) /\ port' = NoFd /\ inbox' = <<>>
     ELSE Go(t, "recv", call[t]) /\ UNCHANGED <<fdVars, port, inbox>>
  /\ UNCHANGED crashed

GpsStep(t) ==
  (\E id \in Ids : GetGPS(t, id)) \/ Bind(t) \/ Receive(t) \/ Match(t)

(* The tracker.                                                            *)
SendPosition(d) ==
  /\ ~crashed /\ port # NoFd
  /\ inbox' = IF Len(inbox) < Backlog THEN Append(inbox, d) ELSE inbox
  /\ UNCHANGED <<fdVars, callVars, port, crashed>>
=============================================================================
