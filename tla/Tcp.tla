-------------------------------- MODULE Tcp --------------------------------
(***************************************************************************)
(* The TCP connections under the program, and what its socket calls do to  *)
(* them.  One record per connection: both endpoints, the bytes each way,   *)
(* and the history of what was asked and answered on it.                   *)
(*                                                                         *)
(* cli   the connecting end: fin once it closed, rst when that close (or a *)
(*       later write of the server) reset the connection, gone when a call *)
(*       of the server has been given the error                            *)
(* srv   the accepting end: queued in the listen backlog until accept()    *)
(* up    halves of requests that reached the server                        *)
(* late  halves of requests still under way                                *)
(* down  units of responses that reached the client                        *)
(* asked, answered   history: blocks requested, and blocks responded to    *)
(***************************************************************************)
EXTENDS Wire

CONSTANTS Conns,          \* connections; each is opened at most once
          Fragmentation   \* TRUE: the network may cut a request in two

ASSUME TcpAssumption == Fragmentation \in BOOLEAN

VARIABLE net

Link == [cli : {"none", "open", "fin", "rst", "gone"},
         srv : {"none", "queued", "open", "closed"},
         up : Seq(Half), late : Seq(Half), down : Seq(Unit),
         asked : Seq(0 .. BlockCount), answered : Seq(0 .. BlockCount)]

NetInit == net = [k \in Conns |->
    [cli |-> "none", srv |-> "none", up |-> << >>, late |-> << >>,
     down |-> << >>, asked |-> << >>, answered |-> << >>]]

----------------------------------------------------------------------------
(* The connecting end.                                                      *)

Connected(t) == [t EXCEPT !.cli = "open", !.srv = "queued"]

\* The two ways a request of 13 bytes arrives; what follows a late half is late.
Sent(t, m) ==
    LET q == [t EXCEPT !.asked = Append(@, m.block)]
    IN  IF t.srv = "closed" THEN {t}
        ELSE IF t.late # << >>
             THEN {[q EXCEPT !.late = @ \o Halves(m)]}
             ELSE {[q EXCEPT !.up = @ \o Halves(m)]} \cup
                  (IF Fragmentation
                   THEN {[q EXCEPT !.up = Append(@, Halves(m)[1]),
                                   !.late = << Halves(m)[2] >>]}
                   ELSE {})

Arrived(t) == [t EXCEPT !.up = Append(@, Head(t.late)), !.late = Tail(@)]

\* Closing with unread data resets the connection, and what is late is lost.
ClosedByClient(t) ==
    IF t.down = << >> THEN [t EXCEPT !.cli = "fin"]
    ELSE [t EXCEPT !.cli = "rst", !.down = << >>, !.late = << >>]

----------------------------------------------------------------------------
(* The accepting end.                                                       *)

Accepted(t) == [t EXCEPT !.srv = "open"]

Left(t) == t.cli \in {"fin", "rst", "gone"}

HungUp(t) == Left(t) /\ t.late = << >>

\* poll() reports POLLIN for bytes to read, end of stream and errors.
Readable(t) == t.up # << >> \/ HungUp(t)

\* Writing to an end that closed is answered with a reset; after that send()
\* fails, and the first call to fail takes the error.
Written(t, units) ==
    IF t.cli = "open" THEN [t EXCEPT !.down = @ \o units]
    ELSE [t EXCEPT !.cli = IF @ = "fin" THEN "rst" ELSE "gone", !.late = << >>]

ClosedByServer(t) == [t EXCEPT !.srv = "closed", !.up = << >>, !.late = << >>]

----------------------------------------------------------------------------
(* utils_recv_all of RAW_MESSAGE_SIZE bytes on a non-blocking descriptor:   *)
(* recv() is called until 13 bytes are read or one call returns less than   *)
(* 1, and what earlier calls read is then dropped.                          *)

\* Bug: any result below 1 is taken for the end of the stream.
RecvEnds(t) == IF Len(t.up) >= 2 THEN "full" ELSE "eof"

RecvResult(t) == IF Len(t.up) >= 2 THEN "full"
                 ELSE IF HungUp(t) /\ t.cli # "rst" THEN "eof"
                 ELSE "error"

RecvMessage(t) == IF t.up[1].half = "head" THEN t.up[1].msg ELSE Garbage

\* A reset is reported once, as an error; the stream then ends.
Received(t) ==
    [t EXCEPT !.up = IF Len(@) >= 2 THEN Tail(Tail(@)) ELSE << >>,
              !.cli = IF Len(t.up) < 2 /\ @ = "rst" THEN "gone" ELSE @]

(* utils_send_all: the first n units of a response leave, then send()       *)
(* returns less than 1 or there is nothing left to send.                    *)
SendAll(t, units, n, b) ==
    [Written(t, SubSeq(units, 1, n))
        EXCEPT !.answered = IF t.cli = "open" THEN Append(@, b) ELSE @]
=============================================================================
