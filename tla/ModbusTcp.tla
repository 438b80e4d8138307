------------------------------ MODULE ModbusTcp ------------------------------
(***************************************************************************)
(* The Modbus TCP client (drivers/mgate5101_driver/src/modbus_tcp.cpp) and *)
(* what MGateDriver makes of its results.                                  *)
(*                                                                         *)
(* One request is outstanding at a time, but a request that timed out may  *)
(* be answered later, and a timeout in the middle of a reply leaves the    *)
(* rest of it in the socket.  wire holds what has been or will still be    *)
(* received on this connection, in order.  A reply is two pieces, its MBAP *)
(* header and its body; the rest of a piece whose first bytes have been    *)
(* read is "junk".  What tells requests apart is their age: the number of  *)
(* requests sent since.                                                    *)
(*                                                                         *)
(* Assumed of the gateway: it answers in order, and while a connection     *)
(* lasts it is never more than Late requests behind.  Assumed of misread   *)
(* bytes: they are never taken for the header of the awaited reply (its    *)
(* transaction id, protocol 0 and a plausible length).                     *)
(***************************************************************************)
EXTENDS Integers, Sequences

CONSTANTS
  TidSpace,      \* the number of transaction ids: 2^16
  MaxAttempts,   \* the frames one transaction will look at: 4
  Late           \* bound: how many requests the gateway may be behind

ASSUME ModbusAssumption ==
  /\ TidSpace \in Nat /\ MaxAttempts \in Nat \ {0}
  /\ Late \in Nat /\ Late < TidSpace

Tids   == 0 .. TidSpace - 1
Parts  == {"header", "body", "junk"}
Pieces == [part : Parts, tid : Tids, age : 0 .. Late]
Results == {"none", "ok", "timeout", "modbus_exception", "socket_error",
            "protocol_error"}

NoHeader == [part |-> "header", tid |-> 0, age |-> 0]

VARIABLES
  connected,   \* sock_ is valid
  tid,         \* tid_
  pc,          \* "idle", or what transact() waits for: "header" or "body"
  attempt,     \* the loop counter of transact()
  hdr,         \* the header read last
  wire,        \* the replies to come on this connection
  result,      \* of the last transaction; "none" while one is under way
  answered,    \* history: the age of the request whose reply was accepted
  healthy,     \* the gateway accepts connections and answers in time
  calm,        \* history: healthy since this transaction began
  failures     \* history: calm transactions that failed in a row (two at most)

clientVars == <<connected, tid, pc, attempt, hdr, wire, result, answered>>
vars == <<clientVars, healthy, calm, failures>>

TypeOK ==
  /\ connected \in BOOLEAN /\ tid \in Tids
  /\ pc \in {"idle", "header", "body"}
  /\ attempt \in 0 .. MaxAttempts - 1
  /\ hdr \in Pieces /\ wire \in Seq(Pieces)
  /\ result \in Results /\ answered \in 0 .. Late
  /\ {healthy, calm} \subseteq BOOLEAN /\ failures \in 0 .. 2

Init ==
  /\ connected = FALSE /\ tid = 0 /\ pc = "idle" /\ attempt = 0
  /\ hdr = NoHeader
  /\ wire = <<>> /\ result = "none" /\ answered = 0
  /\ healthy = FALSE /\ calm = FALSE /\ failures = 0
-----------------------------------------------------------------------------
(* How a transaction ends. *)

\* exchange() hands the result to the driver, which closes the connection after a
\* socket or protocol error, and only then.
\* Mutant: only a socket error closes it.
DisconnectsMutant(status) == status = "socket_error"
DisconnectsOn(status) == status \in {"socket_error", "protocol_error"}

\* transact() returns status with the pieces w left; dropped: it closed the
\* socket itself.
Returns(status, dropped, w) ==
  /\ pc' = "idle" /\ attempt' = 0 /\ hdr' = NoHeader /\ result' = status
  /\ connected' = (~dropped /\ ~DisconnectsOn(status))
  /\ wire' = IF connected' THEN w ELSE <<>>
  /\ failures' = CASE status = "ok" -> 0
                   [] status # "ok" /\ calm -> IF failures = 0 THEN 1 ELSE 2
                   [] OTHER -> failures
  /\ calm' = FALSE
  /\ UNCHANGED healthy

\* The frame was not ours: look at the next one, or give up.
LooksFurther(w) ==
  IF attempt + 1 < MaxAttempts
  THEN /\ attempt' = attempt + 1 /\ pc' = "header" /\ hdr' = NoHeader /\ wire' = w
       /\ UNCHANGED <<connected, result, healthy, calm, failures>>
  ELSE Returns("protocol_error", FALSE, w)
-----------------------------------------------------------------------------
(* ensure_connected() and connect(): a new socket, the old replies are gone. *)
\* Mutant: a connection closed for a protocol error is not opened again.
ConnectIf(retries) ==
  /\ pc = "idle" /\ ~connected /\ retries
  /\ connected' = TRUE /\ wire' = <<>>
  /\ UNCHANGED <<tid, pc, attempt, hdr, result, answered, healthy, calm, failures>>
GiveUpMutant == ConnectIf(result # "protocol_error")
Connect == ConnectIf(TRUE)

ConnectFails ==
  /\ pc = "idle" /\ ~connected /\ ~healthy
  /\ result' \in {"socket_error", "timeout"}
  /\ UNCHANGED <<connected, tid, pc, attempt, hdr, wire, answered, healthy, calm,
                 failures>>

\* A read or write request goes out under the next transaction id.  The gateway
\* will answer it, unless it loses it.
NextTid == IF tid = TidSpace - 1 THEN 0 ELSE tid + 1
Aged(w) == [i \in DOMAIN w |-> [w[i] EXCEPT !.age = @ + 1]]
Reply(t) == <<[part |-> "header", tid |-> t, age |-> 0],
              [part |-> "body", tid |-> t, age |-> 0]>>

Send ==
  /\ pc = "idle" /\ connected
  /\ tid' = NextTid /\ pc' = "header" /\ result' = "none" /\ answered' = 0
  /\ \/ wire' = Aged(wire) \o Reply(NextTid)
     \/ ~healthy /\ wire' = Aged(wire)
  /\ calm' = healthy
  /\ UNCHANGED <<connected, attempt, hdr, healthy, failures>>

SendFails ==
  /\ pc = "idle" /\ connected /\ ~healthy
  /\ tid' = NextTid
  /\ Returns("socket_error", TRUE, <<>>)
  /\ UNCHANGED answered
-----------------------------------------------------------------------------
(* recv_exact(): the header, then the body. *)

Aligned == wire # <<>> /\ wire[1].part = "header"

RecvHeader ==
  /\ pc = "header" /\ Aligned
  /\ hdr' = wire[1] /\ wire' = Tail(wire) /\ pc' = "body"
  /\ UNCHANGED <<connected, tid, attempt, result, answered, healthy, calm, failures>>

\* Mutant: any frame will do.
MatchMutant == TRUE
Matches == hdr.tid = tid

\* A reply to an earlier request is skipped.
RecvStale ==
  /\ pc = "body" /\ wire # <<>> /\ ~Matches
  /\ LooksFurther(Tail(wire))
  /\ UNCHANGED <<tid, answered>>

\* Ours: the data, an exception response, or something malformed (another function
\* code; too few registers, which transact() accepts and read_registers() does not).
RecvReply ==
  /\ pc = "body" /\ wire # <<>> /\ Matches
  /\ answered' = hdr.age
  /\ \/ Returns("ok", FALSE, Tail(wire))
     \/ ~healthy /\ Returns("modbus_exception", FALSE, Tail(wire))
     \/ ~healthy /\ \E dropped \in BOOLEAN :
                      Returns("protocol_error", dropped, Tail(wire))
  /\ UNCHANGED tid

\* recv() times out: what is still to come has not arrived.
NotThere(w) == IF w = <<>> THEN TRUE ELSE ~healthy /\ w[1].age < Late
Torn(w) == <<[w[1] EXCEPT !.part = "junk"]>> \o Tail(w)

\* The bytes of a piece that did arrive in time are lost.
RecvTimeout ==
  /\ pc # "idle" /\ NotThere(wire)
  /\ \/ pc = "header" /\ Returns("timeout", FALSE, wire)
     \/ wire # <<>> /\ Returns("timeout", FALSE, Torn(wire))
  /\ UNCHANGED <<tid, answered>>

PeerCloses ==
  /\ pc # "idle" /\ ~healthy
  /\ Returns("socket_error", TRUE, <<>>)
  /\ UNCHANGED <<tid, answered>>

\* The next seven bytes are not a header, but are read as one.  They are no valid
\* header; or they announce a body, which swallows n pieces and perhaps a part of
\* the next, and is skipped; or the body is longer than what arrives in time.
AfterMisread(n) ==
  LET rest == SubSeq(wire, n + 1, Len(wire))
  IN  {rest} \cup IF rest = <<>> THEN {} ELSE {Torn(rest)}

Misread ==
  /\ pc = "header" /\ wire # <<>> /\ ~Aligned
  /\ \/ Returns("protocol_error", TRUE, <<>>)
     \/ \E n \in 0 .. Len(wire) : \E w \in AfterMisread(n) : LooksFurther(w)
     \/ \E n \in 0 .. Len(wire) : \E w \in AfterMisread(n) :
          NotThere(w) /\ Returns("timeout", FALSE, w)
  /\ UNCHANGED <<tid, answered>>

Client ==
  \/ Connect \/ ConnectFails \/ Send \/ SendFails
  \/ RecvHeader \/ RecvStale \/ RecvReply \/ RecvTimeout \/ PeerCloses \/ Misread

\* The gateway, or the network to it, falls ill or recovers.
Gateway ==
  /\ healthy' = ~healthy /\ calm' = FALSE /\ failures' = 0
  /\ UNCHANGED clientVars

Next == Client \/ Gateway

Spec == Init /\ [][Next]_vars

\* Every recv() and connect() has a timeout, and the poll thread goes on.
FairSpec == Spec /\ WF_vars(Client)
-----------------------------------------------------------------------------
\* An answer the client accepts is the answer to its own request, never the late
\* one to an earlier request (the loop of transact()).
AnswerIsOwn == result \in {"ok", "modbus_exception"} => answered = 0

\* Whatever was left in the socket by late, lost or torn replies, a gateway that
\* has recovered fails at most one transaction before one succeeds.
RecoversAtOnce == failures < 2

\* And one does succeed, again and again.
Recovers == <>[]healthy => []<>(result = "ok")
=============================================================================
