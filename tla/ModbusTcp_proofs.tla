-------------------------- MODULE ModbusTcp_proofs --------------------------
(***************************************************************************)
(* The Modbus TCP client tells its own answer from late ones, and recovers *)
(* at once, for every transaction id space and every lateness below it.    *)
(***************************************************************************)
EXTENDS ModbusTcp, SequenceTheorems, TLAPS

\* A piece of a reply to the request sent age requests before the one with id t.
SentBefore(p, t) ==
  t = IF p.tid + p.age < TidSpace THEN p.tid + p.age ELSE p.tid + p.age - TidSpace

\* What is left on a connection whose last request has id t: pieces of earlier
\* requests in the order of the requests, two to a request.
InOrder(w) ==
  \A i, j \in 1 .. Len(w) :
    i < j => /\ w[j].age <= w[i].age
             /\ i + 1 < j => w[j].age < w[i].age
Backlog(w, t) ==
  /\ w \in Seq(Pieces)
  /\ \A i \in 1 .. Len(w) : SentBefore(w[i], t)
  /\ InOrder(w)

\* No piece is so old that one more request would make the gateway too late.
OnTime(w) == \A i \in 1 .. Len(w) : w[i].age < Late

\* The header read last stands before what is left.
HeaderFirst ==
  /\ SentBefore(hdr, tid)
  /\ \A i \in 1 .. Len(wire) : /\ wire[i].age <= hdr.age
                               /\ 1 < i => wire[i].age < hdr.age

WireInv ==
  /\ Backlog(wire, tid)
  /\ pc = "idle" => OnTime(wire)
  /\ pc = "body" => HeaderFirst
  /\ ~connected => pc = "idle" /\ wire = <<>>

\* After one calm failure nothing but the next request's own reply is under way.
CalmInv ==
  /\ calm \/ failures > 0 => healthy
  /\ failures = 1 => /\ pc = "idle" => wire = <<>>
                     /\ pc = "header" => wire = Reply(tid)
                     /\ pc = "body" => hdr = Reply(tid)[1] /\ wire = Tail(Reply(tid))

IInv == TypeOK /\ WireInv /\ AnswerIsOwn /\ CalmInv /\ RecoversAtOnce
-----------------------------------------------------------------------------
(* What the client and the gateway do to the backlog. *)

\* The pieces of a backlog are pieces, and it has a length.
LEMMA BacklogType ==
  ASSUME NEW w \in Seq(Pieces)
  PROVE  /\ Len(w) \in Nat /\ DOMAIN w = 1 .. Len(w)
         /\ \A i \in 1 .. Len(w) : /\ w[i] \in Pieces
                                   /\ w[i].tid \in Tids /\ w[i].age \in 0 .. Late
         /\ w # <<>> => Len(w) > 0 /\ w[1] \in Pieces
<1>1. Len(w) \in Nat /\ DOMAIN w = 1 .. Len(w)
  BY LenProperties
<1>2. \A i \in 1 .. Len(w) : w[i] \in Pieces
  BY ElementOfSeq
<1>3. w # <<>> => Len(w) > 0
  BY <1>1, EmptySeq
<1> QED
  BY <1>1, <1>2, <1>3 DEF Pieces

\* A new connection has no backlog.
LEMMA BacklogEmpty ==
  ASSUME NEW t PROVE Backlog(<<>>, t) /\ OnTime(<<>>)
BY EmptySeq DEF Backlog, InOrder, OnTime

\* Reading pieces off its front leaves a backlog.
LEMMA BacklogSuffix ==
  ASSUME NEW t, NEW w, Backlog(w, t), NEW n \in 0 .. Len(w),
         NEW v, v = SubSeq(w, n + 1, Len(w))
  PROVE  /\ Backlog(v, t) /\ Len(v) = Len(w) - n
         /\ \A i \in 1 .. Len(v) : v[i] = w[n + i]
<1>1. Len(w) \in Nat /\ n \in Nat /\ \A i \in 1 .. Len(w) : w[i] \in Pieces
  BY BacklogType DEF Backlog
<1>2. /\ v \in Seq(Pieces) /\ Len(v) = Len(w) - n
      /\ \A i \in 1 .. Len(w) - n : v[i] = w[n + i]
  <2>1. \A i \in n + 1 .. Len(w) : w[i] \in Pieces
    BY <1>1
  <2>2. n + 1 \in Int /\ Len(w) \in Int
    BY <1>1
  <2>3. /\ v \in Seq(Pieces)
        /\ Len(v) = IF n + 1 <= Len(w) THEN Len(w) - (n + 1) + 1 ELSE 0
        /\ \A i \in 1 .. Len(w) - (n + 1) + 1 : v[i] = w[(n + 1) + i - 1]
    BY <2>1, <2>2, SubSeqProperties
  <2> QED
    BY <1>1, <2>3
<1>3. InOrder(v)
  <2> SUFFICES ASSUME NEW i \in 1 .. Len(v), NEW j \in 1 .. Len(v), i < j
               PROVE  /\ v[j].age <= v[i].age
                      /\ i + 1 < j => v[j].age < v[i].age
    BY DEF InOrder
  <2>1. n + i \in 1 .. Len(w) /\ n + j \in 1 .. Len(w) /\ n + i < n + j
    BY <1>1, <1>2
  <2>2. v[i] = w[n + i] /\ v[j] = w[n + j] /\ (i + 1 < j => (n + i) + 1 < n + j)
    BY <1>1, <1>2
  <2>3. /\ w[n + j].age <= w[n + i].age
        /\ (n + i) + 1 < n + j => w[n + j].age < w[n + i].age
    BY <2>1 DEF Backlog, InOrder
  <2> QED
    BY <2>2, <2>3
<1>4. \A i \in 1 .. Len(v) : SentBefore(v[i], t)
  BY <1>1, <1>2 DEF Backlog
<1> QED
  BY <1>1, <1>2, <1>3, <1>4 DEF Backlog

LEMMA BacklogTail ==
  ASSUME NEW t, NEW w, Backlog(w, t), w # <<>>
  PROVE  /\ Backlog(Tail(w), t) /\ Len(Tail(w)) = Len(w) - 1
         /\ \A i \in 1 .. Len(Tail(w)) : Tail(w)[i] = w[1 + i]
<1>1. w \in Seq(Pieces) /\ Len(w) \in Nat /\ Len(w) > 0
  BY BacklogType DEF Backlog
<1> DEFINE v == Tail(w)
           n == 1
<1>2. v = SubSeq(w, n + 1, Len(w)) /\ n \in 0 .. Len(w)
  BY <1>1, TailIsSubSeq
<1> HIDE DEF v, n
<1>3. Backlog(v, t)
  BY <1>2, BacklogSuffix
<1>4. Len(v) = Len(w) - n
  BY <1>2, BacklogSuffix
<1>5. \A i \in 1 .. Len(v) : v[i] = w[n + i]
  BY <1>2, BacklogSuffix
<1> QED
  BY <1>3, <1>4, <1>5 DEF v, n

\* Losing the first bytes of a piece leaves a backlog of the same ages.
LEMMA BacklogTorn ==
  ASSUME NEW t, NEW w, Backlog(w, t), w # <<>>
  PROVE  /\ Backlog(Torn(w), t) /\ Len(Torn(w)) = Len(w)
         /\ \A i \in 1 .. Len(w) : Torn(w)[i].age = w[i].age
<1> DEFINE p == [w[1] EXCEPT !.part = "junk"]
           v == <<p>> \o Tail(w)
<1>1. w \in Seq(Pieces) /\ Len(w) \in Nat /\ Len(w) > 0 /\ w[1] \in Pieces
  BY BacklogType DEF Backlog
<1>2. p \in Pieces /\ p.age = w[1].age /\ p.tid = w[1].tid
  BY <1>1 DEF Pieces, Parts
<1> HIDE DEF p
<1>3. /\ Tail(w) \in Seq(Pieces) /\ Len(Tail(w)) = Len(w) - 1
      /\ \A i \in 1 .. Len(w) - 1 : Tail(w)[i] = w[1 + i]
  BY BacklogTail DEF Backlog
<1>4. <<p>> \in Seq(Pieces) /\ Len(<<p>>) = 1 /\ <<p>>[1] = p
  BY <1>2
<1>5. /\ v \in Seq(Pieces) /\ Len(v) = Len(<<p>>) + Len(Tail(w))
      /\ \A i \in 1 .. Len(<<p>>) + Len(Tail(w)) : v[i] =
           IF i <= Len(<<p>>) THEN <<p>>[i] ELSE Tail(w)[i - Len(<<p>>)]
  BY <1>3, <1>4, ConcatProperties
<1>6. /\ Len(v) = Len(w) /\ v[1] = p
      /\ \A i \in 2 .. Len(w) : v[i] = w[i]
  BY <1>1, <1>3, <1>4, <1>5
<1>7. Torn(w) = v
  BY DEF Torn, p
<1> HIDE DEF v
<1>8. \A i \in 1 .. Len(w) : v[i].age = w[i].age /\ v[i].tid = w[i].tid
  BY <1>1, <1>2, <1>6
<1>9. InOrder(v)
  BY <1>1, <1>6, <1>8 DEF Backlog, InOrder
<1>10. \A i \in 1 .. Len(v) : SentBefore(v[i], t)
  BY <1>6, <1>8 DEF Backlog, SentBefore
<1> QED
  BY <1>5, <1>6, <1>7, <1>8, <1>9, <1>10 DEF Backlog

\* Sending makes the backlog one request older; the reply to come closes it.
LEMMA BacklogAged ==
  ASSUME tid \in Tids, NEW w, Backlog(w, tid), OnTime(w)
  PROVE  /\ Backlog(Aged(w), NextTid) /\ Len(Aged(w)) = Len(w)
         /\ \A i \in 1 .. Len(w) : Aged(w)[i].age = w[i].age + 1
<1> DEFINE v == Aged(w)
<1> USE ModbusAssumption
<1>1. /\ w \in Seq(Pieces) /\ Len(w) \in Nat /\ DOMAIN w = 1 .. Len(w)
      /\ \A i \in 1 .. Len(w) : /\ w[i] \in Pieces
                                /\ w[i].tid \in Tids /\ w[i].age \in 0 .. Late
  BY BacklogType DEF Backlog
<1>2. \A i \in 1 .. Len(w) : v[i] = [w[i] EXCEPT !.age = @ + 1]
  BY <1>1 DEF Aged
<1>3. \A i \in 1 .. Len(w) : /\ v[i] \in Pieces /\ v[i].age = w[i].age + 1
                             /\ v[i].tid = w[i].tid
  <2> SUFFICES ASSUME NEW i \in 1 .. Len(w)
               PROVE  /\ v[i] \in Pieces /\ v[i].age = w[i].age + 1
                      /\ v[i].tid = w[i].tid
    OBVIOUS
  <2>1. w[i].age + 1 \in 0 .. Late
    BY <1>1 DEF OnTime
  <2> QED
    BY <1>1, <1>2, <2>1 DEF Pieces
<1>4. v \in Seq(Pieces) /\ Len(v) = Len(w)
  <2>1. v = [i \in 1 .. Len(w) |-> [w[i] EXCEPT !.age = @ + 1]]
    BY <1>1 DEF Aged
  <2>2. v \in [1 .. Len(w) -> Pieces]
    BY <2>1, <1>2, <1>3
  <2> QED
    BY <1>1, <2>1, <2>2, SeqDef
<1> HIDE DEF v
<1>5. InOrder(v)
  BY <1>1, <1>3, <1>4 DEF Backlog, InOrder
<1>6. \A i \in 1 .. Len(v) : SentBefore(v[i], NextTid)
  <2> SUFFICES ASSUME NEW i \in 1 .. Len(w) PROVE SentBefore(v[i], NextTid)
    BY <1>4
  <2>1. SentBefore(w[i], tid) /\ w[i].age < Late
    BY DEF Backlog, OnTime
  <2>2. v[i].tid = w[i].tid /\ v[i].age = w[i].age + 1
    BY <1>3
  <2>3. w[i].tid \in 0 .. TidSpace - 1 /\ w[i].age \in 0 .. Late
    BY <1>1 DEF Tids
  <2>4. \A a \in 0 .. Late, b \in 0 .. TidSpace - 1 :
          (a < Late /\ tid = IF b + a < TidSpace THEN b + a ELSE b + a - TidSpace)
          => NextTid = IF b + (a + 1) < TidSpace THEN b + (a + 1)
                                                ELSE b + (a + 1) - TidSpace
    BY DEF NextTid, Tids
  <2> QED
    BY <2>1, <2>2, <2>3, <2>4 DEF SentBefore
<1> QED
  BY <1>3, <1>4, <1>5, <1>6 DEF Backlog, v

LEMMA BacklogReply ==
  ASSUME tid \in Tids, NEW w, Backlog(w, tid), OnTime(w)
  PROVE  Backlog(Aged(w) \o Reply(NextTid), NextTid)
<1> DEFINE a == Aged(w)
           r == Reply(NextTid)
           v == a \o r
<1> USE ModbusAssumption
<1>1. /\ a \in Seq(Pieces) /\ Len(a) \in Nat /\ Backlog(a, NextTid)
      /\ \A i \in 1 .. Len(a) : a[i].age \in Nat /\ a[i].age > 0
  <2>1. Len(w) \in Nat /\ \A i \in 1 .. Len(w) : w[i].age \in 0 .. Late
    BY BacklogType DEF Backlog
  <2> QED
    BY <2>1, BacklogAged, BacklogType DEF Backlog
<1>2. /\ r \in Seq(Pieces) /\ Len(r) = 2
      /\ \A i \in 1 .. 2 : r[i].age = 0 /\ r[i].tid = NextTid
  <2>1. NextTid \in Tids
    BY DEF NextTid, Tids
  <2> QED
    BY <2>1 DEF Reply, Pieces, Parts
<1> HIDE DEF a, r
<1>3. /\ v \in Seq(Pieces) /\ Len(v) = Len(a) + 2
      /\ \A i \in 1 .. Len(a) : v[i] = a[i]
      /\ \A i \in Len(a) + 1 .. Len(a) + 2 : v[i] = r[i - Len(a)]
  <2>1. /\ v \in Seq(Pieces) /\ Len(v) = Len(a) + Len(r)
        /\ \A i \in 1 .. Len(a) + Len(r) : v[i] =
             IF i <= Len(a) THEN a[i] ELSE r[i - Len(a)]
    BY <1>1, <1>2, ConcatProperties
  <2> QED
    BY <1>1, <1>2, <2>1
<1> HIDE DEF v
<1>4. \A i \in Len(a) + 1 .. Len(a) + 2 : v[i].age = 0 /\ v[i].tid = NextTid
  BY <1>1, <1>2, <1>3
<1>5. InOrder(v)
  <2> SUFFICES ASSUME NEW i \in 1 .. Len(v), NEW j \in 1 .. Len(v), i < j
               PROVE  /\ v[j].age <= v[i].age
                      /\ i + 1 < j => v[j].age < v[i].age
    BY DEF InOrder
  <2>1. CASE j <= Len(a)
    <3>1. i \in 1 .. Len(a) /\ j \in 1 .. Len(a)
      BY <1>1, <1>3, <2>1
    <3> QED
      BY <1>1, <1>3, <3>1 DEF Backlog, InOrder
  <2>2. CASE j > Len(a) /\ i <= Len(a)
    BY <1>1, <1>3, <1>4, <2>2
  <2>3. CASE i > Len(a)
    BY <1>1, <1>3, <1>4, <2>3
  <2> QED
    BY <1>1, <1>3, <2>1, <2>2, <2>3
<1>6. \A i \in 1 .. Len(v) : SentBefore(v[i], NextTid)
  <2>1. NextTid \in 0 .. TidSpace - 1
    BY DEF NextTid, Tids
  <2>2. \A i \in 1 .. Len(a) : SentBefore(v[i], NextTid)
    BY <1>1, <1>3 DEF Backlog
  <2>3. \A i \in Len(a) + 1 .. Len(a) + 2 : SentBefore(v[i], NextTid)
    BY <1>1, <1>4, <2>1 DEF SentBefore
  <2> QED
    BY <1>1, <1>3, <2>2, <2>3
<1> QED
  BY <1>3, <1>5, <1>6 DEF Backlog, v, a, r
\* A gateway that is not too late with the first piece is not with any other.
LEMMA NotThereOnTime ==
  ASSUME NEW t, NEW w, Backlog(w, t), NotThere(w)
  PROVE  OnTime(w) /\ (healthy => w = <<>>)
<1>1. CASE w = <<>>
  BY <1>1, BacklogEmpty
<1>2. CASE w # <<>>
  <2>1. /\ Len(w) \in Nat /\ Len(w) > 0 /\ w[1].age < Late /\ ~healthy
        /\ \A i \in 1 .. Len(w) : w[i].age \in 0 .. Late
    BY <1>2, BacklogType DEF Backlog, NotThere
  <2> SUFFICES ASSUME NEW i \in 1 .. Len(w) PROVE w[i].age < Late
    BY <2>1 DEF OnTime
  <2>2. CASE i = 1
    BY <2>1, <2>2
  <2>3. CASE i # 1
    <3>1. 1 \in 1 .. Len(w) /\ 1 < i
      BY <2>1, <2>3
    <3>2. w[i].age <= w[1].age
      BY <3>1 DEF Backlog, InOrder
    <3> QED
      BY <2>1, <3>1, <3>2, ModbusAssumption
  <2> QED
    BY <2>2, <2>3
<1> QED
  BY <1>1, <1>2
-----------------------------------------------------------------------------
(* How a step ends. *)

\* A transaction may end with any status that leaves no late piece, accepts no
\* answer but its own, and fails in calm only if nothing is left on the wire.
LEMMA ReturnsStep ==
  ASSUME TypeOK, CalmInv,
         NEW status \in Results, NEW dropped \in BOOLEAN, NEW w,
         Returns(status, dropped, w), tid' \in Tids, answered' \in 0 .. Late,
         Backlog(w, tid'), dropped \/ DisconnectsOn(status) \/ OnTime(w),
         status \in {"ok", "modbus_exception"} => answered' = 0,
         calm /\ status # "ok" => dropped \/ DisconnectsOn(status) \/ w = <<>>,
         failures = 1 => status = "ok", RecoversAtOnce
  PROVE  IInv'
<1> USE ModbusAssumption
<1>1. /\ pc' = "idle" /\ attempt' = 0 /\ hdr' = NoHeader /\ result' = status
      /\ connected' = (~dropped /\ ~DisconnectsOn(status))
      /\ wire' = (IF connected' THEN w ELSE <<>>)
      /\ calm' = FALSE /\ healthy' = healthy
  BY DEF Returns
<1>2. connected' \in BOOLEAN
  BY <1>1
<1>3. Backlog(wire', tid') /\ OnTime(wire') /\ (~connected' => wire' = <<>>)
  <2>1. CASE connected'
    BY <1>1, <2>1
  <2>2. CASE ~connected'
    BY <1>1, <2>2, BacklogEmpty
  <2> QED
    BY <2>1, <2>2
<1>4. WireInv'
  BY <1>1, <1>3 DEF WireInv
<1>5. /\ failures \in {0, 1}
      /\ failures' \in {0, 1}
      /\ failures' = 1 => failures = 0 /\ calm /\ status # "ok"
  <2>1. CASE status = "ok"
    BY <2>1 DEF Returns, TypeOK, RecoversAtOnce
  <2>2. CASE status # "ok" /\ calm
    BY <2>2 DEF Returns, TypeOK, RecoversAtOnce
  <2>3. CASE status # "ok" /\ ~calm
    BY <2>3 DEF Returns, TypeOK, RecoversAtOnce
  <2> QED
    BY <2>1, <2>2, <2>3
<1>6. CalmInv'
  <2>1. calm' \/ failures' > 0 => healthy'
    BY <1>1, <1>5 DEF CalmInv
  <2>2. failures' = 1 => wire' = <<>>
    BY <1>1, <1>5
  <2> QED
    BY <1>1, <2>1, <2>2 DEF CalmInv
<1>7. NoHeader \in Pieces
  BY DEF NoHeader, Pieces, Parts, Tids
<1>8. TypeOK'
  <2>1. {healthy', calm'} \subseteq BOOLEAN
    BY <1>1 DEF TypeOK
  <2>2. wire' \in Seq(Pieces)
    BY <1>3 DEF Backlog
  <2> QED
    BY <1>1, <1>2, <1>5, <1>7, <2>1, <2>2 DEF TypeOK
<1>9. AnswerIsOwn' /\ RecoversAtOnce'
  BY <1>1, <1>5 DEF AnswerIsOwn, RecoversAtOnce
<1> QED
  BY <1>4, <1>6, <1>8, <1>9 DEF IInv

\* A frame that is not the client's own is dropped, with what was taken for its body.
LEMMA LooksFurtherStep ==
  ASSUME IInv, pc # "idle", failures # 1,
         NEW w, Backlog(w, tid), LooksFurther(w),
         UNCHANGED <<tid, answered>>
  PROVE  IInv'
<1> USE ModbusAssumption
<1>1. CASE attempt + 1 < MaxAttempts
  <2>1. /\ attempt' = attempt + 1 /\ pc' = "header" /\ hdr' = NoHeader /\ wire' = w
        /\ UNCHANGED <<connected, result, healthy, calm, failures>>
    BY <1>1 DEF LooksFurther
  <2>2. NoHeader \in Pieces
    BY DEF NoHeader, Pieces, Parts, Tids
  <2>3. TypeOK'
    BY <1>1, <2>1, <2>2 DEF IInv, TypeOK, Backlog
  <2>4. CalmInv' /\ AnswerIsOwn' /\ RecoversAtOnce'
    BY <2>1 DEF IInv, CalmInv, AnswerIsOwn, RecoversAtOnce
  <2>5. WireInv'
    BY <2>1 DEF IInv, WireInv
  <2> QED
    BY <2>3, <2>4, <2>5 DEF IInv
<1>2. CASE ~(attempt + 1 < MaxAttempts)
  <2>1. Returns("protocol_error", FALSE, w)
    BY <1>2 DEF LooksFurther
  <2> QED
    BY <2>1, ReturnsStep DEF IInv, TypeOK, DisconnectsOn, Results
<1> QED
  BY <1>1, <1>2
-----------------------------------------------------------------------------
(* Every step keeps the invariant. *)

\* The initial state satisfies it.
LEMMA InitHolds == Init => IInv
<1> SUFFICES ASSUME Init PROVE IInv
  OBVIOUS
<1> USE ModbusAssumption
<1>1. WireInv
  BY BacklogEmpty DEF Init, WireInv
<1>2. TypeOK
  <2>1. <<>> \in Seq(Pieces) /\ NoHeader \in Pieces
    BY EmptySeq DEF NoHeader, Pieces, Parts, Tids
  <2>2. connected \in BOOLEAN /\ {healthy, calm} \subseteq BOOLEAN
    BY DEF Init
  <2>3. 0 \in Tids /\ 0 \in 0 .. MaxAttempts - 1 /\ 0 \in 0 .. Late
    BY DEF Tids
  <2> QED
    BY <2>1, <2>2, <2>3 DEF Init, TypeOK, Results
<1> QED
  BY <1>1, <1>2 DEF Init, IInv, AnswerIsOwn, RecoversAtOnce, CalmInv

LEMMA ConnectStep == ASSUME IInv, Connect PROVE IInv'
<1>1. Backlog(<<>>, tid) /\ OnTime(<<>>)
  BY BacklogEmpty
<1>2. WireInv'
  BY <1>1 DEF Connect, ConnectIf, WireInv
<1>3. TypeOK'
  BY <1>1 DEF IInv, Connect, ConnectIf, TypeOK, Backlog
<1> QED
  BY <1>2, <1>3 DEF IInv, Connect, ConnectIf, CalmInv, AnswerIsOwn, RecoversAtOnce

LEMMA ConnectFailsStep == ASSUME IInv, ConnectFails PROVE IInv'
<1>1. WireInv'
  BY DEF IInv, ConnectFails, WireInv, HeaderFirst, Backlog, SentBefore
<1>2. TypeOK'
  BY DEF IInv, ConnectFails, TypeOK, Results
<1> QED
  BY <1>1, <1>2 DEF IInv, ConnectFails, CalmInv, AnswerIsOwn, RecoversAtOnce

LEMMA SendStep == ASSUME IInv, Send PROVE IInv'
<1> USE ModbusAssumption
<1>1. tid \in Tids /\ Backlog(wire, tid) /\ OnTime(wire)
  BY DEF IInv, TypeOK, WireInv, Send
<1>2. Backlog(wire', tid')
  <2>1. CASE wire' = Aged(wire) \o Reply(NextTid)
    BY <1>1, <2>1, BacklogReply DEF Send
  <2>2. CASE wire' = Aged(wire)
    BY <1>1, <2>2, BacklogAged DEF Send
  <2> QED
    BY <2>1, <2>2 DEF Send
<1>3. WireInv'
  BY <1>2 DEF Send, WireInv
<1>4. TypeOK'
  <2>1. tid' \in Tids
    BY <1>1 DEF Send, NextTid, Tids
  <2> QED
    BY <1>2, <2>1 DEF IInv, TypeOK, Send, Backlog, Results
<1>5. CalmInv'
  <2>1. failures = 1 => wire' = Reply(NextTid)
    <3> SUFFICES ASSUME failures = 1 PROVE wire' = Reply(NextTid)
      OBVIOUS
    <3>1. wire = <<>> /\ healthy
      BY DEF IInv, CalmInv, Send
    <3>2. Aged(wire) = <<>>
      BY <3>1 DEF Aged
    <3> QED
      BY <3>1, <3>2 DEF Send, Reply
  <2> QED
    BY <2>1 DEF IInv, CalmInv, Send
<1> QED
  BY <1>3, <1>4, <1>5 DEF IInv, Send, AnswerIsOwn, RecoversAtOnce

LEMMA SendFailsStep == ASSUME IInv, SendFails PROVE IInv'
<1>1. tid' \in Tids
  BY ModbusAssumption DEF IInv, TypeOK, SendFails, NextTid, Tids
<1>2. failures # 1
  BY DEF IInv, CalmInv, SendFails
<1>3. Backlog(<<>>, tid')
  BY BacklogEmpty
<1> QED
  BY <1>1, <1>2, <1>3, ReturnsStep DEF IInv, TypeOK, SendFails, Results

LEMMA RecvHeaderStep == ASSUME IInv, RecvHeader PROVE IInv'
<1>1. Backlog(wire, tid) /\ wire # <<>> /\ wire \in Seq(Pieces)
  BY DEF IInv, WireInv, RecvHeader, Aligned, Backlog
<1>2. /\ Backlog(wire', tid') /\ Len(wire') = Len(wire) - 1
      /\ \A i \in 1 .. Len(wire') : wire'[i] = wire[1 + i]
  BY <1>1, BacklogTail DEF RecvHeader
<1>3. Len(wire) \in Nat /\ Len(wire) > 0 /\ wire[1] \in Pieces
  BY <1>1, BacklogType
<1>4. HeaderFirst'
  <2>1. SentBefore(hdr', tid')
    BY <1>1, <1>3 DEF RecvHeader, Backlog
  <2>2. \A i \in 1 .. Len(wire') : /\ wire'[i].age <= hdr'.age
                                   /\ 1 < i => wire'[i].age < hdr'.age
    <3> SUFFICES ASSUME NEW i \in 1 .. Len(wire')
                 PROVE  /\ wire'[i].age <= hdr'.age
                        /\ 1 < i => wire'[i].age < hdr'.age
      OBVIOUS
    <3>1. 1 \in 1 .. Len(wire) /\ 1 + i \in 1 .. Len(wire) /\ 1 < 1 + i
      BY <1>2, <1>3
    <3>2. /\ wire[1 + i].age <= wire[1].age
          /\ 1 + 1 < 1 + i => wire[1 + i].age < wire[1].age
      BY <1>1, <3>1 DEF Backlog, InOrder
    <3> QED
      BY <1>2, <1>3, <3>2 DEF RecvHeader
  <2> QED
    BY <2>1, <2>2 DEF HeaderFirst, SentBefore
<1>5. WireInv'
  BY <1>2, <1>4 DEF IInv, WireInv, RecvHeader
<1>6. TypeOK'
  BY <1>2, <1>3 DEF IInv, TypeOK, RecvHeader, Backlog
<1>7. CalmInv'
  BY DEF IInv, CalmInv, RecvHeader
<1> QED
  BY <1>5, <1>6, <1>7 DEF IInv, RecvHeader, AnswerIsOwn, RecoversAtOnce

LEMMA RecvStaleStep == ASSUME IInv, RecvStale PROVE IInv'
<1>1. Backlog(Tail(wire), tid)
  BY BacklogTail DEF IInv, WireInv, RecvStale
<1>2. failures # 1
  BY DEF IInv, CalmInv, RecvStale, Matches, Reply
<1> QED
  BY <1>1, <1>2, LooksFurtherStep DEF RecvStale

\* The id of the awaited request comes back only after TidSpace requests, and no
\* reply is that late: what matches is the client's own, and the last on the wire.
LEMMA MatchIsOwn ==
  ASSUME IInv, pc = "body", wire # <<>>, Matches
  PROVE  hdr.age = 0 /\ Tail(wire) = <<>> /\ connected
<1> USE ModbusAssumption
<1>1. /\ Backlog(wire, tid) /\ wire \in Seq(Pieces) /\ HeaderFirst
      /\ hdr \in Pieces /\ tid \in Tids /\ connected
  BY DEF IInv, WireInv, TypeOK, Backlog
<1>2. hdr.age = 0
  <2>1. tid \in 0 .. TidSpace - 1 /\ hdr.age \in 0 .. Late
    BY <1>1 DEF Pieces, Tids
  <2>2. tid = IF tid + hdr.age < TidSpace THEN tid + hdr.age
                                          ELSE tid + hdr.age - TidSpace
    BY <1>1 DEF Matches, HeaderFirst, SentBefore
  <2> QED
    BY <2>1, <2>2
<1>3. /\ Len(wire) \in Nat /\ Len(wire) > 0
      /\ \A i \in 1 .. Len(wire) : wire[i].age \in 0 .. Late
  BY <1>1, BacklogType
<1>4. Len(wire) = 1
  <2>1. Len(wire) > 1 => 2 \in 1 .. Len(wire)
    BY <1>3
  <2>2. Len(wire) > 1 => wire[2].age < 0
    BY <1>1, <1>2, <2>1 DEF HeaderFirst
  <2>3. ~(Len(wire) > 1)
    <3>1. ASSUME Len(wire) > 1 PROVE FALSE
      <4>1. wire[2].age \in 0 .. Late /\ wire[2].age < 0
        BY <1>3, <2>1, <2>2, <3>1
      <4> QED
        BY <4>1
    <3> QED
      BY <3>1
  <2>4. Len(wire) \in Nat /\ Len(wire) > 0
    BY <1>3
  <2>5. \A n \in Nat : n > 0 /\ ~(n > 1) => n = 1
    OBVIOUS
  <2> QED
    BY <2>3, <2>4, <2>5
<1>5. Tail(wire) \in Seq(Pieces) /\ Len(Tail(wire)) = 0
  BY <1>1, <1>4, BacklogTail DEF Backlog
<1> QED
  BY <1>1, <1>2, <1>5, EmptySeq

LEMMA RecvReplyStep == ASSUME IInv, RecvReply PROVE IInv'
<1>1. hdr.age = 0 /\ Tail(wire) = <<>>
  BY MatchIsOwn DEF RecvReply
<1>2. Backlog(<<>>, tid) /\ OnTime(<<>>)
  BY BacklogEmpty
<1>3. /\ TypeOK /\ CalmInv /\ RecoversAtOnce /\ tid' \in Tids
      /\ answered' = 0 /\ 0 \in 0 .. Late /\ Backlog(<<>>, tid')
  BY <1>1, <1>2, ModbusAssumption DEF IInv, TypeOK, RecvReply
<1>4. CASE Returns("ok", FALSE, Tail(wire))
  BY <1>1, <1>2, <1>3, <1>4, ReturnsStep DEF Results
<1>5. CASE ~healthy /\ Returns("modbus_exception", FALSE, Tail(wire))
  <2>1. ~calm /\ failures # 1
    BY <1>3, <1>5 DEF CalmInv
  <2> QED
    BY <1>1, <1>2, <1>3, <1>5, <2>1, ReturnsStep DEF Results
<1>6. ASSUME ~healthy, NEW dropped \in BOOLEAN,
             Returns("protocol_error", dropped, Tail(wire))
      PROVE  IInv'
  <2>1. ~calm /\ failures # 1
    BY <1>3, <1>6 DEF CalmInv
  <2> QED
    BY <1>1, <1>2, <1>3, <1>6, <2>1, ReturnsStep DEF Results
<1> QED
  BY <1>4, <1>5, <1>6 DEF RecvReply

LEMMA RecvTimeoutStep == ASSUME IInv, RecvTimeout PROVE IInv'
<1>1. Backlog(wire, tid) /\ OnTime(wire) /\ (healthy => wire = <<>>)
  <2>1. Backlog(wire, tid) /\ NotThere(wire)
    BY DEF IInv, WireInv, RecvTimeout
  <2> QED
    BY <2>1, NotThereOnTime
<1>2. /\ TypeOK /\ CalmInv /\ RecoversAtOnce /\ tid' = tid /\ tid' \in Tids
      /\ answered' \in 0 .. Late
  BY DEF IInv, TypeOK, RecvTimeout
<1>3. failures # 1
  <2>1. Reply(tid) # <<>> /\ Tail(Reply(tid)) # <<>>
    BY DEF Reply
  <2> QED
    BY <1>1, <2>1 DEF IInv, CalmInv, TypeOK, RecvTimeout
<1>4. CASE Returns("timeout", FALSE, wire)
  BY <1>1, <1>2, <1>3, <1>4, ReturnsStep DEF CalmInv, Results
<1>5. CASE wire # <<>> /\ Returns("timeout", FALSE, Torn(wire))
  <2>1. /\ Backlog(Torn(wire), tid) /\ Len(Torn(wire)) = Len(wire)
        /\ \A i \in 1 .. Len(wire) : Torn(wire)[i].age = wire[i].age
    BY <1>1, <1>5, BacklogTorn
  <2>2. OnTime(Torn(wire))
    BY <1>1, <2>1 DEF OnTime
  <2>3. ~healthy
    BY <1>1, <1>5
  <2> QED
    BY <1>2, <1>3, <1>5, <2>1, <2>2, <2>3, ReturnsStep DEF CalmInv, Results
<1> QED
  BY <1>4, <1>5 DEF RecvTimeout

LEMMA PeerClosesStep == ASSUME IInv, PeerCloses PROVE IInv'
<1>1. failures # 1 /\ Backlog(<<>>, tid')
  BY BacklogEmpty DEF IInv, CalmInv, PeerCloses
<1> QED
  BY <1>1, ReturnsStep DEF IInv, TypeOK, PeerCloses, Results

LEMMA MisreadStep == ASSUME IInv, Misread PROVE IInv'
<1>1. /\ TypeOK /\ CalmInv /\ RecoversAtOnce /\ tid' = tid /\ tid' \in Tids
      /\ answered' \in 0 .. Late /\ Backlog(wire, tid)
  BY DEF IInv, TypeOK, Misread, WireInv
<1>2. failures # 1
  BY DEF IInv, CalmInv, Misread, Aligned, Reply
<1>3. CASE Returns("protocol_error", TRUE, <<>>)
  BY <1>1, <1>2, <1>3, BacklogEmpty, ReturnsStep DEF Results
<1>4. ASSUME NEW n \in 0 .. Len(wire), NEW w \in AfterMisread(n) PROVE Backlog(w, tid)
  <2> DEFINE rest == SubSeq(wire, n + 1, Len(wire))
  <2>1. Backlog(rest, tid)
    BY <1>1, BacklogSuffix
  <2>2. rest # <<>> => Backlog(Torn(rest), tid)
    BY <2>1, BacklogTorn
  <2>3. w = rest \/ (rest # <<>> /\ w = Torn(rest))
    BY <1>4 DEF AfterMisread
  <2> QED
    BY <2>1, <2>2, <2>3
<1>5. ASSUME NEW n \in 0 .. Len(wire), NEW w \in AfterMisread(n), LooksFurther(w)
      PROVE  IInv'
  BY <1>2, <1>4, <1>5, LooksFurtherStep DEF Misread
<1>6. ASSUME NEW n \in 0 .. Len(wire), NEW w \in AfterMisread(n),
             NotThere(w), Returns("timeout", FALSE, w)
      PROVE  IInv'
  <2>1. Backlog(w, tid) /\ OnTime(w) /\ (healthy => w = <<>>)
    BY <1>4, <1>6, NotThereOnTime
  <2> QED
    BY <1>1, <1>2, <1>6, <2>1, ReturnsStep DEF CalmInv, Results
<1> QED
  BY <1>3, <1>5, <1>6 DEF Misread

LEMMA GatewayStep == ASSUME IInv, Gateway PROVE IInv'
<1>1. WireInv'
  BY DEF IInv, Gateway, clientVars, WireInv, HeaderFirst, Backlog, SentBefore, InOrder,
         OnTime
<1>2. TypeOK'
  <2>1. {healthy', calm'} \subseteq BOOLEAN
    BY DEF IInv, Gateway, TypeOK
  <2> QED
    BY <2>1 DEF IInv, Gateway, clientVars, TypeOK
<1> QED
  BY <1>1, <1>2 DEF IInv, Gateway, clientVars, CalmInv, AnswerIsOwn, RecoversAtOnce

\* Doing nothing keeps it too.
LEMMA StutterStep == ASSUME IInv, UNCHANGED vars PROVE IInv'
<1>1. WireInv'
  BY DEF IInv, vars, clientVars, WireInv, HeaderFirst, Backlog, SentBefore, InOrder,
         OnTime
<1>2. TypeOK'
  BY DEF IInv, vars, clientVars, TypeOK
<1> QED
  BY <1>1, <1>2 DEF IInv, vars, clientVars, CalmInv, AnswerIsOwn, RecoversAtOnce

\* The invariant holds in every state the client reaches.
LEMMA Inductive == Spec => []IInv
<1>1. IInv /\ [Next]_vars => IInv'
  BY ConnectStep, ConnectFailsStep, SendStep, SendFailsStep, RecvHeaderStep,
     RecvStaleStep, RecvReplyStep, RecvTimeoutStep, PeerClosesStep, MisreadStep,
     GatewayStep, StutterStep DEF Next, Client
<1> QED
  BY <1>1, InitHolds, PTL DEF Spec
-----------------------------------------------------------------------------
(* What it shows. *)

\* The client's state stays within its types; above all, no reply on the wire is
\* ever more than Late requests old.
THEOREM TypeCorrect == Spec => []TypeOK
<1>1. IInv => TypeOK
  BY DEF IInv
<1> QED
  BY <1>1, Inductive, PTL

\* Whatever is lost, late, torn or misread, an answer transact() accepts is the
\* answer to its own request, for every transaction id space larger than the
\* number of requests the gateway can be behind.
THEOREM OwnAnswer == Spec => []AnswerIsOwn
<1>1. IInv => AnswerIsOwn
  BY DEF IInv
<1> QED
  BY <1>1, Inductive, PTL

\* Once the gateway is well again, at most one transaction in a row fails: a calm
\* failure leaves either a closed connection or an empty one.
THEOREM RecoveryAtOnce == Spec => []RecoversAtOnce
<1>1. IInv => RecoversAtOnce
  BY DEF IInv
<1> QED
  BY <1>1, Inductive, PTL
=============================================================================
