---------------------------- MODULE SessionProofs ----------------------------
(***************************************************************************)
(* Theorems about the session of a client, for any set of requests and of  *)
(* deliveries, any number of identifiers, any capacity of the channels and *)
(* any number of losses of the connection.                                 *)
(***************************************************************************)
EXTENDS Session, FiniteSetTheorems, TLAPS

-----------------------------------------------------------------------------
(* Queues *)

Elems(s) == {s[k] : k \in DOMAIN s}

\* The elements of K occur at most once in s.
NoDup(s, K) == \A j, k \in DOMAIN s : s[j] = s[k] /\ s[j] \in K => j = k

LEMMA ElemsType ==
    ASSUME NEW T, NEW s \in Seq(T)
    PROVE  Elems(s) \subseteq T
BY DEF Elems

LEMMA ElemsEmpty == Elems(<<>>) = {}
BY DEF Elems

LEMMA ElemsAppend ==
    ASSUME NEW T, NEW s \in Seq(T), NEW e \in T
    PROVE  /\ Append(s, e) \in Seq(T) /\ Len(Append(s, e)) = Len(s) + 1
           /\ Elems(Append(s, e)) = Elems(s) \cup {e}
<1>1. Append(s, e) \in Seq(T) /\ Len(Append(s, e)) = Len(s) + 1 /\ Len(s) \in Nat
  OBVIOUS
<1>2. DOMAIN Append(s, e) = (DOMAIN s) \cup {Len(s) + 1} /\ DOMAIN s = 1 .. Len(s)
  BY <1>1
<1>3. Append(s, e)[Len(s) + 1] = e /\ \A k \in DOMAIN s : Append(s, e)[k] = s[k]
  BY <1>1
<1> QED BY <1>1, <1>2, <1>3 DEF Elems

LEMMA ElemsTail ==
    ASSUME NEW T, NEW s \in Seq(T), s # <<>>
    PROVE  /\ Tail(s) \in Seq(T) /\ Len(Tail(s)) = Len(s) - 1 /\ Head(s) \in T
           /\ Elems(s) = Elems(Tail(s)) \cup {Head(s)}
<1>1. Tail(s) \in Seq(T) /\ Len(Tail(s)) = Len(s) - 1 /\ Head(s) = s[1] /\ Head(s) \in T /\ Len(s) \in Nat \ {0}
  OBVIOUS
<1>2. DOMAIN Tail(s) = 1 .. Len(s) - 1 /\ DOMAIN s = 1 .. Len(s)
  BY <1>1
<1>3. \A k \in DOMAIN Tail(s) : Tail(s)[k] = s[k + 1] /\ k + 1 \in DOMAIN s
  BY <1>1, <1>2
<1>4. \A k \in DOMAIN s : k = 1 \/ (k - 1 \in DOMAIN Tail(s) /\ Tail(s)[k - 1] = s[k])
  BY <1>1, <1>2
<1>5. 1 \in DOMAIN s
  BY <1>1, <1>2
<1>6. ASSUME NEW x \in Elems(s)
      PROVE  x \in Elems(Tail(s)) \cup {Head(s)}
  <2>1. PICK k \in DOMAIN s : x = s[k]
    BY <1>6 DEF Elems
  <2> QED BY <1>1, <1>4, <2>1 DEF Elems
<1>7. ASSUME NEW x \in Elems(Tail(s)) \cup {Head(s)}
      PROVE  x \in Elems(s)
  BY <1>1, <1>3, <1>5, <1>7 DEF Elems
<1> QED BY <1>1, <1>6, <1>7

LEMMA ElemsConcat ==
    ASSUME NEW T, NEW s \in Seq(T), NEW t \in Seq(T)
    PROVE  s \o t \in Seq(T) /\ Elems(s \o t) = Elems(s) \cup Elems(t)
<1>1. /\ s \o t \in Seq(T) /\ Len(s \o t) = Len(s) + Len(t) /\ Len(s) \in Nat /\ Len(t) \in Nat
      /\ DOMAIN s = 1 .. Len(s) /\ DOMAIN t = 1 .. Len(t) /\ DOMAIN (s \o t) = 1 .. Len(s) + Len(t)
  OBVIOUS
<1>2. \A k \in DOMAIN s : k \in DOMAIN (s \o t) /\ (s \o t)[k] = s[k]
  BY <1>1
<1>3. \A k \in DOMAIN t : Len(s) + k \in DOMAIN (s \o t) /\ (s \o t)[Len(s) + k] = t[k]
  BY <1>1
<1>4. \A k \in DOMAIN (s \o t) : k \in DOMAIN s \/ (k - Len(s) \in DOMAIN t /\ (s \o t)[k] = t[k - Len(s)])
  BY <1>1
<1>5. ASSUME NEW x \in Elems(s \o t)
      PROVE  x \in Elems(s) \cup Elems(t)
  <2>1. PICK k \in DOMAIN (s \o t) : x = (s \o t)[k]
    BY <1>5 DEF Elems
  <2> QED BY <1>2, <1>4, <2>1 DEF Elems
<1>6. ASSUME NEW x \in Elems(s) \cup Elems(t)
      PROVE  x \in Elems(s \o t)
  BY <1>2, <1>3, <1>6 DEF Elems
<1> QED BY <1>1, <1>5, <1>6

LEMMA Concat1 ==
    ASSUME NEW T, NEW s \in Seq(T), NEW t \in Seq(T)
    PROVE  \A u \in Seq(T) :
              /\ Len(s) = 1 /\ Len(t) = 3 /\ Len(u) = 4
              /\ u[1] = s[1] /\ u[2] = t[1] /\ u[3] = t[2] /\ u[4] = t[3]
              => s \o t = u
<1>1. s \o t \in Seq(T) /\ Len(s \o t) = Len(s) + Len(t)
  OBVIOUS
<1>2. \A k \in 1 .. Len(s) : (s \o t)[k] = s[k]
  OBVIOUS
<1>3. \A k \in 1 .. Len(t) : (s \o t)[Len(s) + k] = t[k]
  OBVIOUS
<1>4. PICK v : v = s \o t
  OBVIOUS
<1>5. /\ v \in Seq(T) /\ Len(v) = Len(s) + Len(t)
      /\ \A k \in 1 .. Len(s) : v[k] = s[k]
      /\ \A k \in 1 .. Len(t) : v[Len(s) + k] = t[k]
  BY <1>1, <1>2, <1>3, <1>4
<1> SUFFICES ASSUME NEW u \in Seq(T),
                    Len(s) = 1 /\ Len(t) = 3 /\ Len(u) = 4,
                    u[1] = s[1] /\ u[2] = t[1] /\ u[3] = t[2] /\ u[4] = t[3]
             PROVE  v = u
  BY <1>4
<1>6. Len(v) = 4 /\ v[1] = u[1]
  BY <1>5
<1>7. v[1 + 1] = t[1] /\ v[1 + 2] = t[2] /\ v[1 + 3] = t[3]
  BY <1>5
<1>8. v[2] = u[2] /\ v[3] = u[3] /\ v[4] = u[4]
  BY <1>7
<1>9. \A k \in 1 .. 4 : k = 1 \/ k = 2 \/ k = 3 \/ k = 4
  OBVIOUS
<1>10. \A k \in 1 .. 4 : v[k] = u[k]
  BY <1>6, <1>8, <1>9
<1> QED BY <1>5, <1>6, <1>10

LEMMA ElemsPrefix ==
    ASSUME NEW T, NEW s \in Seq(T), NEW k \in 0 .. Len(s)
    PROVE  SubSeq(s, 1, k) \in Seq(T) /\ Elems(SubSeq(s, 1, k)) \subseteq Elems(s)
<1>1. /\ SubSeq(s, 1, k) \in Seq(T) /\ Len(SubSeq(s, 1, k)) = k /\ DOMAIN s = 1 .. Len(s)
      /\ \A j \in 1 .. k : SubSeq(s, 1, k)[j] = s[j] /\ j \in DOMAIN s
  OBVIOUS
<1> QED BY <1>1 DEF Elems

LEMMA NoDupAppend ==
    ASSUME NEW T, NEW s \in Seq(T), NEW e \in T, NEW K, NoDup(s, K), e \in K => e \notin Elems(s)
    PROVE  NoDup(Append(s, e), K)
<1>1. Len(s) \in Nat /\ DOMAIN s = 1 .. Len(s) /\ DOMAIN Append(s, e) = (DOMAIN s) \cup {Len(s) + 1}
  OBVIOUS
<1>2. Append(s, e)[Len(s) + 1] = e /\ \A k \in DOMAIN s : Append(s, e)[k] = s[k] /\ s[k] \in Elems(s)
  BY <1>1 DEF Elems
<1> QED BY <1>1, <1>2 DEF NoDup

LEMMA NoDupTail ==
    ASSUME NEW T, NEW s \in Seq(T), s # <<>>, NEW K, NoDup(s, K)
    PROVE  NoDup(Tail(s), K) /\ (Head(s) \in K => Head(s) \notin Elems(Tail(s)))
<1>1. /\ Len(s) \in Nat \ {0} /\ DOMAIN s = 1 .. Len(s) /\ DOMAIN Tail(s) = 1 .. Len(s) - 1
      /\ Head(s) = s[1] /\ 1 \in DOMAIN s
  OBVIOUS
<1>2. \A k \in DOMAIN Tail(s) : Tail(s)[k] = s[k + 1] /\ k + 1 \in DOMAIN s /\ k + 1 # 1 /\ k \in Nat
  BY <1>1
<1>3. NoDup(Tail(s), K)
  <2> SUFFICES ASSUME NEW j \in DOMAIN Tail(s), NEW k \in DOMAIN Tail(s),
                      Tail(s)[j] = Tail(s)[k], Tail(s)[j] \in K
               PROVE  j = k
    BY DEF NoDup
  <2>1. j + 1 = k + 1
    BY <1>2 DEF NoDup
  <2> QED BY <1>2, <2>1
<1> QED BY <1>1, <1>2, <1>3 DEF NoDup, Elems

LEMMA NoDupConcat ==
    ASSUME NEW T, NEW s \in Seq(T), NEW t \in Seq(T), NEW K, NoDup(s, K), NoDup(t, K),
           \A e \in K : e \in Elems(s) => e \notin Elems(t)
    PROVE  NoDup(s \o t, K)
<1>1. /\ Len(s) \in Nat /\ Len(t) \in Nat
      /\ DOMAIN s = 1 .. Len(s) /\ DOMAIN t = 1 .. Len(t) /\ DOMAIN (s \o t) = 1 .. Len(s) + Len(t)
  OBVIOUS
<1>2. \A k \in DOMAIN s : (s \o t)[k] = s[k] /\ s[k] \in Elems(s)
  BY <1>1 DEF Elems
<1>3. \A k \in DOMAIN (s \o t) : k \in DOMAIN s \/ (k - Len(s) \in DOMAIN t /\ (s \o t)[k] = t[k - Len(s)])
  BY <1>1
<1>4. \A k \in DOMAIN t : t[k] \in Elems(t)
  BY DEF Elems
<1> SUFFICES ASSUME NEW j \in DOMAIN (s \o t), NEW k \in DOMAIN (s \o t),
                    (s \o t)[j] = (s \o t)[k], (s \o t)[j] \in K
             PROVE  j = k
  BY DEF NoDup
<1>5. CASE j \in DOMAIN s /\ k \in DOMAIN s
  BY <1>2, <1>5 DEF NoDup
<1>6. CASE j \notin DOMAIN s /\ k \notin DOMAIN s
  <2>1. j - Len(s) = k - Len(s)
    BY <1>3, <1>6 DEF NoDup
  <2> QED BY <1>1, <2>1
<1>7. CASE (j \in DOMAIN s) # (k \in DOMAIN s)
  BY <1>2, <1>3, <1>4, <1>7
<1> QED BY <1>5, <1>6, <1>7

LEMMA NoDupPrefix ==
    ASSUME NEW T, NEW s \in Seq(T), NEW k \in 0 .. Len(s), NEW K, NoDup(s, K)
    PROVE  NoDup(SubSeq(s, 1, k), K)
<1>1. /\ DOMAIN SubSeq(s, 1, k) = 1 .. k /\ DOMAIN s = 1 .. Len(s)
      /\ \A j \in 1 .. k : SubSeq(s, 1, k)[j] = s[j] /\ j \in DOMAIN s
  OBVIOUS
<1> QED BY <1>1 DEF NoDup

LEMMA NoDupEmpty ==
    ASSUME NEW K
    PROVE  NoDup(<<>>, K)
BY DEF NoDup

\* How often x occurs
LEMMA TimesEmpty ==
    ASSUME NEW x
    PROVE  Times(x, <<>>) = 0
<1>1. {k \in DOMAIN <<>> : <<>>[k] = x} = {}
  OBVIOUS
<1> QED BY <1>1, FS_EmptySet DEF Times

LEMMA TimesType ==
    ASSUME NEW T, NEW s \in Seq(T), NEW x
    PROVE  Times(x, s) \in Nat /\ IsFiniteSet({k \in DOMAIN s : s[k] = x})
<1>1. IsFiniteSet(1 .. Len(s)) /\ DOMAIN s = 1 .. Len(s)
  BY FS_Interval
<1>2. IsFiniteSet({k \in DOMAIN s : s[k] = x})
  BY <1>1, FS_Subset
<1> QED BY <1>2, FS_CardinalityType DEF Times

LEMMA TimesAppend ==
    ASSUME NEW T, NEW s \in Seq(T), NEW e \in T, NEW x
    PROVE  Times(x, Append(s, e)) = Times(x, s) + (IF e = x THEN 1 ELSE 0)
<1> DEFINE A == {k \in DOMAIN s : s[k] = x}
<1> DEFINE B == {k \in DOMAIN Append(s, e) : Append(s, e)[k] = x}
<1>1. Len(s) \in Nat /\ DOMAIN s = 1 .. Len(s) /\ DOMAIN Append(s, e) = (DOMAIN s) \cup {Len(s) + 1}
  OBVIOUS
<1>2. Append(s, e)[Len(s) + 1] = e /\ \A k \in DOMAIN s : Append(s, e)[k] = s[k]
  BY <1>1
<1>3. B = IF e = x THEN A \cup {Len(s) + 1} ELSE A
  BY <1>1, <1>2
<1>4. Len(s) + 1 \notin A
  BY <1>1
<1>5. IsFiniteSet(A) /\ Times(x, s) = Cardinality(A) /\ Times(x, Append(s, e)) = Cardinality(B) /\ Cardinality(A) \in Nat
  BY TimesType DEF Times
<1> HIDE DEF A, B
<1>6. Cardinality(A \cup {Len(s) + 1}) = Cardinality(A) + 1
  BY <1>4, <1>5, FS_AddElement
<1> QED BY <1>3, <1>5, <1>6

LEMMA TimesTail ==
    ASSUME NEW T, NEW s \in Seq(T), s # <<>>, NEW x
    PROVE  Times(x, s) = Times(x, Tail(s)) + (IF Head(s) = x THEN 1 ELSE 0)
<1> DEFINE A == {k \in DOMAIN s : s[k] = x}
<1> DEFINE B == {k \in DOMAIN Tail(s) : Tail(s)[k] = x}
<1> DEFINE C == A \ {1}
<1> DEFINE f == [k \in B |-> k + 1]
<1>1. /\ Len(s) \in Nat \ {0} /\ DOMAIN s = 1 .. Len(s) /\ DOMAIN Tail(s) = 1 .. Len(s) - 1
      /\ Head(s) = s[1] /\ Tail(s) \in Seq(T)
  OBVIOUS
<1>2. \A k \in DOMAIN Tail(s) : Tail(s)[k] = s[k + 1]
  BY <1>1
<1>3. f \in Bijection(B, C)
  <2>1. f \in [B -> C]
    BY <1>1, <1>2
  <2>2. \A j, k \in B : f[j] = f[k] => j = k
    BY <1>1
  <2>3. \A c \in C : \E b \in B : f[b] = c
    <3> SUFFICES ASSUME NEW c \in C
                 PROVE  c - 1 \in B /\ f[c - 1] = c
      OBVIOUS
    <3>1. c - 1 \in DOMAIN Tail(s) /\ (c - 1) + 1 = c
      BY <1>1
    <3> QED BY <1>2, <3>1
  <2> HIDE DEF f, B, C
  <2> QED BY <2>1, <2>2, <2>3 DEF Bijection, Injection, Surjection, IsInjective
<1>4. IsFiniteSet(A) /\ IsFiniteSet(B) /\ Cardinality(A) \in Nat /\ Cardinality(B) \in Nat
  BY <1>1, TimesType DEF Times
<1>5. Cardinality(B) = Cardinality(C)
  <2>1. ExistsBijection(B, C)
    BY <1>3 DEF ExistsBijection
  <2> HIDE DEF B, C
  <2> QED BY <1>4, <2>1, FS_Bijection
<1>6. 1 \in A <=> Head(s) = x
  BY <1>1
<1>7. Times(x, s) = Cardinality(A) /\ Times(x, Tail(s)) = Cardinality(B)
  BY DEF Times
<1> HIDE DEF A, B
<1>8. Cardinality(A \ {1}) = IF 1 \in A THEN Cardinality(A) - 1 ELSE Cardinality(A)
  BY <1>4, FS_RemoveElement
<1> QED BY <1>4, <1>5, <1>6, <1>7, <1>8

-----------------------------------------------------------------------------
(* What is in the queues *)

AckTypes == {"PUBACK", "PUBREC", "PUBREL", "PUBCOMP"}

\* What the server sends
InPkts ==
    {p \in Packets : /\ p.type \in AckTypes \cup {"SUBACK", "UNSUBACK", "PUBLISH"}
                     /\ p.type = "PUBLISH" => p.obj \in Deliveries}

\* What logic() and handleSend() may have left to do
LogicOps ==
    {o \in Ops : /\ o.op \in OpNames \ {"notifyNet", "storeSent"}
                 /\ o.op = "notify" => o.obj \in Reqs
                 /\ o.op = "deliver" => o.obj \in Deliveries
                 /\ o.op = "storeRecv" => o.pkt \in Stored
                 /\ o.op = "send" => o.pkt \in AckTypes}
SendOps ==
    {o \in Ops : /\ o.op \in {"notify", "notifyNet", "storeSent", "delete"}
                 /\ o.op \in {"notify", "notifyNet"} => o.obj \in Reqs \cup {None}
                 /\ o.op = "storeSent" => o.pkt \in Stored}

Typed == TypeOK /\ toClient \in Seq(InPkts) /\ todo \in Seq(LogicOps) /\ hsTodo \in Seq(SendOps)

-----------------------------------------------------------------------------
(* Requests *)

\* Identifiers are given to one request each, in the order of the counter.
IdsOK ==
    /\ \A r \in Reqs : reqID[r] <= nextID
    /\ \A r \in Reqs : reqID[r] = 0 <=> r \in Pub0 \/ pc[r] \in {"unused", "new"}
    /\ \A r, s \in Reqs : reqID[r] = reqID[s] /\ reqID[r] # 0 => r = s
    /\ \A i \in IDs : usedIDs[i] # None => reqID[usedIDs[i]] = i
    /\ \A r \in Reqs : pc[r] = "store" => r \in Pub1 \cup Pub2

ReqPkts == {p \in Packets : p.obj \in Reqs}

IsRequest(p) == p.obj \in Reqs /\ p = RequestPkt(p.obj) /\ pc[p.obj] = "sent"
IsAck(p)     == p.obj = None /\ p.type \in AckTypes

\* What the client sends, from sendCh and logicSendC to the server, is a
\* request or an answer; a request is in one place, once, and not after the
\* server has taken it.
PipeOK ==
    /\ \A p \in Elems(sendCh) : IsRequest(p)
    /\ \A p \in Elems(wbuf) \cup Elems(toServer) : IsRequest(p) \/ IsAck(p)
    /\ \A p \in Elems(logicSendC) : IsAck(p)
    /\ NoDup(wbuf, ReqPkts) /\ NoDup(toServer, ReqPkts)
    /\ \A p \in ReqPkts : /\ p \in Elems(sendCh) => p \notin Elems(wbuf) \cup Elems(toServer)
                          /\ p \in Elems(wbuf) => p \notin Elems(toServer)
    /\ \A r \in Reqs : got[r] > 0 =>
          /\ pc[r] = "sent"
          /\ \A p \in Elems(sendCh) \cup Elems(wbuf) \cup Elems(toServer) : p.obj # r

\* The server has taken a request of S with identifier i.
Taken(S, i) == \E r \in S : reqID[r] = i /\ got[r] > 0

\* What handleSend() will write, has written, or is in the stream
Outgoing == Elems(logicSendC) \cup Elems(wbuf) \cup Elems(toServer)

\* What the server has, and what it answers, comes from a request.
AnswersOK ==
    /\ \A p \in Elems(toClient) :
          /\ p.type = "SUBACK"   => Taken(Subs, p.id)
          /\ p.type = "UNSUBACK" => Taken(Unsubs, p.id)
          /\ p.type = "PUBACK"   => Taken(Pub1, p.id)
          /\ p.type = "PUBREC"   => Taken(Pub2, p.id)
          /\ p.type = "PUBCOMP"  => Taken(Pub2, p.id) /\ p.id \notin bRecv
    /\ \A p \in Outgoing : p.type = "PUBREL" => Taken(Pub2, p.id)
    /\ \A i \in bRecv : Taken(Pub2, i)
    /\ \A o \in Elems(todo) : o.op = "send" /\ o.pkt = "PUBREL" => Taken(Pub2, o.id)
    /\ \A o \in Elems(hsTodo) : o.op = "storeSent" => Taken(Pub2, o.id) /\ o.pkt = "PUBREL"

\* The server has released r, or never held it.
Released(r) == got[r] > 0 /\ reqID[r] \notin bRecv

\* How far logic() is with completing r
Sending(r)   == todo = <<SendPkt("PUBREL", reqID[r]), Notify(r), FreeID(reqID[r]), DeleteSent(reqID[r])>>
Notifying(r) == todo = <<Notify(r), FreeID(reqID[r]), DeleteSent(reqID[r])>>
Freeing(r)   == todo = <<FreeID(reqID[r]), DeleteSent(reqID[r])>>
Deleting(r)  == todo = <<DeleteSent(reqID[r])>>

\* logic() completes a request that the server has released, and reports it
\* before it frees the identifier, or it does nothing to requests.
TodoOK ==
    /\ logicOn \/ todo = <<>>
    /\ \/ \A o \in Elems(todo) : o.op \in {"send", "deliver", "storeRecv"}
       \/ \E r \in Reqs \ Pub0 :
             /\ Released(r)
             /\ \/ (Sending(r) \/ Notifying(r)) /\ usedIDs[reqID[r]] = r /\ Reported(r) = 0
                \/ Freeing(r) /\ usedIDs[reqID[r]] = r /\ Reported(r) = 1
                \/ Deleting(r) /\ usedIDs[reqID[r]] # r /\ Reported(r) = 1

\* A request is reported when its identifier is about to be freed, or is.
ReportsOK ==
    \A r \in Reqs \ Pub0 :
        /\ Reported(r) <= 1
        /\ Reported(r) > 0 => Released(r)
        /\ reqID[r] # 0 /\ usedIDs[reqID[r]] # r => Reported(r) = 1
        /\ Reported(r) > 0 /\ usedIDs[reqID[r]] = r => Freeing(r)

\* What handleSend() has left to do is one operation at most.
HsShape ==
    \/ hsTodo = <<>> \/ hsTodo = <<NotifyNet>> \/ \E r \in Pub0 : hsTodo = <<Notify(r)>>
    \/ \E o \in SendOps : hsTodo = <<o>> /\ o.op \in {"storeSent", "delete"}

\* r has not left sendCh.
Waiting(r) == pc[r] # "sent" \/ \E p \in Elems(sendCh) : p.obj = r

\* A QoS 0 publish is reported once, after it has left sendCh.
Pub0OK ==
    \A r \in Pub0 :
        /\ Waiting(r) => Reported(r) = 0 /\ hsTodo # <<Notify(r)>>
        /\ hsTodo = <<Notify(r)>> => Reported(r) = 0
        /\ Reported(r) <= 1

-----------------------------------------------------------------------------
(* Identifiers of the server, the store *)

\* The server has used identifier i.
Used(i) == \E d \in In1 \cup In2 : bid[d] = i

UsedOK ==
    /\ \A d \in Deliveries : bpc[d] \in {"unused", "new"} => bid[d] = 0
    /\ \A d \in In1 \cup In2 : bpc[d] \notin {"unused", "new"} => bid[d] \in IDs
    /\ \A p \in Elems(toClient) :
          /\ p.type = "PUBLISH" /\ p.obj \notin In0 => p.id \in IDs /\ Used(p.id)
          /\ p.type = "PUBREL" => p.id \in IDs /\ Used(p.id)
    /\ \A p \in Outgoing :
          p.type \in {"PUBACK", "PUBREC", "PUBCOMP"} => p.id \in IDs /\ Used(p.id)
    /\ \A o \in Elems(todo) :
          o.op = "send" /\ o.pkt # "PUBREL" => o.id \in IDs /\ Used(o.id)
    /\ \A o \in Elems(hsTodo) : o.op = "delete" => o.id \in IDs /\ Used(o.id)
    /\ \A d \in In0 : bpc[d] \in {"unused", "new", "done"}
    /\ bResend \subseteq {d \in In1 \cup In2 : bpc[d] \notin {"unused", "new"}}

StoreOK ==
    \A r \in Pub1 \cup Pub2 :
        Reported(r) > 0 /\ sendStore[reqID[r]] # "none" =>
            Freeing(r) \/ Deleting(r) \/ (r \in Pub2 /\ sendStore[reqID[r]] = "PUBREL")

-----------------------------------------------------------------------------
(* The types *)

LEMMA ReqTypes ==
    /\ NumIDs \in Nat /\ LogicCap \in Nat \ {0} /\ MsgCap \in Nat \ {0} /\ MaxLosses \in Nat
    /\ Pub0 \subseteq Reqs /\ Pub1 \subseteq Reqs /\ Pub2 \subseteq Reqs /\ Subs \subseteq Reqs /\ Unsubs \subseteq Reqs
    /\ In0 \subseteq Deliveries /\ In1 \subseteq Deliveries /\ In2 \subseteq Deliveries
    /\ None \notin Reqs /\ None \notin Deliveries
BY PacketsAssumption, CapacityAssumption DEF Reqs, Deliveries

LEMMA CallTyped ==
    ASSUME Typed, NEW r \in Reqs, Call(r)
    PROVE  Typed'
<1> USE DEF callVars, storeVars, appVars, hsVars, logicVars, connVars, netVars, brokerVars
<1>1. CASE CallNext(r)
  <2>1. CASE r \in Pub0
    <3>1. pc' \in [Reqs -> {"unused", "new", "store", "send", "sent"}] /\ UNCHANGED <<nextID, usedIDs, reqID>>
      BY <1>1, <2>1 DEF CallNext, Typed, TypeOK
    <3> QED BY <1>1, <3>1 DEF CallNext, Typed, TypeOK
  <2>2. CASE r \notin Pub0
    <3>1. nextID' \in 0 .. NumIDs /\ nextID + 1 \in IDs
      BY <1>1, <2>2, ReqTypes DEF CallNext, Typed, TypeOK, IDs
    <3>2. /\ usedIDs' = [usedIDs EXCEPT ![nextID + 1] = r] /\ reqID' = [reqID EXCEPT ![r] = nextID + 1]
          /\ usedIDs \in [IDs -> Reqs \cup {None}] /\ reqID \in [Reqs -> IDs \cup {0}]
      BY <1>1, <2>2 DEF CallNext, Typed, TypeOK
    <3>3. usedIDs' \in [IDs -> Reqs \cup {None}] /\ reqID' \in [Reqs -> IDs \cup {0}]
      BY <3>1, <3>2
    <3>4. pc' \in [Reqs -> {"unused", "new", "store", "send", "sent"}]
      BY <1>1, <2>2 DEF CallNext, Typed, TypeOK
    <3> QED BY <1>1, <3>1, <3>3, <3>4 DEF CallNext, Typed, TypeOK
  <2> QED BY <2>1, <2>2
<1>2. CASE CallStore(r)
  BY <1>2 DEF CallStore, Typed, TypeOK, Stored
<1>3. CASE CallSend(r)
  <2>1. RequestPkt(r) \in Packets
    BY DEF RequestPkt, Pkt, Packets, Types, Typed, TypeOK
  <2>2. /\ sendCh' \in Seq(Packets) /\ Len(sendCh') <= SendCap
        /\ pc' \in [Reqs -> {"unused", "new", "store", "send", "sent"}]
    BY <1>3, <2>1, ElemsAppend DEF CallSend, SendCap, Typed, TypeOK
  <2> QED BY <1>3, <2>2 DEF CallSend, Typed, TypeOK
<1> QED BY <1>1, <1>2, <1>3 DEF Call

\* The operations of the goroutines
LEMMA OpsTyped ==
    /\ \A r \in Reqs : Notify(r) \in LogicOps \cap SendOps
    /\ NotifyNet \in SendOps
    /\ \A i \in IDs \cup {0} : FreeID(i) \in LogicOps /\ DeleteSent(i) \in LogicOps \cap SendOps
    /\ \A d \in Deliveries : Deliver(d) \in LogicOps
    /\ \A i \in IDs \cup {0}, t \in {"PUBLISH", "PUBREL"} : StoreRecv(i, t) \in LogicOps /\ StoreSent(i, t) \in SendOps
    /\ \A i \in IDs \cup {0}, t \in AckTypes : SendPkt(t, i) \in LogicOps
BY DEF Notify, NotifyNet, FreeID, DeleteSent, Deliver, StoreRecv, StoreSent, SendPkt, Op,
       LogicOps, SendOps, Ops, OpNames, Types, AckTypes, Stored

\* What an operation is
LEMMA OpFields ==
    ASSUME NEW i, NEW x, NEW t
    PROVE  /\ Notify(x) = [op |-> "notify", id |-> 0, obj |-> x, pkt |-> "none"]
           /\ NotifyNet = [op |-> "notifyNet", id |-> 0, obj |-> None, pkt |-> "none"]
           /\ FreeID(i) = [op |-> "free", id |-> i, obj |-> None, pkt |-> "none"]
           /\ DeleteSent(i) = [op |-> "delete", id |-> i, obj |-> None, pkt |-> "none"]
           /\ Deliver(x) = [op |-> "deliver", id |-> 0, obj |-> x, pkt |-> "none"]
           /\ StoreRecv(i, t) = [op |-> "storeRecv", id |-> i, obj |-> None, pkt |-> t]
           /\ StoreSent(i, t) = [op |-> "storeSent", id |-> i, obj |-> None, pkt |-> t]
           /\ SendPkt(t, i) = [op |-> "send", id |-> i, obj |-> None, pkt |-> t]
BY DEF Notify, NotifyNet, FreeID, DeleteSent, Deliver, StoreRecv, StoreSent, SendPkt, Op

LEMMA OneTyped ==
    ASSUME NEW S, NEW x \in S
    PROVE  <<x>> \in Seq(S)
OBVIOUS

LEMMA AfterWriteTyped ==
    ASSUME NEW p \in Packets
    PROVE  AfterWrite(p) \in Seq(SendOps)
<1>1. p.id \in IDs \cup {0}
  BY DEF Packets
<1>2. CASE p.type = "PUBLISH" /\ p.obj \in Pub0
  BY <1>1, <1>2, OpsTyped, ReqTypes DEF AfterWrite
<1>3. CASE ~(p.type = "PUBLISH" /\ p.obj \in Pub0)
  BY <1>1, <1>3, OpsTyped DEF AfterWrite
<1> QED BY <1>2, <1>3

LEMMA WriteTyped ==
    ASSUME Typed, NEW p \in Packets, Write(p)
    PROVE  wbuf' \in Seq(Packets) /\ hsTodo' \in Seq(SendOps) /\ hsOn' \in BOOLEAN /\ toServer' \in Seq(Packets)
<1>1. wbuf \in Seq(Packets) /\ hsTodo \in Seq(SendOps) /\ hsOn \in BOOLEAN /\ toServer \in Seq(Packets)
  BY DEF Typed, TypeOK
<1>2. AfterWrite(p) \in Seq(SendOps) /\ Append(wbuf, p) \in Seq(Packets) /\ toServer \o Append(wbuf, p) \in Seq(Packets)
  BY <1>1, AfterWriteTyped, ElemsAppend, ElemsConcat
<1>3. CASE wbuf' = Append(wbuf, p) /\ hsTodo' = AfterWrite(p) /\ UNCHANGED <<hsOn, toServer>>
  BY <1>1, <1>2, <1>3
<1>4. CASE toServer' = toServer \o Append(wbuf, p) /\ wbuf' = <<>> /\ hsTodo' = AfterWrite(p) /\ UNCHANGED hsOn
  <2>1. <<>> \in Seq(Packets)
    OBVIOUS
  <2> QED BY <1>1, <1>2, <1>4, <2>1
<1>5. CASE hsOn' = FALSE /\ UNCHANGED <<wbuf, hsTodo, toServer>>
  BY <1>1, <1>5
<1> QED BY <1>3, <1>4, <1>5 DEF Write

LEMMA SendOpsAreOps == SendOps \subseteq Ops /\ LogicOps \subseteq Ops /\ InPkts \subseteq Packets
BY DEF SendOps, LogicOps, InPkts

LEMMA SeqMono ==
    ASSUME NEW S, NEW T, S \subseteq T, NEW s \in Seq(S)
    PROVE  s \in Seq(T)
OBVIOUS

LEMMA HandleSendTyped ==
    ASSUME Typed, HandleSend
    PROVE  Typed'
<1> USE DEF callVars, storeVars, appVars, hsVars, logicVars, connVars, netVars, brokerVars
<1>1. CASE HsTakeSend
  <2>1. Head(sendCh) \in Packets /\ Tail(sendCh) \in Seq(Packets) /\ Len(Tail(sendCh)) <= SendCap
    BY <1>1, ElemsTail DEF HsTakeSend, Typed, TypeOK, SendCap
  <2>2. wbuf' \in Seq(Packets) /\ hsTodo' \in Seq(SendOps) /\ hsOn' \in BOOLEAN /\ toServer' \in Seq(Packets)
    BY <1>1, <2>1, WriteTyped DEF HsTakeSend
  <2>3. hsTodo' \in Seq(Ops)
    BY <2>2, SendOpsAreOps, SeqMono
  <2> QED BY <1>1, <2>1, <2>2, <2>3 DEF HsTakeSend, Typed, TypeOK
<1>2. CASE HsTakeLogic
  <2>1. Head(logicSendC) \in Packets /\ Tail(logicSendC) \in Seq(Packets) /\ Len(Tail(logicSendC)) <= LogicCap
    BY <1>2, ElemsTail, ReqTypes DEF HsTakeLogic, Typed, TypeOK
  <2>2. wbuf' \in Seq(Packets) /\ hsTodo' \in Seq(SendOps) /\ hsOn' \in BOOLEAN /\ toServer' \in Seq(Packets)
    BY <1>2, <2>1, WriteTyped DEF HsTakeLogic
  <2>3. hsTodo' \in Seq(Ops)
    BY <2>2, SendOpsAreOps, SeqMono
  <2> QED BY <1>2, <2>1, <2>2, <2>3 DEF HsTakeLogic, Typed, TypeOK
<1>3. CASE HsFlush
  <2>1. toServer \o wbuf \in Seq(Packets) /\ <<>> \in Seq(Packets) /\ <<NotifyNet>> \in Seq(SendOps)
    BY ElemsConcat, OpsTyped DEF Typed, TypeOK
  <2>2. wbuf' \in Seq(Packets) /\ hsTodo' \in Seq(SendOps) /\ toServer' \in Seq(Packets)
    BY <1>3, <2>1 DEF HsFlush, Typed, TypeOK
  <2>3. hsTodo' \in Seq(Ops)
    BY <2>2, SendOpsAreOps, SeqMono
  <2> QED BY <1>3, <2>2, <2>3 DEF HsFlush, Typed, TypeOK
<1>4. CASE HsStop
  BY <1>4 DEF HsStop, Typed, TypeOK
<1>5. ASSUME hsTodo # <<>>
      PROVE  Head(hsTodo) \in SendOps /\ Tail(hsTodo) \in Seq(SendOps) /\ Tail(hsTodo) \in Seq(Ops)
  BY <1>5, ElemsTail DEF Typed, TypeOK
<1>6. CASE HsNotify
  <2>1. Head(hsTodo).obj \in Reqs \cup {None}
    BY <1>5, <1>6 DEF HsNotify, SendOps
  <2>2. msgCh' \in Seq(Reqs \cup {None}) /\ Len(msgCh') <= MsgCap /\ hsOn' \in BOOLEAN
    BY <1>6, <2>1, ElemsAppend, ReqTypes DEF HsNotify, Typed, TypeOK
  <2> QED BY <1>5, <1>6, <2>2 DEF HsNotify, Typed, TypeOK
<1>7. CASE HsStore
  <2>1. Head(hsTodo).pkt \in Stored
    BY <1>5, <1>7 DEF HsStore, SendOps
  <2>2. sendStore' \in [IDs -> Stored]
    BY <1>7, <2>1 DEF HsStore, Typed, TypeOK
  <2> QED BY <1>5, <1>7, <2>2 DEF HsStore, Typed, TypeOK
<1>8. CASE HsDelete
  <2>1. sendStore' \in [IDs -> Stored]
    BY <1>8 DEF HsDelete, Typed, TypeOK, Stored
  <2> QED BY <1>5, <1>8, <2>1 DEF HsDelete, Typed, TypeOK
<1> QED BY <1>1, <1>2, <1>3, <1>4, <1>6, <1>7, <1>8 DEF HandleSend

LEMMA CompleteTyped ==
    ASSUME NEW r \in Reqs, NEW i \in IDs \cup {0}
    PROVE  /\ Complete(r, i) \in Seq(LogicOps)
           /\ <<SendPkt("PUBREL", i)>> \o Complete(r, i) \in Seq(LogicOps)
<1>1. /\ Notify(r) \in LogicOps /\ FreeID(i) \in LogicOps /\ DeleteSent(i) \in LogicOps
      /\ SendPkt("PUBREL", i) \in LogicOps
  BY OpsTyped DEF AckTypes
<1>2. Complete(r, i) \in Seq(LogicOps) /\ <<SendPkt("PUBREL", i)>> \in Seq(LogicOps)
  BY <1>1 DEF Complete
<1> QED BY <1>2, ElemsConcat

LEMMA HandlerTyped ==
    ASSUME Typed, NEW p \in InPkts
    PROVE  Handler(p) \in Seq(LogicOps)
<1>1. p.id \in IDs \cup {0} /\ p \in Packets
  BY DEF InPkts, Packets
<1>2. Origin(p.id) \in Reqs \cup {None} /\ None \notin Reqs
  BY <1>1, ReqTypes DEF Origin, Typed, TypeOK
<1>3. /\ Origin(p.id) \in Subs \cup Unsubs \cup Pub1 \cup Pub2 => Complete(Origin(p.id), p.id) \in Seq(LogicOps)
      /\ Origin(p.id) \in Pub2 => <<SendPkt("PUBREL", p.id)>> \o Complete(Origin(p.id), p.id) \in Seq(LogicOps)
  BY <1>1, <1>2, CompleteTyped, ReqTypes
<1>4. <<>> \in Seq(LogicOps)
  OBVIOUS
<1>5. CASE p.type \in {"SUBACK", "UNSUBACK", "PUBACK"}
  BY <1>3, <1>4, <1>5 DEF Handler, OnSubAck, OnUnsubAck, OnPubAck
<1>6. CASE p.type = "PUBLISH"
  <2>1. p.obj \in Deliveries
    BY <1>6 DEF InPkts
  <2>2. /\ Deliver(p.obj) \in LogicOps /\ StoreRecv(p.id, "PUBLISH") \in LogicOps
        /\ SendPkt("PUBACK", p.id) \in LogicOps /\ SendPkt("PUBREC", p.id) \in LogicOps
    BY <1>1, <2>1, OpsTyped DEF AckTypes
  <2>3. OnPublish(p.obj, p.id) \in Seq(LogicOps)
    BY <2>1, <2>2 DEF OnPublish, Deliveries
  <2> QED BY <1>6, <2>3 DEF Handler
<1>7. CASE p.type = "PUBREC"
  <2>1. <<SendPkt("PUBREL", p.id)>> \in Seq(LogicOps)
    BY <1>1, OpsTyped DEF AckTypes
  <2> QED BY <1>4, <1>7, <2>1 DEF Handler, OnPubRec
<1>8. CASE p.type = "PUBREL"
  <2>1. <<SendPkt("PUBCOMP", p.id), StoreRecv(p.id, "PUBREL")>> \in Seq(LogicOps)
    BY <1>1, OpsTyped DEF AckTypes
  <2> QED BY <1>4, <1>8, <2>1 DEF Handler, OnPubRel
<1>9. CASE p.type = "PUBCOMP"
  BY <1>3, <1>4, <1>9 DEF Handler, OnPubComp
<1> QED BY <1>5, <1>6, <1>7, <1>8, <1>9 DEF InPkts, AckTypes

LEMMA PktTyped ==
    ASSUME NEW type \in Types, NEW i \in IDs \cup {0}, NEW obj \in Reqs \cup Deliveries \cup {None}
    PROVE  /\ Pkt(type, i, obj) \in Packets
           /\ Pkt(type, i, obj).type = type /\ Pkt(type, i, obj).id = i /\ Pkt(type, i, obj).obj = obj
BY DEF Pkt, Packets

LEMMA LogicTyped ==
    ASSUME Typed, Logic
    PROVE  Typed'
<1> USE DEF callVars, storeVars, appVars, hsVars, logicVars, connVars, netVars, brokerVars
<1>1. CASE LogicRecv
  <2>1. Head(toClient) \in InPkts /\ Tail(toClient) \in Seq(InPkts) /\ Tail(toClient) \in Seq(Packets)
    BY <1>1, ElemsTail DEF LogicRecv, Typed, TypeOK
  <2>2. Handler(Head(toClient)) \in Seq(LogicOps)
    BY <2>1, HandlerTyped
  <2>3. Handler(Head(toClient)) \in Seq(Ops)
    BY <2>2, SendOpsAreOps, SeqMono
  <2> QED BY <1>1, <2>1, <2>2, <2>3 DEF LogicRecv, Typed, TypeOK
<1>2. ASSUME todo # <<>>
      PROVE  Head(todo) \in LogicOps /\ Tail(todo) \in Seq(LogicOps) /\ Tail(todo) \in Seq(Ops)
  BY <1>2, ElemsTail DEF Typed, TypeOK
<1>3. CASE LogicNotify
  <2>1. Head(todo).obj \in Reqs
    BY <1>2, <1>3 DEF LogicNotify, LogicDo, LogicOps
  <2>2. msgCh' \in Seq(Reqs \cup {None}) /\ Len(msgCh') <= MsgCap
    BY <1>3, <2>1, ElemsAppend, ReqTypes DEF LogicNotify, Typed, TypeOK
  <2> QED BY <1>2, <1>3, <2>2 DEF LogicNotify, LogicDo, Typed, TypeOK
<1>4. CASE LogicFree
  <2>1. usedIDs' \in [IDs -> Reqs \cup {None}]
    BY <1>4 DEF LogicFree, Typed, TypeOK
  <2> QED BY <1>2, <1>4, <2>1 DEF LogicFree, LogicDo, Typed, TypeOK
<1>5. CASE LogicDelete
  <2>1. sendStore' \in [IDs -> Stored]
    BY <1>5 DEF LogicDelete, Typed, TypeOK, Stored
  <2> QED BY <1>2, <1>5, <2>1 DEF LogicDelete, LogicDo, Typed, TypeOK
<1>6. CASE LogicDeliver
  <2>1. Head(todo).obj \in Deliveries
    BY <1>2, <1>6 DEF LogicDeliver, LogicDo, LogicOps
  <2>2. recvCh' \in Seq(Deliveries) /\ Len(recvCh') <= RecvCap
    BY <1>6, <2>1, ElemsAppend DEF LogicDeliver, Typed, TypeOK, RecvCap
  <2> QED BY <1>2, <1>6, <2>2 DEF LogicDeliver, LogicDo, Typed, TypeOK
<1>7. CASE LogicStore
  <2>1. Head(todo).pkt \in Stored
    BY <1>2, <1>7 DEF LogicStore, LogicDo, LogicOps
  <2>2. recvStore' \in [IDs -> Stored]
    BY <1>7, <2>1 DEF LogicStore, Typed, TypeOK
  <2> QED BY <1>2, <1>7, <2>2 DEF LogicStore, LogicDo, Typed, TypeOK
<1>8. CASE LogicSend
  <2>1. Head(todo).pkt \in Types /\ Head(todo).id \in IDs \cup {0}
    BY <1>2, <1>8 DEF LogicSend, LogicDo, LogicOps, Ops, Types, AckTypes
  <2>2. Pkt(Head(todo).pkt, Head(todo).id, None) \in Packets
    BY <2>1, PktTyped
  <2>3. logicSendC' \in Seq(Packets) /\ Len(logicSendC') <= LogicCap
    <3> DEFINE e == Pkt(Head(todo).pkt, Head(todo).id, None)
    <3>1. logicSendC \in Seq(Packets) /\ Len(logicSendC) <= LogicCap
      BY DEF Typed, TypeOK
    <3>2. \/ Len(logicSendC) < LogicCap /\ logicSendC' = Append(logicSendC, e)
          \/ UNCHANGED logicSendC
      BY <1>8 DEF LogicSend
    <3> HIDE DEF e
    <3> QED BY <2>2, <3>1, <3>2, ElemsAppend, ReqTypes DEF e
  <2> QED BY <1>2, <1>8, <2>3 DEF LogicSend, LogicDo, Typed, TypeOK
<1>9. CASE LogicExit
  <2>1. msgCh' \in Seq(Reqs \cup {None}) /\ Len(msgCh') <= MsgCap
    BY <1>9, ElemsAppend, ReqTypes DEF LogicExit, Typed, TypeOK
  <2> QED BY <1>9, <2>1 DEF LogicExit, Typed, TypeOK
<1> QED BY <1>1, <1>3, <1>4, <1>5, <1>6, <1>7, <1>8, <1>9 DEF Logic

LEMMA DispatchTyped ==
    ASSUME Typed, HandleMsg \/ HandleTopicMsg
    PROVE  Typed'
<1> USE DEF callVars, storeVars, appVars, hsVars, logicVars, connVars, netVars, brokerVars
<1>1. CASE HandleMsg
  <2>1. Head(msgCh) \in Reqs \cup {None} /\ Tail(msgCh) \in Seq(Reqs \cup {None}) /\ Len(Tail(msgCh)) <= MsgCap
    BY <1>1, ElemsTail, ReqTypes DEF HandleMsg, Typed, TypeOK
  <2>2. notified' \in [Reqs -> Nat]
    <3>1. /\ notified \in [Reqs -> Nat]
          /\ notified' = notified \/ (Head(msgCh) # None /\ notified' = [notified EXCEPT ![Head(msgCh)] = @ + 1])
      BY <1>1 DEF HandleMsg, Typed, TypeOK
    <3>2. CASE Head(msgCh) # None /\ notified' = [notified EXCEPT ![Head(msgCh)] = @ + 1]
      BY <3>1, <3>2, <2>1
    <3> QED BY <3>1, <3>2
  <2> QED BY <1>1, <2>1, <2>2 DEF HandleMsg, Typed, TypeOK
<1>2. CASE HandleTopicMsg
  <2>1. Head(recvCh) \in Deliveries /\ Tail(recvCh) \in Seq(Deliveries) /\ Len(Tail(recvCh)) <= RecvCap
    BY <1>2, ElemsTail DEF HandleTopicMsg, Typed, TypeOK, RecvCap
  <2>2. dispatched' \in [Deliveries -> Nat]
    <3>1. dispatched \in [Deliveries -> Nat] /\ dispatched' = [dispatched EXCEPT ![Head(recvCh)] = @ + 1]
      BY <1>2 DEF HandleTopicMsg, Typed, TypeOK
    <3>2. dispatched[Head(recvCh)] + 1 \in Nat
      BY <3>1, <2>1
    <3> QED BY <3>1, <3>2
  <2> QED BY <1>2, <2>1, <2>2 DEF HandleTopicMsg, Typed, TypeOK
<1> QED BY <1>1, <1>2

LEMMA ConnTyped ==
    ASSUME Typed, NetBreak \/ NetRecvExit \/ Reconnect
    PROVE  Typed'
<1> USE DEF callVars, storeVars, appVars, hsVars, logicVars, connVars, netVars, brokerVars
<1>1. CASE NetBreak
  <2>1. PICK k \in 0 .. Len(toClient) : toClient' = SubSeq(toClient, 1, k)
    BY <1>1 DEF NetBreak, StreamBroken
  <2>2. toClient' \in Seq(InPkts) /\ toClient' \in Seq(Packets)
    BY <2>1, ElemsPrefix DEF Typed, TypeOK
  <2>3. losses' \in 0 .. MaxLosses /\ toServer' = <<>> /\ conn' = "broken"
    BY <1>1, ReqTypes DEF NetBreak, StreamBroken, Typed, TypeOK
  <2> QED BY <1>1, <2>2, <2>3, SMTT(30) DEF NetBreak, Typed, TypeOK
<1>2. CASE NetRecvExit
  <2>1. msgCh' \in Seq(Reqs \cup {None}) /\ Len(msgCh') <= MsgCap
    BY <1>2, ElemsAppend, ReqTypes DEF NetRecvExit, Typed, TypeOK
  <2> QED BY <1>2, <2>1 DEF NetRecvExit, Typed, TypeOK
<1>3. CASE Reconnect
  <2>1. /\ logicSendC' = <<>> /\ Len(<<>>) <= LogicCap /\ todo' = <<>> /\ hsTodo' = <<>> /\ wbuf' = <<>>
        /\ toServer' = <<>> /\ toClient' = <<>> /\ conn' = "up" /\ logicOn' = TRUE /\ hsOn' = TRUE
    BY <1>3, ReqTypes DEF Reconnect
  <2>2. bResend' \subseteq Deliveries /\ UNCHANGED <<got, bRecv, bpc, bid>>
    BY <1>3 DEF Reconnect, BrokerNewConnection
  <2> QED BY <1>3, <2>1, <2>2, SMTT(30) DEF Reconnect, Typed, TypeOK
<1> QED BY <1>1, <1>2, <1>3

LEMMA AnswerTyped ==
    ASSUME NEW p \in Packets
    PROVE  /\ Answer(p) \in Seq(InPkts)
           /\ \A q \in Elems(Answer(p)) :
                /\ q.id = p.id
                /\ \/ q.type = "SUBACK" /\ p.type = "SUBSCRIBE"
                   \/ q.type = "UNSUBACK" /\ p.type = "UNSUBSCRIBE"
                   \/ q.type = "PUBACK" /\ p.type = "PUBLISH" /\ p.obj \in Pub1
                   \/ q.type = "PUBREC" /\ p.type = "PUBLISH" /\ p.obj \in Pub2
                   \/ q.type = "PUBREL" /\ p.type = "PUBREC"
                   \/ q.type = "PUBCOMP" /\ p.type = "PUBREL"
<1>1. p.id \in IDs \cup {0}
  BY DEF Packets
<1>2. \A t \in AckTypes \cup {"SUBACK", "UNSUBACK"} :
         /\ Pkt(t, p.id, None) \in InPkts
         /\ Pkt(t, p.id, None).type = t /\ Pkt(t, p.id, None).id = p.id
  <2> SUFFICES ASSUME NEW t \in AckTypes \cup {"SUBACK", "UNSUBACK"}
               PROVE  /\ Pkt(t, p.id, None) \in InPkts
                      /\ Pkt(t, p.id, None).type = t /\ Pkt(t, p.id, None).id = p.id
    OBVIOUS
  <2>1. t \in Types /\ t # "PUBLISH"
    BY DEF Types, AckTypes
  <2> QED BY <1>1, <2>1, PktTyped DEF InPkts
<1>3. \A t \in AckTypes \cup {"SUBACK", "UNSUBACK"} :
         /\ <<Pkt(t, p.id, None)>> \in Seq(InPkts)
         /\ \A q \in Elems(<<Pkt(t, p.id, None)>>) : q.type = t /\ q.id = p.id
  BY <1>2 DEF Elems
<1>4. <<>> \in Seq(InPkts) /\ Elems(<<>>) = {}
  BY ElemsEmpty
<1>5. CASE p.type \in {"SUBSCRIBE", "UNSUBSCRIBE", "PUBREC", "PUBREL"}
  BY <1>3, <1>5 DEF Answer, AckTypes
<1>6. CASE p.type = "PUBLISH" /\ p.obj \in Pub1 \cup Pub2
  BY <1>3, <1>6 DEF Answer, AckTypes
<1>7. CASE ~(p.type \in {"SUBSCRIBE", "UNSUBSCRIBE", "PUBREC", "PUBREL"}) /\ ~(p.type = "PUBLISH" /\ p.obj \in Pub1 \cup Pub2)
  BY <1>4, <1>7 DEF Answer
<1> QED BY <1>5, <1>6, <1>7

LEMMA ServerTyped ==
    ASSUME Typed, ServerAnswer \/ ServerPublish
    PROVE  Typed'
<1> USE DEF callVars, storeVars, appVars, hsVars, logicVars, connVars, netVars, brokerVars
<1>1. CASE ServerAnswer /\ BrokerRecv
  <2> DEFINE p == Head(toServer)
  <2>1. p \in Packets /\ Tail(toServer) \in Seq(Packets)
    BY <1>1, ElemsTail DEF BrokerRecv, Typed, TypeOK
  <2>2. p.id \in IDs \cup {0}
    BY <2>1 DEF Packets
  <2>3. toClient' \in Seq(InPkts)
    BY <1>1, <2>1, AnswerTyped, ElemsConcat DEF BrokerRecv, Typed
  <2>4. toClient' \in Seq(Packets)
    BY <2>3, SendOpsAreOps, SeqMono
  <2>5. got' \in [Reqs -> Nat]
    <3>1. got \in [Reqs -> Nat] /\ got' = IF IsNew(p) THEN [got EXCEPT ![p.obj] = @ + 1] ELSE got
      BY <1>1 DEF BrokerRecv, Typed, TypeOK
    <3>2. CASE IsNew(p)
      <4>1. p.obj \in Reqs
        BY <3>2 DEF IsNew
      <4> HIDE DEF p
      <4> QED BY <3>1, <3>2, <4>1
    <3> QED BY <3>1, <3>2
  <2>6. bRecv' \subseteq IDs \cup {0}
    BY <1>1, <2>2 DEF BrokerRecv, Typed, TypeOK
  <2>7. bpc' \in [Deliveries -> {"unused", "new", "sent", "rel", "done"}]
    BY <1>1 DEF BrokerRecv, Typed, TypeOK
  <2> QED BY <1>1, <2>1, <2>3, <2>4, <2>5, <2>6, <2>7 DEF ServerAnswer, BrokerRecv, Typed, TypeOK
<1>2. CASE ServerAnswer /\ \E d \in Deliveries : BrokerResend(d)
  <2>1. PICK d \in Deliveries : BrokerResend(d)
    BY <1>2
  <2> DEFINE e == IF bpc[d] = "sent" THEN Pkt("PUBLISH", bid[d], d) ELSE Pkt("PUBREL", bid[d], None)
  <2>2. bid[d] \in IDs \cup {0}
    BY DEF Typed, TypeOK
  <2>3. e \in InPkts
    BY <2>2, PktTyped DEF InPkts, Types, AckTypes
  <2>4. toClient' = Append(toClient, e)
    BY <2>1 DEF BrokerResend
  <2> HIDE DEF e
  <2>5. toClient' \in Seq(InPkts)
    BY <2>3, <2>4, ElemsAppend DEF Typed
  <2>6. toClient' \in Seq(Packets)
    BY <2>5, SendOpsAreOps, SeqMono
  <2>7. bResend' \subseteq Deliveries
    BY <2>1 DEF BrokerResend, Typed, TypeOK
  <2> QED BY <1>2, <2>1, <2>5, <2>6, <2>7 DEF ServerAnswer, BrokerResend, Typed, TypeOK
<1>3. CASE ServerPublish
  <2>1. PICK d \in Deliveries, i \in IDs \cup {0} : BrokerPublish(d, i)
    BY <1>3 DEF ServerPublish
  <2>2. Pkt("PUBLISH", i, d) \in InPkts
    BY PktTyped DEF InPkts, Types, AckTypes
  <2>3. toClient' \in Seq(InPkts)
    BY <2>1, <2>2, ElemsAppend DEF BrokerPublish, Typed
  <2>4. toClient' \in Seq(Packets)
    BY <2>3, SendOpsAreOps, SeqMono
  <2>5. bpc' \in [Deliveries -> {"unused", "new", "sent", "rel", "done"}] /\ bid' \in [Deliveries -> IDs \cup {0}]
    BY <2>1 DEF BrokerPublish, Typed, TypeOK
  <2> QED BY <1>3, <2>1, <2>3, <2>4, <2>5 DEF ServerPublish, BrokerPublish, Typed, TypeOK
<1> QED BY <1>1, <1>2, <1>3 DEF ServerAnswer

LEMMA InitTyped ==
    ASSUME Init
    PROVE  Typed
<1> USE DEF Init, BrokerInit
<1>1. PICK sc \in Scenarios : BrokerInit(sc) /\ pc = [r \in Reqs |-> IF r \in sc THEN "new" ELSE "unused"]
  BY DEF Init
<1>2. /\ got \in [Reqs -> Nat] /\ bRecv \subseteq IDs \cup {0} /\ toServer = <<>> /\ toClient = <<>>
      /\ bpc \in [Deliveries -> {"unused", "new", "sent", "rel", "done"}]
      /\ bid \in [Deliveries -> IDs \cup {0}] /\ bResend \subseteq Deliveries
  BY <1>1
<1>3. /\ nextID \in 0 .. NumIDs /\ usedIDs \in [IDs -> Reqs \cup {None}] /\ reqID \in [Reqs -> IDs \cup {0}]
      /\ sendStore \in [IDs -> Stored] /\ recvStore \in [IDs -> Stored]
      /\ notified \in [Reqs -> Nat] /\ dispatched \in [Deliveries -> Nat] /\ losses \in 0 .. MaxLosses
  BY ReqTypes DEF Stored
<1>4. \A S : <<>> \in Seq(S)
  OBVIOUS
<1>5. Len(<<>>) <= SendCap /\ Len(<<>>) <= RecvCap /\ Len(<<>>) <= MsgCap /\ Len(<<>>) <= LogicCap
  BY ReqTypes DEF SendCap, RecvCap
<1> QED BY <1>1, <1>2, <1>3, <1>4, <1>5 DEF Typed, TypeOK

LEMMA NextTyped ==
    ASSUME Typed, [Next]_vars
    PROVE  Typed'
<1>1. CASE UNCHANGED vars
  BY <1>1 DEF vars, Typed, TypeOK, callVars, storeVars, appVars, hsVars, logicVars, connVars, netVars, brokerVars
<1>2. CASE \E r \in Reqs : Call(r)
  BY <1>2, CallTyped
<1>3. CASE HandleSend \/ Logic
  BY <1>3, HandleSendTyped, LogicTyped
<1>4. CASE HandleMsg \/ HandleTopicMsg
  BY <1>4, DispatchTyped
<1>5. CASE NetBreak \/ NetRecvExit \/ Reconnect
  BY <1>5, ConnTyped
<1>6. CASE ServerAnswer \/ ServerPublish
  BY <1>6, ServerTyped
<1> QED BY <1>1, <1>2, <1>3, <1>4, <1>5, <1>6 DEF Next, Idle

\* The types, with what the queues may hold: the server sends answers and
\* publishes, logic() and handleSend() have left to do what their cases put
\* there (client_conn.go:70-200, 246-330).
THEOREM TypedAlways == Spec => []Typed
<1>1. Init => Typed
  BY InitTyped
<1>2. Typed /\ [Next]_vars => Typed'
  BY NextTyped
<1> QED BY <1>1, <1>2, PTL DEF Spec

\* The types, and the capacities of the channels (client_async.go:85-87,
\* client_conn_options.go:131-133): no step exceeds them.
THEOREM TypeCorrect == Spec => []TypeOK
<1>1. Typed => TypeOK
  BY DEF Typed
<1> QED BY <1>1, TypedAlways, PTL

-----------------------------------------------------------------------------
(* The steps, one by one *)

Quietly == UNCHANGED vars

LEMMA Steps ==
    ASSUME [Next]_vars
    PROVE  \/ \E r \in Reqs : CallNext(r) \/ CallStore(r) \/ CallSend(r)
           \/ HsTakeSend \/ HsTakeLogic \/ HsFlush \/ HsStop \/ HsNotify \/ HsStore \/ HsDelete
           \/ LogicRecv \/ LogicNotify \/ LogicFree \/ LogicDelete \/ LogicDeliver
           \/ LogicStore \/ LogicSend \/ LogicExit
           \/ HandleMsg \/ HandleTopicMsg \/ NetBreak \/ NetRecvExit \/ Reconnect
           \/ (ServerAnswer /\ BrokerRecv)
           \/ (\E d \in Deliveries : ServerAnswer /\ BrokerResend(d))
           \/ (\E d \in Deliveries, i \in IDs \cup {0} : ServerPublish /\ BrokerPublish(d, i))
           \/ Quietly
<1>1. CASE Next
  BY <1>1 DEF Next, Call, HandleSend, Logic, ServerAnswer, ServerPublish, Idle, Quietly
<1> QED BY <1>1 DEF Quietly

\* The steps that leave the identifiers and the calls alone
LEMMA IdsFrame ==
    ASSUME [Next]_vars
    PROVE  \/ \E r \in Reqs : CallNext(r) \/ CallStore(r) \/ CallSend(r)
           \/ LogicFree /\ UNCHANGED <<nextID, reqID, pc>>
           \/ UNCHANGED <<nextID, reqID, pc, usedIDs>>
<1> USE DEF callVars
<1>1. CASE HsTakeSend \/ HsTakeLogic \/ HsFlush \/ HsStop \/ HsNotify \/ HsStore \/ HsDelete
  BY <1>1 DEF HsTakeSend, HsTakeLogic, HsFlush, HsStop, HsNotify, HsStore, HsDelete
<1>2. CASE LogicRecv \/ LogicNotify \/ LogicFree \/ LogicDelete \/ LogicDeliver \/ LogicStore \/ LogicSend \/ LogicExit
  BY <1>2 DEF LogicRecv, LogicNotify, LogicFree, LogicDelete, LogicDeliver, LogicStore, LogicSend, LogicExit
<1>3. CASE HandleMsg \/ HandleTopicMsg \/ NetBreak \/ NetRecvExit \/ Reconnect \/ ServerAnswer \/ ServerPublish \/ Quietly
  BY <1>3 DEF HandleMsg, HandleTopicMsg, NetBreak, NetRecvExit, Reconnect, ServerAnswer, ServerPublish, Quietly, vars
<1> QED BY <1>1, <1>2, <1>3, Steps

LEMMA NextIds ==
    ASSUME Typed, IdsOK, [Next]_vars
    PROVE  IdsOK'
<1>0. /\ nextID \in 0 .. NumIDs /\ usedIDs \in [IDs -> Reqs \cup {None}]
      /\ reqID \in [Reqs -> IDs \cup {0}] /\ NumIDs \in Nat /\ IDs = 1 .. NumIDs
      /\ pc \in [Reqs -> {"unused", "new", "store", "send", "sent"}]
  BY ReqTypes DEF Typed, TypeOK, IDs
<1>1. ASSUME NEW r \in Reqs, CallNext(r)
      PROVE  IdsOK'
  <2>1. CASE r \in Pub0
    <3>1. UNCHANGED <<nextID, usedIDs, reqID>> /\ pc' = [pc EXCEPT ![r] = "send"] /\ pc[r] = "new"
      BY <1>1, <2>1 DEF CallNext
    <3> QED BY <1>0, <2>1, <3>1 DEF IdsOK
  <2>2. CASE r \notin Pub0
    <3>1. /\ nextID < NumIDs /\ nextID' = nextID + 1 /\ usedIDs' = [usedIDs EXCEPT ![nextID + 1] = r]
          /\ reqID' = [reqID EXCEPT ![r] = nextID + 1] /\ pc[r] = "new"
          /\ pc' = [pc EXCEPT ![r] = IF r \in Pub1 \cup Pub2 THEN "store" ELSE "send"]
      BY <1>1, <2>2 DEF CallNext
    <3>2. nextID + 1 \in IDs /\ nextID \in Nat
      BY <1>0, <3>1
    <3>3. reqID[r] = 0 /\ \A s \in Reqs : reqID[s] \in Nat /\ reqID[s] <= nextID
      BY <1>0, <3>1 DEF IdsOK
    <3>4. reqID'[r] = nextID + 1 /\ \A s \in Reqs \ {r} : reqID'[s] = reqID[s]
      BY <1>0, <3>1
    <3>5. \A s \in Reqs : reqID'[s] <= nextID'
      BY <3>1, <3>2, <3>3, <3>4
    <3>6. \A s \in Reqs : reqID'[s] = 0 <=> s \in Pub0 \/ pc'[s] \in {"unused", "new"}
      BY <1>0, <2>2, <3>1, <3>2, <3>4 DEF IdsOK
    <3>7. \A s, t \in Reqs : reqID'[s] = reqID'[t] /\ reqID'[s] # 0 => s = t
      BY <3>2, <3>3, <3>4 DEF IdsOK
    <3>8. \A i \in IDs : usedIDs'[i] # None => reqID'[usedIDs'[i]] = i
      <4> SUFFICES ASSUME NEW i \in IDs, usedIDs'[i] # None
                   PROVE  reqID'[usedIDs'[i]] = i
        OBVIOUS
      <4>1. CASE i = nextID + 1
        BY <1>0, <3>1, <3>4, <4>1
      <4>2. CASE i # nextID + 1
        <5>1. usedIDs'[i] = usedIDs[i] /\ usedIDs[i] \in Reqs /\ reqID[usedIDs[i]] = i
          BY <1>0, <3>1, <4>2 DEF IdsOK
        <5>2. usedIDs[i] # r /\ i # 0
          BY <1>0, <3>3, <5>1
        <5> QED BY <3>4, <5>1, <5>2
      <4> QED BY <4>1, <4>2
    <3>9. \A s \in Reqs : pc'[s] = "store" => s \in Pub1 \cup Pub2
      BY <1>0, <3>1 DEF IdsOK
    <3> QED BY <3>5, <3>6, <3>7, <3>8, <3>9 DEF IdsOK
  <2> QED BY <2>1, <2>2
<1>2. ASSUME NEW r \in Reqs, CallStore(r) \/ CallSend(r)
      PROVE  IdsOK'
  <2>1. UNCHANGED <<nextID, usedIDs, reqID>> /\ pc[r] \in {"store", "send"} /\ pc'[r] \in {"send", "sent"} /\ \A s \in Reqs \ {r} : pc'[s] = pc[s]
    BY <1>0, <1>2 DEF CallStore, CallSend
  <2> QED BY <1>0, <2>1 DEF IdsOK
<1>3. CASE LogicFree /\ UNCHANGED <<nextID, reqID, pc>>
  <2>1. \A i \in IDs : usedIDs'[i] \in {usedIDs[i], None}
    BY <1>0, <1>3 DEF LogicFree
  <2> QED BY <1>0, <1>3, <2>1 DEF IdsOK
<1>4. CASE UNCHANGED <<nextID, reqID, pc, usedIDs>>
  BY <1>4 DEF IdsOK
<1> QED BY <1>1, <1>2, <1>3, <1>4, IdsFrame

LEMMA InitIds ==
    ASSUME Init
    PROVE  IdsOK
<1>1. PICK sc \in Scenarios : pc = [r \in Reqs |-> IF r \in sc THEN "new" ELSE "unused"]
  BY DEF Init
<1>2. nextID = 0 /\ usedIDs = [i \in IDs |-> None] /\ reqID = [r \in Reqs |-> 0]
  BY DEF Init
<1> QED BY <1>1, <1>2 DEF IdsOK

-----------------------------------------------------------------------------
(* The way of a packet to the server *)

LEMMA SentStays ==
    ASSUME Typed, [Next]_vars, NEW r \in Reqs, pc[r] = "sent"
    PROVE  pc'[r] = "sent" /\ reqID'[r] = reqID[r]
<1>0. /\ reqID \in [Reqs -> IDs \cup {0}] /\ pc \in [Reqs -> {"unused", "new", "store", "send", "sent"}]
  BY DEF Typed, TypeOK
<1>1. ASSUME NEW s \in Reqs, CallNext(s)
      PROVE  pc'[r] = "sent" /\ reqID'[r] = reqID[r]
  BY <1>0, <1>1 DEF CallNext
<1>2. ASSUME NEW s \in Reqs, CallStore(s) \/ CallSend(s)
      PROVE  pc'[r] = "sent" /\ reqID'[r] = reqID[r]
  BY <1>0, <1>2 DEF CallStore, CallSend
<1> QED BY <1>1, <1>2, IdsFrame

LEMMA RequestStays ==
    ASSUME Typed, [Next]_vars, NEW p, IsRequest(p)
    PROVE  IsRequest(p)'
<1>1. p.obj \in Reqs /\ pc[p.obj] = "sent" /\ p = RequestPkt(p.obj)
  BY DEF IsRequest
<1>2. pc'[p.obj] = "sent" /\ reqID'[p.obj] = reqID[p.obj]
  BY <1>1, SentStays
<1> QED BY <1>1, <1>2 DEF IsRequest, RequestPkt

\* Writing a packet: it is in the buffer, or with the buffer in the stream,
\* or it is lost.  What is in one place once stays so.
LEMMA WriteOnce ==
    ASSUME Typed, NEW p \in Packets, Write(p), NEW K,
           NoDup(wbuf, K), NoDup(toServer, K),
           \A q \in K : q \in Elems(wbuf) => q \notin Elems(toServer),
           p \in K => p \notin Elems(wbuf) \cup Elems(toServer)
    PROVE  /\ NoDup(wbuf', K) /\ NoDup(toServer', K)
           /\ \A q \in K : q \in Elems(wbuf') => q \notin Elems(toServer')
           /\ Elems(wbuf') \cup Elems(toServer') \subseteq Elems(wbuf) \cup Elems(toServer) \cup {p}
           /\ Elems(toServer) \subseteq Elems(toServer')
<1>1. wbuf \in Seq(Packets) /\ toServer \in Seq(Packets)
  BY DEF Typed, TypeOK
<1>2. /\ Append(wbuf, p) \in Seq(Packets) /\ Elems(Append(wbuf, p)) = Elems(wbuf) \cup {p}
      /\ NoDup(Append(wbuf, p), K)
  BY <1>1, ElemsAppend, NoDupAppend
<1>3. CASE wbuf' = Append(wbuf, p) /\ UNCHANGED toServer
  BY <1>2, <1>3
<1>4. CASE toServer' = toServer \o Append(wbuf, p) /\ wbuf' = <<>>
  <2>1. Elems(toServer') = Elems(toServer) \cup Elems(wbuf) \cup {p}
    <3> DEFINE t == Append(wbuf, p)
    <3>1. toServer' = toServer \o t /\ t \in Seq(Packets) /\ Elems(t) = Elems(wbuf) \cup {p}
      BY <1>2, <1>4
    <3> HIDE DEF t
    <3>2. Elems(toServer \o t) = Elems(toServer) \cup Elems(t)
      BY <1>1, <3>1, ElemsConcat
    <3> QED BY <3>1, <3>2
  <2>2. NoDup(toServer', K)
    BY <1>1, <1>2, <1>4, NoDupConcat
  <2> QED BY <1>4, <2>1, <2>2, ElemsEmpty, NoDupEmpty
<1>5. CASE UNCHANGED <<wbuf, toServer>>
  BY <1>5
<1> QED BY <1>3, <1>4, <1>5 DEF Write

\* The steps that leave what is on its way to the server alone
LEMMA PipeFrame ==
    ASSUME [Next]_vars
    PROVE  \/ \E r \in Reqs : CallSend(r)
           \/ HsTakeSend \/ HsTakeLogic \/ HsFlush \/ LogicSend \/ NetBreak \/ Reconnect
           \/ ServerAnswer /\ BrokerRecv
           \/ UNCHANGED <<sendCh, logicSendC, wbuf, toServer, got, bRecv>>
<1> USE DEF hsVars, netVars, brokerVars
<1>1. CASE HsStop \/ HsNotify \/ HsStore \/ HsDelete
  BY <1>1 DEF HsStop, HsNotify, HsStore, HsDelete
<1>2. CASE LogicRecv \/ LogicNotify \/ LogicFree \/ LogicDelete \/ LogicDeliver \/ LogicStore \/ LogicExit
  BY <1>2 DEF LogicRecv, LogicNotify, LogicFree, LogicDelete, LogicDeliver, LogicStore, LogicExit
<1>3. CASE HandleMsg \/ HandleTopicMsg \/ NetRecvExit \/ Quietly
  BY <1>3 DEF HandleMsg, HandleTopicMsg, NetRecvExit, Quietly, vars
<1>4. ASSUME NEW r \in Reqs, CallNext(r) \/ CallStore(r)
      PROVE  UNCHANGED <<sendCh, logicSendC, wbuf, toServer, got, bRecv>>
  BY <1>4 DEF CallNext, CallStore
<1>5. ASSUME NEW d \in Deliveries, ServerAnswer /\ BrokerResend(d)
      PROVE  UNCHANGED <<sendCh, logicSendC, wbuf, toServer, got, bRecv>>
  BY <1>5 DEF ServerAnswer, BrokerResend
<1>6. ASSUME NEW d \in Deliveries, NEW i \in IDs \cup {0}, ServerPublish /\ BrokerPublish(d, i)
      PROVE  UNCHANGED <<sendCh, logicSendC, wbuf, toServer, got, bRecv>>
  BY <1>6 DEF ServerPublish, BrokerPublish
<1> QED BY <1>1, <1>2, <1>3, <1>4, <1>5, <1>6, Steps

LEMMA NextPipe ==
    ASSUME Typed, Typed', PipeOK, [Next]_vars
    PROVE  PipeOK'
<1> USE DEF callVars, storeVars, hsVars, netVars, brokerVars
<1>0. /\ sendCh \in Seq(Packets) /\ wbuf \in Seq(Packets) /\ toServer \in Seq(Packets)
      /\ logicSendC \in Seq(Packets) /\ todo \in Seq(LogicOps) /\ got \in [Reqs -> Nat]
  BY DEF Typed, TypeOK
<1>a. \A p : IsRequest(p) => IsRequest(p)'
  BY RequestStays
<1>b. \A p : IsAck(p) => IsAck(p)'
  BY DEF IsAck
<1>c. \A p : (IsRequest(p) => p.obj \in Reqs) /\ (IsAck(p) => p.obj = None) /\ None \notin Reqs
  BY ReqTypes DEF IsRequest, IsAck
<1>d. \A r \in Reqs : pc[r] = "sent" => pc'[r] = "sent"
  BY SentStays
<1>1. ASSUME NEW r \in Reqs, CallSend(r)
      PROVE  PipeOK'
  <2>0. PICK e : e = RequestPkt(r)
    OBVIOUS
  <2>1. e \in Packets /\ e.obj = r
    BY <2>0 DEF RequestPkt, Pkt, Packets, Types, Typed, TypeOK
  <2>2. /\ pc[r] = "send" /\ sendCh' = Append(sendCh, e) /\ pc' = [pc EXCEPT ![r] = "sent"] /\ UNCHANGED <<reqID, logicSendC, wbuf, toServer, got>>
    BY <1>1, <2>0 DEF CallSend
  <2>3. IsRequest(e)'
    <3>1. pc'[r] = "sent"
      BY <2>2 DEF Typed, TypeOK
    <3>2. RequestPkt(r)' = e
      BY <2>0, <2>2 DEF RequestPkt
    <3> QED BY <2>1, <3>1, <3>2 DEF IsRequest
  <2>4. Elems(sendCh') = Elems(sendCh) \cup {e}
    BY <1>0, <2>1, <2>2, ElemsAppend
  <2>5. \A p \in Elems(sendCh) \cup Elems(wbuf) \cup Elems(toServer) : p.obj # r
    BY <1>c, <2>2 DEF PipeOK, IsRequest
  <2>6. ~(got[r] > 0)
    BY <2>2 DEF PipeOK
  <2>7. ASSUME NEW s \in Reqs, got'[s] > 0
        PROVE  /\ pc'[s] = "sent"
               /\ \A p \in Elems(sendCh') \cup Elems(wbuf') \cup Elems(toServer') : p.obj # s
    BY <1>d, <2>1, <2>2, <2>4, <2>6, <2>7 DEF PipeOK
  <2>8. \A p \in ReqPkts : p \in Elems(sendCh') => p \notin Elems(wbuf') \cup Elems(toServer')
    BY <2>1, <2>2, <2>4, <2>5 DEF PipeOK
  <2>9. /\ \A p \in Elems(sendCh') : IsRequest(p)'
        /\ \A p \in Elems(wbuf') \cup Elems(toServer') : IsRequest(p)' \/ IsAck(p)'
        /\ \A p \in Elems(logicSendC') : IsAck(p)'
    BY <1>a, <1>b, <2>2, <2>3, <2>4 DEF PipeOK
  <2> QED BY <2>2, <2>7, <2>8, <2>9 DEF PipeOK
<1>2. CASE HsTakeSend
  <2> DEFINE e == Head(sendCh)
  <2>1. e \in Packets /\ Elems(sendCh) = Elems(sendCh') \cup {e} /\ Write(e) /\ sendCh' = Tail(sendCh) /\ UNCHANGED <<logicSendC, got>>
    BY <1>0, <1>2, ElemsTail DEF HsTakeSend
  <2>2. Elems(sendCh') = {}
    <3>0. Len(sendCh) <= 1 /\ Len(Tail(sendCh)) = Len(sendCh) - 1 /\ Len(sendCh) \in Nat \ {0}
      BY <1>0, <1>2, ElemsTail DEF HsTakeSend, Typed, TypeOK, SendCap
    <3>1. Len(sendCh') = 0
      BY <2>1, <3>0
    <3>2. sendCh' = <<>>
      BY <3>1 DEF Typed, TypeOK
    <3> QED BY <3>2, ElemsEmpty
  <2>3. IsRequest(e) /\ e \in ReqPkts /\ e \notin Elems(wbuf) \cup Elems(toServer)
    <3>1. IsRequest(e)
      BY <2>1 DEF PipeOK
    <3>2. e \in ReqPkts
      BY <2>1, <3>1 DEF IsRequest, ReqPkts
    <3> QED BY <2>1, <3>1, <3>2 DEF PipeOK
  <2> HIDE DEF e
  <2>4. /\ NoDup(wbuf', ReqPkts) /\ NoDup(toServer', ReqPkts)
        /\ \A q \in ReqPkts : q \in Elems(wbuf') => q \notin Elems(toServer')
        /\ Elems(wbuf') \cup Elems(toServer') \subseteq Elems(wbuf) \cup Elems(toServer) \cup {e}
    BY <2>1, <2>3, WriteOnce DEF PipeOK
  <2> QED BY <1>a, <1>b, <1>d, <2>1, <2>2, <2>3, <2>4 DEF PipeOK
<1>3. CASE HsTakeLogic
  <2> DEFINE e == Head(logicSendC)
  <2>1. e \in Packets /\ Elems(logicSendC) = Elems(logicSendC') \cup {e} /\ Write(e) /\ UNCHANGED <<sendCh, got, pc, reqID>>
    BY <1>0, <1>3, ElemsTail DEF HsTakeLogic
  <2>2. IsAck(e)
    BY <2>1 DEF PipeOK
  <2> HIDE DEF e
  <2>3. e \notin ReqPkts
    BY <2>2, <1>c DEF ReqPkts
  <2>4. /\ NoDup(wbuf', ReqPkts) /\ NoDup(toServer', ReqPkts)
        /\ \A q \in ReqPkts : q \in Elems(wbuf') => q \notin Elems(toServer')
        /\ Elems(wbuf') \cup Elems(toServer') \subseteq Elems(wbuf) \cup Elems(toServer) \cup {e}
    BY <2>1, <2>3, WriteOnce DEF PipeOK
  <2>5. \A p \in Elems(wbuf') \cup Elems(toServer') : IsRequest(p)' \/ IsAck(p)'
    BY <1>a, <1>b, <2>2, <2>4 DEF PipeOK
  <2>6. \A p \in ReqPkts : p \in Elems(sendCh') => p \notin Elems(wbuf') \cup Elems(toServer')
    BY <2>1, <2>3, <2>4 DEF PipeOK
  <2>7. \A r \in Reqs : e.obj # r
    BY <1>c, <2>2
  <2>8. ASSUME NEW r \in Reqs, got'[r] > 0
        PROVE  /\ pc'[r] = "sent"
               /\ \A p \in Elems(sendCh') \cup Elems(wbuf') \cup Elems(toServer') : p.obj # r
    BY <1>d, <2>1, <2>4, <2>7, <2>8 DEF PipeOK
  <2>9. (\A p \in Elems(sendCh') : IsRequest(p)') /\ (\A p \in Elems(logicSendC') : IsAck(p)')
    BY <1>a, <1>b, <2>1 DEF PipeOK
  <2> QED BY <2>4, <2>5, <2>6, <2>8, <2>9 DEF PipeOK
<1>4. CASE HsFlush
  <2>1. UNCHANGED <<sendCh, logicSendC, got, pc, reqID>>
    BY <1>4 DEF HsFlush
  <2>2. CASE conn = "up"
    <3>1. toServer' = toServer \o wbuf /\ wbuf' = <<>>
      BY <1>4, <2>2 DEF HsFlush
    <3>2. Elems(toServer') = Elems(toServer) \cup Elems(wbuf) /\ Elems(wbuf') = {} /\ NoDup(wbuf', ReqPkts)
      BY <1>0, <3>1, ElemsConcat, ElemsEmpty, NoDupEmpty
    <3>3. NoDup(toServer', ReqPkts)
      BY <1>0, <3>1, NoDupConcat DEF PipeOK
    <3> QED BY <1>a, <1>b, <1>d, <2>1, <3>2, <3>3 DEF PipeOK
  <2>3. CASE conn # "up"
    <3>1. UNCHANGED <<wbuf, toServer>>
      BY <1>4, <2>3 DEF HsFlush
    <3> QED BY <1>a, <1>b, <1>d, <2>1, <3>1 DEF PipeOK
  <2> QED BY <2>2, <2>3
<1>5. CASE LogicSend
  <2> DEFINE e == Pkt(Head(todo).pkt, Head(todo).id, None)
  <2>1. Head(todo) \in LogicOps /\ Head(todo).op = "send"
    BY <1>0, <1>5, ElemsTail DEF LogicSend, LogicDo
  <2>2. Head(todo).pkt \in AckTypes /\ Head(todo).id \in IDs \cup {0}
    BY <2>1 DEF LogicOps, Ops
  <2>3. e \in Packets /\ IsAck(e)
    BY <2>2, PktTyped DEF IsAck, Types, AckTypes
  <2>4. UNCHANGED <<sendCh, wbuf, toServer, got, pc, reqID>> /\ (logicSendC' = Append(logicSendC, e) \/ UNCHANGED logicSendC)
    BY <1>5 DEF LogicSend
  <2> HIDE DEF e
  <2>5. Elems(logicSendC') \subseteq Elems(logicSendC) \cup {e}
    BY <1>0, <2>3, <2>4, ElemsAppend, ZenonT(60)
  <2> QED BY <1>a, <1>b, <1>d, <2>3, <2>4, <2>5 DEF PipeOK
<1>6. CASE NetBreak \/ Reconnect
  <2>1. UNCHANGED <<sendCh, got, pc, reqID>> /\ toServer' = <<>> /\ (UNCHANGED <<wbuf, logicSendC>> \/ (wbuf' = <<>> /\ logicSendC' = <<>>))
    BY <1>6 DEF NetBreak, StreamBroken, Reconnect, BrokerNewConnection
  <2>2. Elems(toServer') = {} /\ NoDup(toServer', ReqPkts)
    BY <2>1, ElemsEmpty, NoDupEmpty
  <2>3. Elems(wbuf') \subseteq Elems(wbuf) /\ NoDup(wbuf', ReqPkts) /\ Elems(logicSendC') \subseteq Elems(logicSendC)
    BY <2>1, ElemsEmpty, NoDupEmpty DEF PipeOK
  <2> QED BY <1>a, <1>b, <1>d, <2>1, <2>2, <2>3 DEF PipeOK
<1>7. CASE ServerAnswer /\ BrokerRecv
  <2> DEFINE e == Head(toServer)
  <2>1. UNCHANGED <<sendCh, wbuf, logicSendC, pc, reqID>> /\ toServer' = Tail(toServer) /\ toServer # <<>>
    BY <1>7 DEF ServerAnswer, BrokerRecv
  <2>2. /\ e \in Packets /\ Elems(toServer) = Elems(toServer') \cup {e} /\ NoDup(toServer', ReqPkts)
        /\ e \in ReqPkts => e \notin Elems(toServer')
    BY <1>0, <2>1, ElemsTail, NoDupTail DEF PipeOK
  <2>3. got' = IF IsNew(e) THEN [got EXCEPT ![e.obj] = @ + 1] ELSE got
    BY <1>7 DEF BrokerRecv
  <2> HIDE DEF e
  <2>4. ASSUME NEW r \in Reqs, got'[r] > 0
        PROVE  /\ pc'[r] = "sent"
               /\ \A p \in Elems(sendCh') \cup Elems(wbuf') \cup Elems(toServer') : p.obj # r
    <3>1. CASE got[r] > 0
      BY <1>d, <2>1, <2>2, <3>1 DEF PipeOK
    <3>2. CASE ~(got[r] > 0)
      <4>1. IsNew(e) /\ e.obj = r
        BY <1>0, <2>3, <2>4, <3>2
      <4>2. IsRequest(e) /\ e \in ReqPkts
        BY <1>c, <2>2, <4>1 DEF PipeOK, ReqPkts
      <4>3. ASSUME NEW p \in Elems(sendCh') \cup Elems(wbuf') \cup Elems(toServer'), p.obj = r
            PROVE  FALSE
        <5>1. IsRequest(p)
          BY <1>c, <2>1, <2>2, <4>3 DEF PipeOK
        <5>2. p = e
          BY <4>1, <4>2, <4>3, <5>1 DEF IsRequest
        <5> QED BY <2>1, <2>2, <4>2, <4>3, <5>2 DEF PipeOK
      <4> QED BY <1>d, <4>1, <4>2, <4>3 DEF IsRequest
    <3> QED BY <3>1, <3>2
  <2> QED BY <1>a, <1>b, <2>1, <2>2, <2>4 DEF PipeOK
<1>8. CASE UNCHANGED <<sendCh, logicSendC, wbuf, toServer, got, bRecv>>
  BY <1>a, <1>b, <1>d, <1>8 DEF PipeOK
<1> QED BY <1>1, <1>2, <1>3, <1>4, <1>5, <1>6, <1>7, <1>8, PipeFrame

LEMMA InitPipe ==
    ASSUME Init
    PROVE  PipeOK
<1>1. sendCh = <<>> /\ logicSendC = <<>> /\ wbuf = <<>> /\ toServer = <<>> /\ got = [r \in Reqs |-> 0]
  BY DEF Init, BrokerInit
<1> QED BY <1>1, ElemsEmpty, NoDupEmpty DEF PipeOK

-----------------------------------------------------------------------------
(* Where the elements of the queues come from *)

\* What the client sends comes from sendCh or from logic().
LEMMA OutgoingFrom ==
    ASSUME Typed, [Next]_vars
    PROVE  LogicSend \/ (Outgoing' \subseteq Outgoing \cup Elems(sendCh))
<1> USE DEF hsVars, netVars, brokerVars
<1>0. /\ sendCh \in Seq(Packets) /\ wbuf \in Seq(Packets) /\ toServer \in Seq(Packets)
      /\ logicSendC \in Seq(Packets)
  BY DEF Typed, TypeOK
<1>1. ASSUME NEW p \in Packets, Write(p)
      PROVE  Elems(wbuf') \cup Elems(toServer') \subseteq Elems(wbuf) \cup Elems(toServer) \cup {p}
  <2>1. NoDup(wbuf, {}) /\ NoDup(toServer, {})
    BY DEF NoDup
  <2> QED BY <1>1, <2>1, WriteOnce
<1>2. CASE HsTakeSend
  <2>1. Head(sendCh) \in Packets /\ Head(sendCh) \in Elems(sendCh) /\ Write(Head(sendCh)) /\ UNCHANGED logicSendC
    BY <1>0, <1>2, ElemsTail DEF HsTakeSend
  <2> QED BY <1>1, <2>1 DEF Outgoing
<1>3. CASE HsTakeLogic
  <2>1. /\ Head(logicSendC) \in Packets /\ Write(Head(logicSendC)) /\ logicSendC' = Tail(logicSendC)
        /\ Elems(logicSendC) = Elems(Tail(logicSendC)) \cup {Head(logicSendC)}
    BY <1>0, <1>3, ElemsTail DEF HsTakeLogic
  <2> QED BY <1>1, <2>1 DEF Outgoing
<1>4. CASE HsFlush
  <2>1. \/ toServer' = toServer \o wbuf /\ wbuf' = <<>> /\ UNCHANGED logicSendC
        \/ UNCHANGED <<wbuf, toServer, logicSendC>>
    BY <1>4 DEF HsFlush
  <2>2. Elems(toServer \o wbuf) = Elems(toServer) \cup Elems(wbuf)
    BY <1>0, ElemsConcat
  <2> QED BY <2>1, <2>2, ElemsEmpty DEF Outgoing
<1>5. CASE NetBreak \/ Reconnect
  <2>1. toServer' = <<>> /\ (UNCHANGED <<wbuf, logicSendC>> \/ (wbuf' = <<>> /\ logicSendC' = <<>>))
    BY <1>5 DEF NetBreak, StreamBroken, Reconnect
  <2> QED BY <2>1, ElemsEmpty DEF Outgoing
<1>6. CASE ServerAnswer /\ BrokerRecv
  <2>1. UNCHANGED <<wbuf, logicSendC>> /\ toServer' = Tail(toServer) /\ toServer # <<>>
    BY <1>6 DEF ServerAnswer, BrokerRecv
  <2> QED BY <1>0, <2>1, ElemsTail DEF Outgoing
<1>7. ASSUME NEW r \in Reqs, CallSend(r)
      PROVE  UNCHANGED <<logicSendC, wbuf, toServer>>
  BY <1>7 DEF CallSend
<1> QED BY <1>2, <1>3, <1>4, <1>5, <1>6, <1>7, PipeFrame DEF Outgoing

\* What is left to do is what was left, or of the packet just taken.
LEMMA TodoFrom ==
    ASSUME Typed, [Next]_vars
    PROVE  \/ LogicRecv
           \/ Elems(todo') \subseteq Elems(todo)
<1> USE DEF logicVars
<1>0. todo \in Seq(LogicOps)
  BY DEF Typed
<1>1. CASE LogicNotify \/ LogicFree \/ LogicDelete \/ LogicDeliver \/ LogicStore \/ LogicSend
  <2>1. todo # <<>> /\ todo' = Tail(todo)
    BY <1>1 DEF LogicNotify, LogicFree, LogicDelete, LogicDeliver, LogicStore, LogicSend, LogicDo
  <2> QED BY <1>0, <2>1, ElemsTail
<1>2. CASE Reconnect
  BY <1>2, ElemsEmpty DEF Reconnect
<1>3. CASE LogicExit \/ HsTakeSend \/ HsTakeLogic \/ HsFlush \/ HsStop \/ HsNotify \/ HsStore \/ HsDelete
  BY <1>3 DEF LogicExit, HsTakeSend, HsTakeLogic, HsFlush, HsStop, HsNotify, HsStore, HsDelete
<1>4. CASE HandleMsg \/ HandleTopicMsg \/ NetBreak \/ NetRecvExit \/ ServerAnswer \/ ServerPublish \/ Quietly
  BY <1>4 DEF HandleMsg, HandleTopicMsg, NetBreak, NetRecvExit, ServerAnswer, ServerPublish, Quietly, vars
<1>5. ASSUME NEW r \in Reqs, CallNext(r) \/ CallStore(r) \/ CallSend(r)
      PROVE  UNCHANGED todo
  BY <1>5 DEF CallNext, CallStore, CallSend
<1> QED BY <1>1, <1>2, <1>3, <1>4, <1>5, Steps

\* The same for handleSend()
LEMMA HsTodoFrom ==
    ASSUME Typed, [Next]_vars
    PROVE  \/ HsTakeSend /\ hsTodo' = AfterWrite(Head(sendCh)) /\ hsTodo = <<>>
           \/ HsTakeLogic /\ hsTodo' = AfterWrite(Head(logicSendC)) /\ hsTodo = <<>>
           \/ HsFlush /\ hsTodo' = <<NotifyNet>> /\ hsTodo = <<>>
           \/ (HsNotify \/ HsStore \/ HsDelete) /\ hsTodo # <<>> /\ hsTodo' = Tail(hsTodo)
           \/ Reconnect /\ hsTodo' = <<>>
           \/ hsTodo' = hsTodo
<1> USE DEF hsVars
<1>1. CASE HsTakeSend
  BY <1>1 DEF HsTakeSend, Write
<1>2. CASE HsTakeLogic
  BY <1>2 DEF HsTakeLogic, Write
<1>3. CASE HsFlush
  BY <1>3 DEF HsFlush
<1>4. CASE HsNotify \/ HsStore \/ HsDelete
  BY <1>4 DEF HsNotify, HsStore, HsDelete
<1>5. CASE Reconnect
  BY <1>5 DEF Reconnect
<1>6. CASE HsStop \/ LogicRecv \/ LogicNotify \/ LogicFree \/ LogicDelete \/ LogicDeliver \/ LogicStore \/ LogicSend \/ LogicExit
  BY <1>6 DEF HsStop, LogicRecv, LogicNotify, LogicFree, LogicDelete, LogicDeliver, LogicStore, LogicSend, LogicExit
<1>7. CASE HandleMsg \/ HandleTopicMsg \/ NetBreak \/ NetRecvExit \/ ServerAnswer \/ ServerPublish \/ Quietly
  BY <1>7 DEF HandleMsg, HandleTopicMsg, NetBreak, NetRecvExit, ServerAnswer, ServerPublish, Quietly, vars
<1>8. ASSUME NEW r \in Reqs, CallNext(r) \/ CallStore(r) \/ CallSend(r)
      PROVE  UNCHANGED hsTodo
  BY <1>8 DEF CallNext, CallStore, CallSend
<1> QED BY <1>1, <1>2, <1>3, <1>4, <1>5, <1>6, <1>7, <1>8, Steps

\* What the client receives is an answer of the server, a message or a PUBREL.
LEMMA ToClientFrom ==
    ASSUME Typed, [Next]_vars
    PROVE  \/ ServerAnswer /\ BrokerRecv
           \/ \E d \in Deliveries : BrokerResend(d) /\ ServerAnswer
           \/ \E d \in Deliveries, i \in IDs \cup {0} : BrokerPublish(d, i) /\ ServerPublish
           \/ Elems(toClient') \subseteq Elems(toClient)
<1> USE DEF netVars
<1>0. toClient \in Seq(InPkts)
  BY DEF Typed
<1>1. CASE LogicRecv
  <2>1. toClient # <<>> /\ toClient' = Tail(toClient)
    BY <1>1 DEF LogicRecv
  <2> QED BY <1>0, <2>1, ElemsTail
<1>2. CASE NetBreak
  <2>1. PICK k \in 0 .. Len(toClient) : toClient' = SubSeq(toClient, 1, k)
    BY <1>2 DEF NetBreak, StreamBroken
  <2> QED BY <1>0, <2>1, ElemsPrefix
<1>3. CASE Reconnect
  BY <1>3, ElemsEmpty DEF Reconnect
<1>4. CASE HsTakeSend \/ HsTakeLogic \/ HsFlush \/ HsStop \/ HsNotify \/ HsStore \/ HsDelete
  BY <1>4 DEF HsTakeSend, HsTakeLogic, HsFlush, HsStop, HsNotify, HsStore, HsDelete
<1>5. CASE LogicNotify \/ LogicFree \/ LogicDelete \/ LogicDeliver \/ LogicStore \/ LogicSend \/ LogicExit
  BY <1>5 DEF LogicNotify, LogicFree, LogicDelete, LogicDeliver, LogicStore, LogicSend, LogicExit
<1>6. CASE HandleMsg \/ HandleTopicMsg \/ NetRecvExit \/ Quietly
  BY <1>6 DEF HandleMsg, HandleTopicMsg, NetRecvExit, Quietly, vars
<1>7. ASSUME NEW r \in Reqs, CallNext(r) \/ CallStore(r) \/ CallSend(r)
      PROVE  UNCHANGED toClient
  BY <1>7 DEF CallNext, CallStore, CallSend
<1> QED BY <1>1, <1>2, <1>3, <1>4, <1>5, <1>6, <1>7, Steps

-----------------------------------------------------------------------------
(* What the server has taken, and what it answers *)

LEMMA GotStays ==
    ASSUME Typed, PipeOK, [Next]_vars, NEW r \in Reqs, got[r] > 0
    PROVE  got'[r] > 0 /\ pc[r] = "sent" /\ reqID'[r] = reqID[r]
<1>1. pc[r] = "sent" /\ reqID'[r] = reqID[r] /\ got \in [Reqs -> Nat]
  BY SentStays DEF PipeOK, Typed, TypeOK
<1>2. CASE BrokerRecv
  BY <1>1, <1>2 DEF BrokerRecv
<1>3. CASE (\E s \in Reqs : CallSend(s)) \/ HsTakeSend \/ HsTakeLogic \/ HsFlush \/ LogicSend \/ NetBreak \/ Reconnect
  <2>1. got' = got
    BY <1>3 DEF CallSend, HsTakeSend, HsTakeLogic, HsFlush, LogicSend, NetBreak, Reconnect, BrokerNewConnection, brokerVars
  <2> QED BY <1>1, <2>1
<1> QED BY <1>1, <1>2, <1>3, PipeFrame

LEMMA TakenStays ==
    ASSUME Typed, PipeOK, [Next]_vars, NEW S \in SUBSET Reqs
    PROVE  \A i : Taken(S, i) => Taken(S, i)'
<1> SUFFICES ASSUME NEW i, Taken(S, i)
             PROVE  Taken(S, i)'
  OBVIOUS
<1>1. PICK r \in S : reqID[r] = i /\ got[r] > 0
  BY DEF Taken
<1>2. reqID'[r] = i /\ got'[r] > 0
  BY <1>1, GotStays
<1> QED BY <1>2 DEF Taken

\* What a request looks like when it reaches the server
LEMMA RequestFields ==
    ASSUME Typed, IdsOK, NEW p, IsRequest(p)
    PROVE  /\ p.obj \in Reqs /\ p.id = reqID[p.obj]
           /\ p.obj \in Subs <=> p.type = "SUBSCRIBE"
           /\ p.obj \in Unsubs <=> p.type = "UNSUBSCRIBE"
           /\ p.obj \in Pub0 \cup Pub1 \cup Pub2 <=> p.type = "PUBLISH"
           /\ p.type \in {"SUBSCRIBE", "UNSUBSCRIBE", "PUBLISH"}
           /\ p.obj \notin Pub0 => p.id \in IDs /\ p.id # 0
<1>1. p.obj \in Reqs /\ pc[p.obj] = "sent" /\ p = RequestPkt(p.obj)
  BY DEF IsRequest
<1>2. p.id = reqID[p.obj] /\ reqID[p.obj] \in IDs \cup {0} /\ (p.obj \notin Pub0 => reqID[p.obj] # 0)
  <2>1. PICK r \in Reqs : r = p.obj
    BY <1>1
  <2>2. p.id = reqID[r]
    BY <1>1, <2>1 DEF RequestPkt, Pkt
  <2> QED BY <1>1, <2>1, <2>2 DEF Typed, TypeOK, IdsOK
<1>3. p.type = IF p.obj \in Subs THEN "SUBSCRIBE" ELSE IF p.obj \in Unsubs THEN "UNSUBSCRIBE" ELSE "PUBLISH"
  BY <1>1 DEF RequestPkt, Pkt
<1>4. /\ Subs \cap Unsubs = {} /\ (Pub0 \cup Pub1 \cup Pub2) \cap (Subs \cup Unsubs) = {}
      /\ Reqs = Pub0 \cup Pub1 \cup Pub2 \cup Subs \cup Unsubs
  BY PacketsAssumption DEF Reqs
<1> QED BY <1>1, <1>2, <1>3, <1>4

\* The server takes a request: then it has it.
LEMMA RequestTaken ==
    ASSUME Typed, IdsOK, PipeOK, AnswersOK, ServerAnswer /\ BrokerRecv, [Next]_vars,
           NEW p, p = Head(toServer), NEW S \in SUBSET Reqs, p.obj \in S,
           S = Pub2 \/ S \cap Pub2 = {}
    PROVE  Taken(S, p.id)'
<1>0. toServer \in Seq(Packets) /\ toServer # <<>> /\ got \in [Reqs -> Nat]
  BY DEF BrokerRecv, Typed, TypeOK
<1>2. p \in Elems(toServer)
  BY <1>0, ElemsTail
<1>3. IsRequest(p)
  BY <1>2, ReqTypes DEF PipeOK, IsAck
<1>4. p.obj \in S /\ p.obj \in Reqs /\ p.id = reqID[p.obj] /\ pc[p.obj] = "sent"
  BY <1>3, RequestFields DEF IsRequest
<1>5. reqID'[p.obj] = p.id
  BY <1>4, SentStays
<1>6. CASE IsNew(p)
  <2>1. got' = [got EXCEPT ![p.obj] = @ + 1]
    BY <1>6 DEF BrokerRecv
  <2>2. got'[p.obj] = got[p.obj] + 1 /\ got[p.obj] \in Nat
    BY <1>0, <1>4, <2>1
  <2>3. got'[p.obj] > 0
    BY <2>2
  <2> QED BY <1>4, <1>5, <2>3 DEF Taken
<1>7. CASE ~IsNew(p)
  <2>1. p.obj \in Pub2 /\ p.id \in bRecv
    BY <1>4, <1>7 DEF IsNew
  <2>2. Taken(Pub2, p.id) /\ Pub2 \in SUBSET Reqs
    BY <2>1, ReqTypes DEF AnswersOK
  <2>3. Taken(Pub2, p.id)'
    BY <2>2, TakenStays
  <2> QED BY <1>4, <2>1, <2>3
<1> QED BY <1>6, <1>7

\* A request that the server has taken is not held again once it is released.
LEMMA ReleasedStays ==
    ASSUME Typed, IdsOK, PipeOK, [Next]_vars, NEW r \in Reqs \ Pub0, Released(r)
    PROVE  Released(r)'
<1>1. got[r] > 0 /\ reqID[r] \notin bRecv /\ got'[r] > 0 /\ reqID'[r] = reqID[r] /\ pc[r] = "sent"
  BY GotStays DEF Released
<1>2. CASE ServerAnswer /\ BrokerRecv
  <2>0. PICK p : p = Head(toServer)
    OBVIOUS
  <2>1. p \in Elems(toServer)
    BY <1>2, <2>0, ElemsTail DEF BrokerRecv, Typed, TypeOK
  <2>2. bRecv' \subseteq bRecv \/ (p.obj \in Pub2 /\ bRecv' = bRecv \cup {p.id})
    BY <1>2, <2>0 DEF BrokerRecv
  <2>3. ASSUME p.obj \in Pub2
        PROVE  p.id # reqID[r]
    <3>1. IsRequest(p) /\ p.obj \in Reqs
      BY <2>1, <2>3, ReqTypes DEF PipeOK, IsAck
    <3>2. p.id = reqID[p.obj] /\ p.obj # r /\ p.id # 0
      BY <1>1, <2>1, <2>3, <3>1, RequestFields, PacketsAssumption DEF PipeOK
    <3> QED BY <3>1, <3>2 DEF IdsOK
  <2> QED BY <1>1, <2>2, <2>3 DEF Released
<1>3. CASE (\E s \in Reqs : CallSend(s)) \/ HsTakeSend \/ HsTakeLogic \/ HsFlush \/ LogicSend \/ NetBreak \/ Reconnect
  <2>1. bRecv' = bRecv
    BY <1>3 DEF CallSend, HsTakeSend, HsTakeLogic, HsFlush, LogicSend, NetBreak, Reconnect, BrokerNewConnection, brokerVars
  <2> QED BY <1>1, <2>1 DEF Released
<1>4. CASE bRecv' = bRecv
  BY <1>1, <1>4 DEF Released
<1> QED BY <1>2, <1>3, <1>4, PipeFrame

LEMMA AfterWriteOps ==
    ASSUME NEW p \in Packets, NEW o \in Elems(AfterWrite(p))
    PROVE  /\ o.op = "storeSent" => p.type = "PUBREL" /\ o.id = p.id /\ o.pkt = "PUBREL"
           /\ o.op = "delete" => p.type \in {"PUBACK", "PUBCOMP"} /\ o.id = p.id
<1>1. \A x : Elems(<<x>>) = {x}
  BY DEF Elems
<1>2. CASE p.type = "PUBLISH" /\ p.obj \in Pub0
  BY <1>1, <1>2, OpFields DEF AfterWrite
<1>3. CASE p.type = "PUBREL"
  BY <1>1, <1>3, OpFields DEF AfterWrite
<1>4. CASE p.type \in {"PUBACK", "PUBCOMP"}
  BY <1>1, <1>4, OpFields DEF AfterWrite
<1>5. CASE ~(p.type = "PUBLISH" /\ p.obj \in Pub0) /\ p.type \notin {"PUBACK", "PUBCOMP", "PUBREL"}
  BY <1>5, ElemsEmpty DEF AfterWrite
<1> QED BY <1>2, <1>3, <1>4, <1>5

\* The operations that handling a packet takes, one by one
LEMMA Elems3 ==
    /\ \A x : Elems(<<x>>) = {x} /\ <<x>> # <<>> /\ Head(<<x>>) = x /\ Tail(<<x>>) = <<>>
    /\ \A x, y : Elems(<<x, y>>) = {x, y} /\ <<x, y>> # <<>> /\ Head(<<x, y>>) = x /\ Tail(<<x, y>>) = <<y>>
    /\ \A x, y, z : Elems(<<x, y, z>>) = {x, y, z} /\ <<x, y, z>> # <<>>
                    /\ Head(<<x, y, z>>) = x /\ Tail(<<x, y, z>>) = <<y, z>>
    /\ \A w, x, y, z : Elems(<<w, x, y, z>>) = {w, x, y, z} /\ <<w, x, y, z>> # <<>>
                    /\ Head(<<w, x, y, z>>) = w /\ Tail(<<w, x, y, z>>) = <<x, y, z>>
                    /\ <<w>> \o <<x, y, z>> = <<w, x, y, z>>
<1>1. \A x : Elems(<<x>>) = {x} /\ <<x>> # <<>> /\ Head(<<x>>) = x /\ Tail(<<x>>) = <<>>
  BY DEF Elems
<1>2. \A x, y : Elems(<<x, y>>) = {x, y} /\ <<x, y>> # <<>> /\ Head(<<x, y>>) = x /\ Tail(<<x, y>>) = <<y>>
  BY DEF Elems
<1>3. \A x, y, z : Elems(<<x, y, z>>) = {x, y, z} /\ <<x, y, z>> # <<>>
                    /\ Head(<<x, y, z>>) = x /\ Tail(<<x, y, z>>) = <<y, z>>
  BY DEF Elems
<1>4. \A w, x, y, z : Elems(<<w, x, y, z>>) = {w, x, y, z} /\ <<w, x, y, z>> # <<>>
                    /\ Head(<<w, x, y, z>>) = w /\ Tail(<<w, x, y, z>>) = <<x, y, z>>
                    /\ <<w>> \o <<x, y, z>> = <<w, x, y, z>>
  <2> TAKE w, x, y, z
  <2>1. Elems(<<w, x, y, z>>) = {w, x, y, z}
    BY DEF Elems
  <2>2. Tail(<<w, x, y, z>>) = <<x, y, z>>
    OBVIOUS
  <2>3. <<w>> \o <<x, y, z>> = <<w, x, y, z>>
    <3> DEFINE T == {w, x, y, z}
    <3> DEFINE t == <<x, y, z>>
    <3> DEFINE u == <<w, x, y, z>>
    <3>1. t \in Seq(T) /\ Len(t) = 3 /\ t[1] = x /\ t[2] = y /\ t[3] = z
      OBVIOUS
    <3>2. u \in Seq(T) /\ Len(u) = 4 /\ u[1] = w /\ u[2] = x /\ u[3] = y /\ u[4] = z
      OBVIOUS
    <3> DEFINE s == <<w>>
    <3>3. s \in Seq(T) /\ Len(s) = 1 /\ s[1] = w
      OBVIOUS
    <3> HIDE DEF s, t, u, T
    <3>4. s \o t = u
      BY <3>1, <3>2, <3>3, Concat1
    <3> QED BY <3>4 DEF s, t, u
  <2>4. Head(<<w, x, y, z>>) = w /\ <<w, x, y, z>> # <<>>
    OBVIOUS
  <2> QED BY <2>1, <2>2, <2>3, <2>4
<1> QED BY <1>1, <1>2, <1>3, <1>4

\* What handling a packet takes, by the type of the packet
LEMMA HandlerShape ==
    ASSUME Typed, NEW p \in InPkts
    PROVE  \/ Handler(p) = <<>>
           \/ /\ p.type = "SUBACK" /\ p.id \in IDs /\ usedIDs[p.id] \in Subs
              /\ Handler(p) = <<Notify(usedIDs[p.id]), FreeID(p.id), DeleteSent(p.id)>>
           \/ /\ p.type = "UNSUBACK" /\ p.id \in IDs /\ usedIDs[p.id] \in Unsubs
              /\ Handler(p) = <<Notify(usedIDs[p.id]), FreeID(p.id), DeleteSent(p.id)>>
           \/ /\ p.type = "PUBACK" /\ p.id \in IDs /\ usedIDs[p.id] \in Pub1
              /\ Handler(p) = <<Notify(usedIDs[p.id]), FreeID(p.id), DeleteSent(p.id)>>
           \/ /\ p.type = "PUBCOMP" /\ p.id \in IDs /\ usedIDs[p.id] \in Pub2
              /\ Handler(p) = <<SendPkt("PUBREL", p.id), Notify(usedIDs[p.id]), FreeID(p.id), DeleteSent(p.id)>>
           \/ /\ p.type = "PUBREC" /\ p.id \in IDs /\ usedIDs[p.id] \in Pub2
              /\ Handler(p) = <<SendPkt("PUBREL", p.id)>>
           \/ /\ p.type = "PUBREL" /\ p.id \in IDs /\ usedIDs[p.id] \in Pub2
              /\ Handler(p) = <<SendPkt("PUBCOMP", p.id), StoreRecv(p.id, "PUBREL")>>
           \/ p.type = "PUBLISH" /\ p.obj \in In0 /\ Handler(p) = <<Deliver(p.obj)>>
           \/ /\ p.type = "PUBLISH" /\ p.obj \in In1
              /\ Handler(p) = <<Deliver(p.obj), SendPkt("PUBACK", p.id), StoreRecv(p.id, "PUBLISH")>>
           \/ /\ p.type = "PUBLISH" /\ p.obj \in In2
              /\ Handler(p) = <<Deliver(p.obj), SendPkt("PUBREC", p.id), StoreRecv(p.id, "PUBLISH")>>
<1>1. ASSUME NEW S \in SUBSET Reqs, Origin(p.id) \in S
      PROVE  p.id \in IDs /\ Origin(p.id) = usedIDs[p.id] /\ usedIDs[p.id] \in S
  BY <1>1, ReqTypes DEF Origin
<1>2. /\ Origin(p.id) \in Subs => p.id \in IDs /\ Origin(p.id) = usedIDs[p.id] /\ usedIDs[p.id] \in Subs
      /\ Origin(p.id) \in Unsubs => p.id \in IDs /\ Origin(p.id) = usedIDs[p.id] /\ usedIDs[p.id] \in Unsubs
      /\ Origin(p.id) \in Pub1 => p.id \in IDs /\ Origin(p.id) = usedIDs[p.id] /\ usedIDs[p.id] \in Pub1
      /\ Origin(p.id) \in Pub2 => p.id \in IDs /\ Origin(p.id) = usedIDs[p.id] /\ usedIDs[p.id] \in Pub2
  BY <1>1, ReqTypes
<1>3. CASE p.type = "SUBACK"
  BY <1>2, <1>3 DEF Handler, OnSubAck, Complete
<1>4. CASE p.type = "UNSUBACK"
  BY <1>2, <1>4 DEF Handler, OnUnsubAck, Complete
<1>5. CASE p.type = "PUBACK"
  BY <1>2, <1>5 DEF Handler, OnPubAck, Complete
<1>6. CASE p.type = "PUBREC"
  BY <1>2, <1>6 DEF Handler, OnPubRec
<1>7. CASE p.type = "PUBREL"
  BY <1>2, <1>7 DEF Handler, OnPubRel
<1>8. CASE p.type = "PUBCOMP"
  <2>1. Handler(p) = OnPubComp(p.id)
    BY <1>8 DEF Handler
  <2>2. <<SendPkt("PUBREL", p.id)>> \o Complete(Origin(p.id), p.id)
           = <<SendPkt("PUBREL", p.id), Notify(Origin(p.id)), FreeID(p.id), DeleteSent(p.id)>>
    BY Elems3 DEF Complete
  <2> QED BY <1>2, <1>8, <2>1, <2>2 DEF OnPubComp
<1>9. CASE p.type = "PUBLISH"
  <2>1. Handler(p) = OnPublish(p.obj, p.id) /\ p.obj \in Deliveries
    BY <1>9 DEF Handler, InPkts
  <2>2. In0 \cap (In1 \cup In2) = {} /\ In1 \cap In2 = {}
    BY PacketsAssumption
  <2> QED BY <1>9, <2>1, <2>2 DEF OnPublish, Deliveries
<1> QED BY <1>3, <1>4, <1>5, <1>6, <1>7, <1>8, <1>9 DEF InPkts, AckTypes

\* The PUBREL that handling a packet sends answers that packet.
LEMMA HandlerReleases ==
    ASSUME Typed, NEW p \in InPkts, NEW o \in Elems(Handler(p)), o.op = "send"
    PROVE  /\ o.id = p.id
           /\ \/ o.pkt = "PUBREL" /\ p.type \in {"PUBREC", "PUBCOMP"}
              \/ o.pkt = "PUBCOMP" /\ p.type = "PUBREL"
              \/ o.pkt = "PUBACK" /\ p.type = "PUBLISH" /\ p.obj \in In1
              \/ o.pkt = "PUBREC" /\ p.type = "PUBLISH" /\ p.obj \in In2
<1>1. o \in Elems(Handler(p)) /\ Elems(<<>>) = {}
  BY ElemsEmpty
<1>2. \A x : Notify(x).op # "send" /\ FreeID(x).op # "send" /\ DeleteSent(x).op # "send" /\ Deliver(x).op # "send"
  BY OpFields
<1>3. \A i, t : StoreRecv(i, t).op # "send" /\ SendPkt(t, i).id = i /\ SendPkt(t, i).pkt = t
  BY OpFields
<1>4. p.type \in {"PUBREC", "PUBREL", "PUBCOMP", "PUBLISH"}
  <2>1. ASSUME NEW r, Handler(p) = <<Notify(r), FreeID(p.id), DeleteSent(p.id)>>
        PROVE  FALSE
    BY <1>1, <1>2, <2>1, Elems3
  <2>2. CASE Handler(p) = <<>>
    BY <1>1, <2>2
  <2> QED BY <2>1, <2>2, HandlerShape
<1>5. CASE p.type = "PUBCOMP"
  <2>1. Handler(p) # <<>>
    BY <1>1
  <2>2. PICK r : Handler(p) = <<SendPkt("PUBREL", p.id), Notify(r), FreeID(p.id), DeleteSent(p.id)>>
    BY <1>5, <2>1, HandlerShape
  <2>3. o = SendPkt("PUBREL", p.id)
    BY <1>1, <1>2, <2>2, Elems3
  <2> QED BY <1>3, <1>5, <2>3
<1>6. CASE p.type \in {"PUBREC", "PUBREL"}
  <2>1. Handler(p) # <<>>
    BY <1>1
  <2>2. \/ p.type = "PUBREC" /\ Handler(p) = <<SendPkt("PUBREL", p.id)>>
        \/ p.type = "PUBREL" /\ Handler(p) = <<SendPkt("PUBCOMP", p.id), StoreRecv(p.id, "PUBREL")>>
    BY <1>6, <2>1, HandlerShape
  <2> QED BY <1>1, <1>3, <2>2, Elems3
<1>7. CASE p.type = "PUBLISH"
  <2>1. Handler(p) # <<>>
    BY <1>1
  <2>2. \/ Handler(p) = <<Deliver(p.obj)>>
        \/ p.obj \in In1 /\ Handler(p) = <<Deliver(p.obj), SendPkt("PUBACK", p.id), StoreRecv(p.id, "PUBLISH")>>
        \/ p.obj \in In2 /\ Handler(p) = <<Deliver(p.obj), SendPkt("PUBREC", p.id), StoreRecv(p.id, "PUBLISH")>>
    BY <1>7, <2>1, HandlerShape
  <2>3. \/ o = Deliver(p.obj)
        \/ o = StoreRecv(p.id, "PUBLISH")
        \/ p.obj \in In1 /\ o = SendPkt("PUBACK", p.id)
        \/ p.obj \in In2 /\ o = SendPkt("PUBREC", p.id)
    BY <1>1, <2>2, Elems3
  <2> QED BY <1>2, <1>3, <1>7, <2>3
<1> QED BY <1>4, <1>5, <1>6, <1>7

LEMMA NextAnswers ==
    ASSUME Typed, Typed', IdsOK, PipeOK, AnswersOK, [Next]_vars
    PROVE  AnswersOK'
<1> USE DEF brokerVars
<1>0. /\ sendCh \in Seq(Packets) /\ wbuf \in Seq(Packets) /\ toServer \in Seq(Packets)
      /\ logicSendC \in Seq(Packets) /\ todo \in Seq(LogicOps) /\ toClient \in Seq(InPkts)
      /\ hsTodo \in Seq(SendOps)
  BY DEF Typed, TypeOK
<1>a. /\ \A i : Taken(Subs, i) => Taken(Subs, i)'
      /\ \A i : Taken(Unsubs, i) => Taken(Unsubs, i)'
      /\ \A i : Taken(Pub1, i) => Taken(Pub1, i)'
      /\ \A i : Taken(Pub2, i) => Taken(Pub2, i)'
  BY TakenStays, ReqTypes
<1>b. ASSUME NEW i, Taken(Pub2, i), i \notin bRecv
      PROVE  i \notin bRecv'
  <2>1. PICK r \in Pub2 : reqID[r] = i /\ got[r] > 0
    BY <1>b DEF Taken
  <2>2. r \in Reqs \ Pub0 /\ Released(r)
    BY <1>b, <2>1, ReqTypes, PacketsAssumption DEF Released
  <2>3. Released(r)' /\ reqID'[r] = i
    BY <2>1, <2>2, ReleasedStays, GotStays
  <2> QED BY <2>3 DEF Released
<1>c. ASSUME NEW p \in Elems(sendCh) \cup Outgoing, p.type = "PUBREL"
      PROVE  Taken(Pub2, p.id) /\ p \in Outgoing
  <2>1. p \notin Elems(sendCh)
    BY <1>c, RequestFields DEF PipeOK
  <2> QED BY <1>c, <2>1 DEF AnswersOK
<1>1. \A p \in Outgoing' : p.type = "PUBREL" => Taken(Pub2, p.id)'
  <2>1. CASE LogicSend
    <3> DEFINE e == Pkt(Head(todo).pkt, Head(todo).id, None)
    <3>1. Head(todo) \in LogicOps /\ Head(todo) \in Elems(todo) /\ Head(todo).op = "send"
      BY <1>0, <2>1, ElemsTail DEF LogicSend, LogicDo
    <3>2. Head(todo).pkt \in AckTypes /\ Head(todo).id \in IDs \cup {0}
      BY <3>1 DEF LogicOps, Ops
    <3>3. e \in Packets /\ e.type = Head(todo).pkt /\ e.id = Head(todo).id
      BY <3>2, PktTyped DEF Types, AckTypes
    <3>4. e.type = "PUBREL" => Taken(Pub2, e.id)
      BY <3>1, <3>3 DEF AnswersOK
    <3>5. UNCHANGED <<wbuf, toServer>> /\ (logicSendC' = Append(logicSendC, e) \/ UNCHANGED logicSendC)
      BY <2>1 DEF LogicSend, hsVars, netVars
    <3> HIDE DEF e
    <3>6. Outgoing' \subseteq Outgoing \cup {e}
      BY <1>0, <3>3, <3>5, ElemsAppend, ZenonT(60) DEF Outgoing
    <3> QED BY <1>a, <3>4, <3>6 DEF AnswersOK
  <2>2. CASE Outgoing' \subseteq Outgoing \cup Elems(sendCh)
    BY <1>a, <1>c, <2>2
  <2> QED BY <2>1, <2>2, OutgoingFrom
<1>2. \A o \in Elems(todo') : o.op = "send" /\ o.pkt = "PUBREL" => Taken(Pub2, o.id)'
  <2>1. CASE LogicRecv
    <3>1. Head(toClient) \in InPkts /\ Head(toClient) \in Elems(toClient) /\ todo' = Handler(Head(toClient))
      BY <1>0, <2>1, ElemsTail DEF LogicRecv
    <3>2. PICK p \in InPkts : p = Head(toClient)
      BY <3>1
    <3>3. ASSUME NEW o \in Elems(todo'), o.op = "send", o.pkt = "PUBREL"
          PROVE  Taken(Pub2, o.id)
      BY <3>1, <3>2, <3>3, HandlerReleases DEF AnswersOK
    <3> QED BY <1>a, <3>3
  <2>2. CASE Elems(todo') \subseteq Elems(todo)
    BY <1>a, <2>2 DEF AnswersOK
  <2> QED BY <2>1, <2>2, TodoFrom
<1>3. \A o \in Elems(hsTodo') : o.op = "storeSent" => Taken(Pub2, o.id)' /\ o.pkt = "PUBREL"
  <2>1. ASSUME NEW p \in Packets, p \in Elems(sendCh) \cup Outgoing, hsTodo' = AfterWrite(p)
        PROVE  \A o \in Elems(hsTodo') : o.op = "storeSent" => Taken(Pub2, o.id)' /\ o.pkt = "PUBREL"
    BY <1>a, <1>c, <2>1, AfterWriteOps
  <2>2. CASE HsTakeSend /\ hsTodo' = AfterWrite(Head(sendCh))
    <3>1. Head(sendCh) \in Packets /\ Head(sendCh) \in Elems(sendCh)
      BY <1>0, <2>2, ElemsTail DEF HsTakeSend
    <3> QED BY <2>1, <2>2, <3>1
  <2>3. CASE HsTakeLogic /\ hsTodo' = AfterWrite(Head(logicSendC))
    <3>1. Head(logicSendC) \in Packets /\ Head(logicSendC) \in Outgoing
      BY <1>0, <2>3, ElemsTail DEF HsTakeLogic, Outgoing
    <3> QED BY <2>1, <2>3, <3>1
  <2>4. CASE hsTodo' = <<NotifyNet>>
    BY <2>4, Elems3, OpFields
  <2>5. CASE hsTodo # <<>> /\ hsTodo' = Tail(hsTodo)
    <3>1. Elems(hsTodo') \subseteq Elems(hsTodo)
      BY <1>0, <2>5, ElemsTail
    <3> QED BY <1>a, <3>1 DEF AnswersOK
  <2>6. CASE hsTodo' = <<>> \/ hsTodo' = hsTodo
    BY <1>a, <2>6, ElemsEmpty DEF AnswersOK
  <2> QED BY <2>2, <2>3, <2>4, <2>5, <2>6, HsTodoFrom
<1>4. CASE ServerAnswer /\ BrokerRecv
  <2>0. PICK p : p = Head(toServer)
    OBVIOUS
  <2>1. p \in Packets /\ p \in Elems(toServer) /\ toClient' = toClient \o Answer(p)
    BY <1>0, <1>4, <2>0, ElemsTail DEF BrokerRecv
  <2>2. Elems(toClient') = Elems(toClient) \cup Elems(Answer(p))
    BY <1>0, <2>1, AnswerTyped, ElemsConcat
  <2>3. /\ p.obj \in Subs => Taken(Subs, p.id)'
        /\ p.obj \in Unsubs => Taken(Unsubs, p.id)'
        /\ p.obj \in Pub1 => Taken(Pub1, p.id)'
        /\ p.obj \in Pub2 => Taken(Pub2, p.id)'
    BY <1>4, <2>0, ReqTypes, PacketsAssumption, RequestTaken
  <2>4. bRecv' = IF p.obj \in Pub2 THEN bRecv \cup {p.id} ELSE IF p.type = "PUBREL" THEN bRecv \ {p.id} ELSE bRecv
    BY <1>4, <2>0 DEF BrokerRecv
  <2>5. /\ p.type = "SUBSCRIBE" => p.obj \in Subs
        /\ p.type = "UNSUBSCRIBE" => p.obj \in Unsubs
        /\ p.type = "PUBREL" => p.obj = None /\ p.obj \notin Pub2 /\ Taken(Pub2, p.id)
    <3>1. CASE IsRequest(p)
      BY <3>1, RequestFields
    <3>2. CASE IsAck(p)
      BY <2>1, <3>2, ReqTypes DEF IsAck, AckTypes, AnswersOK, Outgoing
    <3> QED BY <2>1, <3>1, <3>2 DEF PipeOK
  <2>6. \A i \in bRecv' : Taken(Pub2, i)'
    BY <1>a, <2>3, <2>4 DEF AnswersOK
  <2>7. ASSUME NEW q \in Elems(toClient)
        PROVE  /\ q.type = "SUBACK"   => Taken(Subs, q.id)'
               /\ q.type = "UNSUBACK" => Taken(Unsubs, q.id)'
               /\ q.type = "PUBACK"   => Taken(Pub1, q.id)'
               /\ q.type = "PUBREC"   => Taken(Pub2, q.id)'
               /\ q.type = "PUBCOMP"  => Taken(Pub2, q.id)' /\ q.id \notin bRecv'
    BY <1>a, <1>b, <2>7 DEF AnswersOK
  <2>8. ASSUME NEW q \in Elems(Answer(p))
        PROVE  /\ q.type = "SUBACK"   => Taken(Subs, q.id)'
               /\ q.type = "UNSUBACK" => Taken(Unsubs, q.id)'
               /\ q.type = "PUBACK"   => Taken(Pub1, q.id)'
               /\ q.type = "PUBREC"   => Taken(Pub2, q.id)'
               /\ q.type = "PUBCOMP"  => Taken(Pub2, q.id)' /\ q.id \notin bRecv'
    <3>1. q.id = p.id
      BY <2>1, <2>8, AnswerTyped
    <3>2. /\ q.type = "SUBACK"   => p.obj \in Subs
          /\ q.type = "UNSUBACK" => p.obj \in Unsubs
          /\ q.type = "PUBACK"   => p.obj \in Pub1
          /\ q.type = "PUBREC"   => p.obj \in Pub2
          /\ q.type = "PUBCOMP"  => p.type = "PUBREL" /\ Taken(Pub2, p.id) /\ p.obj \notin Pub2
      BY <2>1, <2>5, <2>8, AnswerTyped
    <3> QED BY <1>a, <2>3, <2>4, <3>1, <3>2
  <2> QED BY <1>1, <1>2, <1>3, <2>2, <2>6, <2>7, <2>8 DEF AnswersOK
<1>5. ASSUME ~(ServerAnswer /\ BrokerRecv)
      PROVE  AnswersOK'
  <2>1. bRecv' = bRecv
    <3>1. CASE (\E s \in Reqs : CallSend(s)) \/ HsTakeSend \/ HsTakeLogic \/ HsFlush \/ LogicSend \/ NetBreak \/ Reconnect
      BY <3>1 DEF CallSend, HsTakeSend, HsTakeLogic, HsFlush, LogicSend, NetBreak, Reconnect, BrokerNewConnection
    <3> QED BY <1>5, <3>1, PipeFrame
  <2>2. \A q \in Elems(toClient') : q \in Elems(toClient) \/ q.type \in {"PUBLISH", "PUBREL"}
    <3>1. ASSUME NEW d \in Deliveries, BrokerResend(d)
          PROVE  \A q \in Elems(toClient') : q \in Elems(toClient) \/ q.type \in {"PUBLISH", "PUBREL"}
      <4>1. PICK e : e = IF bpc[d] = "sent" THEN Pkt("PUBLISH", bid[d], d) ELSE Pkt("PUBREL", bid[d], None)
        OBVIOUS
      <4>2. toClient' = Append(toClient, e)
        BY <3>1, <4>1 DEF BrokerResend
      <4>3. bid[d] \in IDs \cup {0}
        BY DEF Typed, TypeOK
      <4>4. e \in InPkts /\ e.type \in {"PUBLISH", "PUBREL"}
        BY <4>1, <4>3, PktTyped DEF InPkts, Types, AckTypes
      <4> QED BY <1>0, <4>2, <4>4, ElemsAppend
    <3>2. ASSUME NEW d \in Deliveries, NEW i \in IDs \cup {0}, BrokerPublish(d, i)
          PROVE  \A q \in Elems(toClient') : q \in Elems(toClient) \/ q.type \in {"PUBLISH", "PUBREL"}
      <4>1. PICK e : e = Pkt("PUBLISH", i, d)
        OBVIOUS
      <4>2. toClient' = Append(toClient, e)
        BY <3>2, <4>1 DEF BrokerPublish
      <4>3. e \in InPkts /\ e.type = "PUBLISH"
        BY <4>1, PktTyped DEF InPkts, Types, AckTypes
      <4> QED BY <1>0, <4>2, <4>3, ElemsAppend
    <3> QED BY <1>5, <3>1, <3>2, ToClientFrom
  <2>3. ASSUME NEW q \in Elems(toClient')
        PROVE  /\ q.type = "SUBACK"   => Taken(Subs, q.id)'
               /\ q.type = "UNSUBACK" => Taken(Unsubs, q.id)'
               /\ q.type = "PUBACK"   => Taken(Pub1, q.id)'
               /\ q.type = "PUBREC"   => Taken(Pub2, q.id)'
               /\ q.type = "PUBCOMP"  => Taken(Pub2, q.id)' /\ q.id \notin bRecv'
    BY <1>a, <2>1, <2>2, <2>3 DEF AnswersOK
  <2>4. \A i \in bRecv' : Taken(Pub2, i)'
    BY <1>a, <2>1 DEF AnswersOK
  <2> QED BY <1>1, <1>2, <1>3, <2>3, <2>4 DEF AnswersOK
<1> QED BY <1>4, <1>5

LEMMA InitAnswers ==
    ASSUME Init
    PROVE  AnswersOK
<1>1. /\ toClient = <<>> /\ logicSendC = <<>> /\ wbuf = <<>> /\ toServer = <<>> /\ todo = <<>> /\ hsTodo = <<>>
      /\ bRecv = {}
  BY DEF Init, BrokerInit
<1> QED BY <1>1, ElemsEmpty DEF AnswersOK, Outgoing

-----------------------------------------------------------------------------
(* Reports *)

LEMMA ReportedType ==
    ASSUME Typed, NEW r \in Reqs
    PROVE  Reported(r) \in Nat
<1>1. msgCh \in Seq(Reqs \cup {None}) /\ notified[r] \in Nat
  BY DEF Typed, TypeOK
<1>2. Times(r, msgCh) \in Nat
  BY <1>1, TimesType
<1> QED BY <1>1, <1>2 DEF Reported

\* Only the two notify operations report a request.
LEMMA ReportedStep ==
    ASSUME Typed, [Next]_vars, NEW r \in Reqs
    PROVE  \/ Reported(r)' = Reported(r)
           \/ LogicNotify /\ Head(todo).obj = r /\ Reported(r)' = Reported(r) + 1
           \/ HsNotify /\ Head(hsTodo).obj = r /\ Reported(r)' = Reported(r) + 1
<1> USE DEF appVars
<1>0. /\ msgCh \in Seq(Reqs \cup {None}) /\ notified \in [Reqs -> Nat] /\ None \notin Reqs
      /\ todo \in Seq(LogicOps) /\ hsTodo \in Seq(SendOps)
  BY ReqTypes DEF Typed, TypeOK
<1>a. Times(r, msgCh) \in Nat /\ notified[r] \in Nat
  BY <1>0, TimesType
<1>1. ASSUME NEW x \in Reqs \cup {None}, msgCh' = Append(msgCh, x), notified' = notified
      PROVE  Reported(r)' = Reported(r) + (IF x = r THEN 1 ELSE 0)
  <2>1. Times(r, msgCh') = Times(r, msgCh) + (IF x = r THEN 1 ELSE 0)
    BY <1>0, <1>1, TimesAppend
  <2> QED BY <1>1, <1>a, <2>1 DEF Reported
<1>b. Reported(r) \in Nat
  BY ReportedType
<1>2. CASE LogicNotify
  <2>1. Head(todo).obj \in Reqs
    BY <1>0, <1>2, ElemsTail DEF LogicNotify, LogicDo, LogicOps
  <2>2. msgCh' = Append(msgCh, Head(todo).obj) /\ notified' = notified
    BY <1>2 DEF LogicNotify
  <2> QED BY <1>1, <1>2, <1>b, <2>1, <2>2
<1>3. CASE HsNotify
  <2>1. Head(hsTodo).obj \in Reqs \cup {None}
    BY <1>0, <1>3, ElemsTail DEF HsNotify, SendOps
  <2>2. msgCh' = Append(msgCh, Head(hsTodo).obj) /\ notified' = notified
    BY <1>3 DEF HsNotify
  <2> QED BY <1>1, <1>3, <1>b, <2>1, <2>2
<1>4. CASE LogicExit \/ NetRecvExit
  <2>1. msgCh' = Append(msgCh, None) /\ notified' = notified
    BY <1>4 DEF LogicExit, NetRecvExit
  <2> QED BY <1>0, <1>1, <1>b, <2>1
<1>5. CASE HandleMsg
  <2>0. PICK x : x = Head(msgCh)
    OBVIOUS
  <2>1. /\ msgCh # <<>> /\ msgCh' = Tail(msgCh) /\ x \in Reqs \cup {None}
        /\ notified' = IF x = None THEN notified ELSE [notified EXCEPT ![x] = @ + 1]
    BY <1>0, <1>5, <2>0, ElemsTail DEF HandleMsg
  <2>2. Times(r, msgCh) = Times(r, msgCh') + (IF x = r THEN 1 ELSE 0)
    BY <1>0, <2>0, <2>1, TimesTail
  <2>3. Times(r, msgCh') \in Nat
    BY <1>0, <2>1, ElemsTail, TimesType
  <2>4. notified'[r] = notified[r] + (IF x = r THEN 1 ELSE 0)
    BY <1>0, <2>1
  <2> QED BY <1>a, <2>2, <2>3, <2>4 DEF Reported
<1>6. ASSUME UNCHANGED <<msgCh, notified>>
      PROVE  Reported(r)' = Reported(r)
  BY <1>6 DEF Reported
<1>7. CASE HsTakeSend \/ HsTakeLogic \/ HsFlush \/ HsStop \/ HsStore \/ HsDelete
  BY <1>6, <1>7 DEF HsTakeSend, HsTakeLogic, HsFlush, HsStop, HsStore, HsDelete
<1>8. CASE LogicRecv \/ LogicFree \/ LogicDelete \/ LogicDeliver \/ LogicStore \/ LogicSend
  BY <1>6, <1>8 DEF LogicRecv, LogicFree, LogicDelete, LogicDeliver, LogicStore, LogicSend
<1>9. CASE HandleTopicMsg \/ NetBreak \/ Reconnect \/ ServerAnswer \/ ServerPublish \/ Quietly
  BY <1>6, <1>9 DEF HandleTopicMsg, NetBreak, Reconnect, ServerAnswer, ServerPublish, Quietly, vars
<1>10. ASSUME NEW s \in Reqs, CallNext(s) \/ CallStore(s) \/ CallSend(s)
       PROVE  Reported(r)' = Reported(r)
  BY <1>6, <1>10 DEF CallNext, CallStore, CallSend
<1> QED BY <1>2, <1>3, <1>4, <1>5, <1>7, <1>8, <1>9, <1>10, Steps

\* The steps that leave what logic() has to do alone
LEMMA TodoFrame ==
    ASSUME [Next]_vars
    PROVE  \/ LogicRecv
           \/ /\ LogicNotify \/ LogicFree \/ LogicDelete \/ LogicDeliver \/ LogicStore \/ LogicSend
              /\ logicOn' = logicOn /\ todo # <<>> /\ todo' = Tail(todo)
           \/ Reconnect /\ todo' = <<>> /\ ~logicOn
           \/ todo' = todo /\ logicOn' = logicOn
           \/ LogicExit /\ todo = <<>> /\ todo' = <<>>
<1> USE DEF logicVars
<1>1. CASE LogicNotify \/ LogicFree \/ LogicDelete \/ LogicDeliver \/ LogicStore \/ LogicSend
  BY <1>1 DEF LogicNotify, LogicFree, LogicDelete, LogicDeliver, LogicStore, LogicSend, LogicDo
<1>2. CASE Reconnect
  BY <1>2 DEF Reconnect
<1>3. CASE LogicExit \/ HsTakeSend \/ HsTakeLogic \/ HsFlush \/ HsStop \/ HsNotify \/ HsStore \/ HsDelete
  BY <1>3 DEF LogicExit, HsTakeSend, HsTakeLogic, HsFlush, HsStop, HsNotify, HsStore, HsDelete
<1>4. CASE HandleMsg \/ HandleTopicMsg \/ NetBreak \/ NetRecvExit \/ ServerAnswer \/ ServerPublish \/ Quietly
  BY <1>4 DEF HandleMsg, HandleTopicMsg, NetBreak, NetRecvExit, ServerAnswer, ServerPublish, Quietly, vars
<1>5. ASSUME NEW r \in Reqs, CallNext(r) \/ CallStore(r) \/ CallSend(r)
      PROVE  todo' = todo /\ logicOn' = logicOn
  BY <1>5 DEF CallNext, CallStore, CallSend
<1> QED BY <1>1, <1>2, <1>3, <1>4, <1>5, Steps

\* Only free() takes an identifier from a request.
LEMMA OwnerStays ==
    ASSUME Typed, IdsOK, [Next]_vars, NEW r \in Reqs, reqID[r] # 0
    PROVE  /\ reqID'[r] = reqID[r] /\ reqID[r] \in IDs
           /\ \/ usedIDs'[reqID[r]] = usedIDs[reqID[r]]
              \/ LogicFree /\ usedIDs' = [usedIDs EXCEPT ![Head(todo).id] = None]
<1>0. /\ reqID \in [Reqs -> IDs \cup {0}] /\ usedIDs \in [IDs -> Reqs \cup {None}] /\ nextID \in Nat
      /\ reqID[r] <= nextID /\ IDs \subseteq Nat
  BY SMTT(30) DEF Typed, TypeOK, IdsOK, IDs
<1>1. ASSUME NEW s \in Reqs, CallNext(s)
      PROVE  reqID'[r] = reqID[r] /\ usedIDs'[reqID[r]] = usedIDs[reqID[r]]
  <2>1. CASE s \in Pub0
    BY <1>1, <2>1 DEF CallNext
  <2>2. CASE s \notin Pub0
    <3>1. s # r
      BY <1>1 DEF CallNext, IdsOK
    <3>2. reqID' = [reqID EXCEPT ![s] = nextID + 1] /\ usedIDs' = [usedIDs EXCEPT ![nextID + 1] = s]
      BY <1>1, <2>2 DEF CallNext
    <3>3. reqID[r] # nextID + 1
      BY <1>0
    <3> QED BY <1>0, <3>1, <3>2, <3>3
  <2> QED BY <2>1, <2>2
<1>2. ASSUME NEW s \in Reqs, CallStore(s) \/ CallSend(s)
      PROVE  reqID'[r] = reqID[r] /\ usedIDs'[reqID[r]] = usedIDs[reqID[r]]
  BY <1>2 DEF CallStore, CallSend
<1>3. CASE LogicFree
  BY <1>0, <1>3, IdsFrame DEF LogicFree, callVars
<1> QED BY <1>0, <1>1, <1>2, <1>3, IdsFrame

\* What comes next
LEMMA TodoHeads ==
    ASSUME NEW r
    PROVE  /\ Sending(r) => /\ todo # <<>> /\ Head(todo).op = "send"
                            /\ Tail(todo) = <<Notify(r), FreeID(reqID[r]), DeleteSent(reqID[r])>>
           /\ Notifying(r) => /\ todo # <<>> /\ Head(todo).op = "notify" /\ Head(todo).obj = r
                              /\ Tail(todo) = <<FreeID(reqID[r]), DeleteSent(reqID[r])>>
           /\ Freeing(r) => /\ todo # <<>> /\ Head(todo).op = "free" /\ Head(todo).id = reqID[r]
                            /\ Tail(todo) = <<DeleteSent(reqID[r])>>
           /\ Deleting(r) => /\ todo # <<>> /\ Head(todo).op = "delete" /\ Head(todo).id = reqID[r]
                             /\ Tail(todo) = <<>>
<1>1. CASE Sending(r)
  BY <1>1, Elems3, OpFields DEF Sending, Notifying, Freeing, Deleting
<1>2. CASE Notifying(r)
  BY <1>2, Elems3, OpFields DEF Sending, Notifying, Freeing, Deleting
<1>3. CASE Freeing(r)
  BY <1>3, Elems3, OpFields DEF Sending, Notifying, Freeing, Deleting
<1>4. CASE Deleting(r)
  BY <1>4, Elems3, OpFields DEF Sending, Notifying, Freeing, Deleting
<1> QED BY <1>1, <1>2, <1>3, <1>4

LEMMA HsHeads ==
    ASSUME HsShape, hsTodo # <<>>
    PROVE  /\ Tail(hsTodo) = <<>>
           /\ Head(hsTodo).op = "notify" => Head(hsTodo).obj \in Pub0 /\ hsTodo = <<Notify(Head(hsTodo).obj)>>
           /\ Head(hsTodo).op = "notifyNet" => Head(hsTodo).obj = None
<1>1. CASE hsTodo = <<NotifyNet>>
  BY <1>1, Elems3, OpFields
<1>2. ASSUME NEW r \in Pub0, hsTodo = <<Notify(r)>>
      PROVE  Tail(hsTodo) = <<>> /\ Head(hsTodo).op = "notify" /\ Head(hsTodo).obj = r
  BY <1>2, Elems3, OpFields
<1>3. ASSUME NEW o \in SendOps, hsTodo = <<o>>, o.op \in {"storeSent", "delete"}
      PROVE  Tail(hsTodo) = <<>> /\ Head(hsTodo).op \notin {"notify", "notifyNet"}
  BY <1>3, Elems3
<1> QED BY <1>1, <1>2, <1>3 DEF HsShape

LEMMA NextHsShape ==
    ASSUME Typed, HsShape, [Next]_vars
    PROVE  HsShape'
<1>1. ASSUME NEW p \in Packets, hsTodo' = AfterWrite(p)
      PROVE  HsShape'
  <2>1. p.id \in IDs \cup {0}
    BY DEF Packets
  <2>2. CASE p.type = "PUBLISH" /\ p.obj \in Pub0
    BY <1>1, <2>2 DEF HsShape, AfterWrite
  <2>3. CASE p.type = "PUBREL"
    <3>1. hsTodo' = <<StoreSent(p.id, "PUBREL")>>
      BY <1>1, <2>3 DEF AfterWrite
    <3>2. StoreSent(p.id, "PUBREL") \in SendOps /\ StoreSent(p.id, "PUBREL").op = "storeSent"
      BY <2>1, OpsTyped, OpFields
    <3> QED BY <3>1, <3>2 DEF HsShape
  <2>4. CASE p.type \in {"PUBACK", "PUBCOMP"}
    <3>1. hsTodo' = <<DeleteSent(p.id)>>
      BY <1>1, <2>4 DEF AfterWrite
    <3>2. DeleteSent(p.id) \in SendOps /\ DeleteSent(p.id).op = "delete"
      BY <2>1, OpsTyped, OpFields
    <3> QED BY <3>1, <3>2 DEF HsShape
  <2>5. CASE ~(p.type = "PUBLISH" /\ p.obj \in Pub0) /\ p.type \notin {"PUBREL", "PUBACK", "PUBCOMP"}
    BY <1>1, <2>5 DEF HsShape, AfterWrite
  <2> QED BY <2>2, <2>3, <2>4, <2>5
<1>2. CASE HsTakeSend /\ hsTodo' = AfterWrite(Head(sendCh))
  <2>1. Head(sendCh) \in Packets
    BY <1>2, ElemsTail DEF HsTakeSend, Typed, TypeOK
  <2> QED BY <1>1, <1>2, <2>1
<1>3. CASE HsTakeLogic /\ hsTodo' = AfterWrite(Head(logicSendC))
  <2>1. Head(logicSendC) \in Packets
    BY <1>3, ElemsTail DEF HsTakeLogic, Typed, TypeOK
  <2> QED BY <1>1, <1>3, <2>1
<1>4. CASE hsTodo # <<>> /\ hsTodo' = Tail(hsTodo)
  BY <1>4, HsHeads DEF HsShape
<1>5. CASE hsTodo' \in {<<>>, <<NotifyNet>>, hsTodo}
  <2>1. NotifyNet' = NotifyNet /\ \A r : Notify(r)' = Notify(r)
    BY OpFields
  <2> QED BY <1>5, <2>1 DEF HsShape
<1> QED BY <1>2, <1>3, <1>4, <1>5, HsTodoFrom

\* Reports of the requests with an identifier come from logic().
LEMMA RequestReported ==
    ASSUME Typed, HsShape, [Next]_vars, NEW r \in Reqs \ Pub0
    PROVE  \/ Reported(r)' = Reported(r)
           \/ LogicNotify /\ Head(todo).obj = r /\ Reported(r)' = Reported(r) + 1
<1>1. ASSUME HsNotify
      PROVE  Head(hsTodo).obj \in Pub0 \cup {None}
  BY <1>1, HsHeads DEF HsNotify
<1>2. None # r
  BY ReqTypes
<1> QED BY <1>1, <1>2, ReportedStep

\* Those of QoS 0 from handleSend().
LEMMA Pub0Reported ==
    ASSUME Typed, HsShape, TodoOK, [Next]_vars, NEW r \in Pub0
    PROVE  \/ Reported(r)' = Reported(r)
           \/ HsNotify /\ hsTodo = <<Notify(r)>> /\ Tail(hsTodo) = <<>> /\ Reported(r)' = Reported(r) + 1
<1>1. ASSUME LogicNotify
      PROVE  Head(todo).obj # r
  <2>1. todo # <<>> /\ Head(todo).op = "notify" /\ Head(todo) \in Elems(todo)
    BY <1>1, ElemsTail DEF LogicNotify, LogicDo, Typed
  <2>2. PICK s \in Reqs \ Pub0 : Sending(s) \/ Notifying(s) \/ Freeing(s) \/ Deleting(s)
    BY <2>1 DEF TodoOK
  <2> QED BY <2>1, <2>2, TodoHeads
<1>2. ASSUME HsNotify, Head(hsTodo).obj = r
      PROVE  hsTodo = <<Notify(r)>> /\ Tail(hsTodo) = <<>>
  BY <1>2, HsHeads, ReqTypes DEF HsNotify
<1>3. r \in Reqs
  BY ReqTypes
<1> QED BY <1>1, <1>2, <1>3, ReportedStep

LEMMA NextPub0 ==
    ASSUME Typed, Typed', HsShape, TodoOK, PipeOK, Pub0OK, [Next]_vars
    PROVE  Pub0OK'
<1>0. sendCh \in Seq(Packets) /\ logicSendC \in Seq(Packets) /\ pc \in [Reqs -> {"unused", "new", "store", "send", "sent"}]
  BY DEF Typed, TypeOK
<1> SUFFICES ASSUME NEW r \in Pub0
             PROVE  /\ Waiting(r)' => Reported(r)' = 0 /\ hsTodo' # <<Notify(r)>>
                    /\ hsTodo' = <<Notify(r)>> => Reported(r)' = 0
                    /\ Reported(r)' <= 1
  <2>1. \A r \in Pub0 : Notify(r)' = Notify(r)
    BY OpFields
  <2> QED BY <2>1 DEF Pub0OK
<1>1. r \in Reqs /\ Reported(r) \in Nat
  BY ReqTypes, ReportedType
<1>2. Waiting(r)' => Waiting(r)
  <2>1. pc[r] = "sent" => pc'[r] = "sent"
    BY <1>1, SentStays
  <2>2. ASSUME NEW s \in Reqs, CallSend(s)
        PROVE  \A p \in Elems(sendCh') : p \in Elems(sendCh) \/ (p.obj = s /\ pc[s] # "sent")
    <3>1. RequestPkt(s) \in Packets /\ RequestPkt(s).obj = s
      BY DEF RequestPkt, Pkt, Packets, Types, Typed, TypeOK
    <3>2. sendCh' = Append(sendCh, RequestPkt(s)) /\ pc[s] = "send"
      BY <2>2 DEF CallSend
    <3> QED BY <1>0, <3>1, <3>2, ElemsAppend
  <2>3. CASE HsTakeSend
    <3>1. Elems(sendCh') \subseteq Elems(sendCh)
      BY <1>0, <2>3, ElemsTail DEF HsTakeSend
    <3> QED BY <2>1, <3>1 DEF Waiting
  <2>4. CASE HsTakeLogic \/ HsFlush \/ LogicSend \/ NetBreak \/ Reconnect \/ ServerAnswer
    <3>1. sendCh' = sendCh
      BY <2>4 DEF HsTakeLogic, HsFlush, LogicSend, NetBreak, Reconnect, ServerAnswer
    <3> QED BY <2>1, <3>1 DEF Waiting
  <2>5. CASE sendCh' = sendCh
    BY <2>1, <2>5 DEF Waiting
  <2>6. CASE \E s \in Reqs : CallSend(s)
    BY <2>1, <2>2, <2>6 DEF Waiting
  <2> QED BY <2>3, <2>4, <2>5, <2>6, PipeFrame
<1>3. CASE HsNotify
  <2>1. hsTodo # <<>> /\ hsTodo' = <<>>
    BY <1>3, HsHeads DEF HsNotify
  <2>2. hsTodo' # <<Notify(r)>>
    BY <2>1, Elems3
  <2>3. CASE Reported(r)' = Reported(r)
    BY <1>2, <2>2, <2>3 DEF Pub0OK
  <2>4. CASE hsTodo = <<Notify(r)>> /\ Reported(r)' = Reported(r) + 1
    BY <1>1, <1>2, <2>2, <2>4 DEF Pub0OK
  <2> QED BY <2>3, <2>4, Pub0Reported
<1>4. CASE HsTakeSend /\ hsTodo' = AfterWrite(Head(sendCh))
  <2>0. PICK p : p = Head(sendCh)
    OBVIOUS
  <2>1. sendCh # <<>> /\ p \in Packets /\ p \in Elems(sendCh) /\ sendCh' = Tail(sendCh) /\ hsTodo' = AfterWrite(p)
    BY <1>0, <1>4, <2>0, ElemsTail DEF HsTakeSend
  <2>2. ~HsNotify
    BY <1>4 DEF HsTakeSend, HsNotify
  <2>3. Reported(r)' = Reported(r)
    BY <2>2, Pub0Reported
  <2>4. CASE hsTodo' = <<Notify(r)>>
    <3>1. p.obj = r
      <4>1. CASE p.type = "PUBLISH" /\ p.obj \in Pub0
        <5>1. hsTodo' = <<Notify(p.obj)>>
          BY <2>1, <4>1 DEF AfterWrite
        <5>2. Head(hsTodo').obj = p.obj /\ Head(hsTodo').obj = r
          BY <2>4, <5>1, Elems3, OpFields
        <5> QED BY <5>2
      <4>2. CASE ~(p.type = "PUBLISH" /\ p.obj \in Pub0)
        <5>1. hsTodo' = <<>> \/ hsTodo' = <<StoreSent(p.id, "PUBREL")>> \/ hsTodo' = <<DeleteSent(p.id)>>
          BY <2>1, <4>2 DEF AfterWrite
        <5>2. hsTodo' # <<>> /\ Head(hsTodo').op = "notify"
          BY <2>4, Elems3, OpFields
        <5>3. \A x : Head(<<x>>) = x
          BY Elems3
        <5>4. StoreSent(p.id, "PUBREL").op = "storeSent" /\ DeleteSent(p.id).op = "delete"
          BY OpFields
        <5> QED BY <5>1, <5>2, <5>3, <5>4
      <4> QED BY <4>1, <4>2
    <3>2. Waiting(r) /\ pc[r] = "sent"
      BY <2>1, <3>1 DEF Waiting, PipeOK, IsRequest
    <3>3. Elems(sendCh') = {}
      <4>1. Len(sendCh) <= 1 /\ Len(Tail(sendCh)) = Len(sendCh) - 1 /\ Len(sendCh) \in Nat \ {0}
        BY <1>0, <2>1, ElemsTail DEF Typed, TypeOK, SendCap
      <4>2. Len(sendCh') = 0 /\ sendCh' \in Seq(Packets)
        <5>1. Len(sendCh) = 1
          BY <4>1
        <5> QED BY <2>1, <4>1, <5>1 DEF Typed, TypeOK
      <4>3. sendCh' = <<>>
        BY <4>2
      <4> QED BY <4>3, ElemsEmpty
    <3>4. pc'[r] = "sent"
      BY <1>1, <3>2, SentStays
    <3>5. ~Waiting(r)'
      BY <3>3, <3>4 DEF Waiting
    <3> QED BY <2>3, <3>2, <3>5 DEF Pub0OK
  <2>5. CASE hsTodo' # <<Notify(r)>>
    BY <1>2, <2>3, <2>5 DEF Pub0OK
  <2> QED BY <2>4, <2>5
<1>5. ASSUME ~HsNotify, hsTodo' = <<Notify(r)>> => hsTodo = <<Notify(r)>>
      PROVE  /\ Waiting(r)' => Reported(r)' = 0 /\ hsTodo' # <<Notify(r)>>
             /\ hsTodo' = <<Notify(r)>> => Reported(r)' = 0
             /\ Reported(r)' <= 1
  <2>1. Reported(r)' = Reported(r)
    BY <1>5, Pub0Reported
  <2> QED BY <1>2, <1>5, <2>1 DEF Pub0OK
<1>6. CASE HsTakeLogic /\ hsTodo' = AfterWrite(Head(logicSendC))
  <2>0. PICK p : p = Head(logicSendC)
    OBVIOUS
  <2>1. p \in Elems(logicSendC) /\ hsTodo' = AfterWrite(p)
    BY <1>0, <1>6, <2>0, ElemsTail DEF HsTakeLogic
  <2>2. p.obj = None /\ None \notin Pub0
    BY <2>1, ReqTypes DEF PipeOK, IsAck
  <2>3. hsTodo' = <<>> \/ hsTodo' = <<StoreSent(p.id, "PUBREL")>> \/ hsTodo' = <<DeleteSent(p.id)>>
    BY <2>1, <2>2 DEF AfterWrite
  <2>4. \A x : Head(<<x>>) = x /\ <<x>> # <<>>
    BY Elems3
  <2>5. StoreSent(p.id, "PUBREL").op = "storeSent" /\ DeleteSent(p.id).op = "delete" /\ Notify(r).op = "notify"
    BY OpFields
  <2>6. ASSUME hsTodo' = <<Notify(r)>>
        PROVE  FALSE
    <3>1. hsTodo' # <<>> /\ Head(hsTodo').op = "notify"
      BY <2>4, <2>5, <2>6
    <3> QED BY <2>3, <2>4, <2>5, <3>1
  <2>7. ~HsNotify
    BY <1>6 DEF HsTakeLogic, HsNotify
  <2> QED BY <1>5, <2>6, <2>7
<1>7. CASE hsTodo' = <<>> \/ hsTodo' = <<NotifyNet>>
  <2>1. hsTodo' # <<Notify(r)>>
    <3>1. <<Notify(r)>> # <<>> /\ Head(<<Notify(r)>>).op = "notify" /\ Head(<<NotifyNet>>).op = "notifyNet"
      BY Elems3, OpFields
    <3> QED BY <1>7, <3>1
  <2> QED BY <1>3, <1>5, <2>1
<1>8. CASE hsTodo # <<>> /\ hsTodo' = Tail(hsTodo)
  BY <1>7, <1>8, HsHeads
<1>9. CASE hsTodo' = hsTodo
  BY <1>3, <1>5, <1>9
<1> QED BY <1>4, <1>6, <1>7, <1>8, <1>9, HsTodoFrom

LEMMA InitPub0 ==
    ASSUME Init
    PROVE  HsShape /\ Pub0OK
<1>1. msgCh = <<>> /\ notified = [r \in Reqs |-> 0] /\ hsTodo = <<>>
  BY DEF Init
<1>2. \A r \in Reqs : Reported(r) = 0
  BY <1>1, TimesEmpty DEF Reported
<1>3. \A r : hsTodo # <<Notify(r)>>
  BY <1>1, Elems3
<1> QED BY <1>1, <1>2, <1>3, ReqTypes DEF HsShape, Pub0OK

\* The acknowledgement of a request that has not been reported: the request
\* is in the table, and the server has released it.
LEMMA AckedRequest ==
    ASSUME Typed, IdsOK, PipeOK, AnswersOK, NEW p \in Elems(toClient), p.id \in IDs,
           \/ p.type = "SUBACK"   /\ usedIDs[p.id] \in Subs
           \/ p.type = "UNSUBACK" /\ usedIDs[p.id] \in Unsubs
           \/ p.type = "PUBACK"   /\ usedIDs[p.id] \in Pub1
           \/ p.type = "PUBCOMP"  /\ usedIDs[p.id] \in Pub2
    PROVE  usedIDs[p.id] \in Reqs \ Pub0 /\ reqID[usedIDs[p.id]] = p.id /\ Released(usedIDs[p.id])
<1>1. PICK r : r = usedIDs[p.id]
  OBVIOUS
<1>2. r \in Reqs \ Pub0 /\ r # None
  BY <1>1, ReqTypes, PacketsAssumption
<1>3. reqID[r] = p.id /\ p.id # 0
  BY <1>1, <1>2 DEF IdsOK, IDs
<1>4. \A s \in Reqs : reqID[s] = p.id => s = r
  BY <1>2, <1>3 DEF IdsOK
<1>5. \A S \in SUBSET Reqs : Taken(S, p.id) => got[r] > 0 /\ r \in S
  BY <1>4 DEF Taken
<1>6. got[r] > 0
  BY <1>5, ReqTypes DEF AnswersOK
<1>7. p.id \notin bRecv
  <2>1. CASE p.type = "PUBCOMP"
    BY <2>1 DEF AnswersOK
  <2>2. CASE p.type # "PUBCOMP"
    <3>1. r \notin Pub2
      BY <1>1, <2>2, PacketsAssumption
    <3> QED BY <1>5, <3>1, ReqTypes DEF AnswersOK
  <2> QED BY <2>1, <2>2
<1> QED BY <1>1, <1>2, <1>3, <1>6, <1>7 DEF Released

LEMMA NextTodo ==
    ASSUME Typed, Typed', IdsOK, PipeOK, AnswersOK, HsShape, TodoOK, ReportsOK, [Next]_vars
    PROVE  TodoOK'
<1>0. todo \in Seq(LogicOps) /\ toClient \in Seq(InPkts)
  BY DEF Typed
<1>a. ASSUME NEW r \in Reqs \ Pub0, Released(r)
      PROVE  /\ Released(r)' /\ reqID'[r] = reqID[r] /\ reqID[r] # 0 /\ reqID[r] \in IDs
             /\ \/ usedIDs'[reqID[r]] = usedIDs[reqID[r]]
                \/ LogicFree /\ usedIDs' = [usedIDs EXCEPT ![Head(todo).id] = None]
             /\ Reported(r)' = Reported(r) \/ LogicNotify
  <2>1. Released(r)'
    BY <1>a, ReleasedStays
  <2>2. reqID[r] # 0
    BY <1>a DEF Released, PipeOK, IdsOK
  <2> QED BY <2>1, <2>2, OwnerStays, RequestReported
<1>b. \A i, x, t : /\ Notify(x)' = Notify(x) /\ FreeID(i)' = FreeID(i) /\ DeleteSent(i)' = DeleteSent(i)
                   /\ SendPkt(t, i)' = SendPkt(t, i)
  BY OpFields
<1>c. ASSUME todo' = <<>>
      PROVE  TodoOK'
  BY <1>c, ElemsEmpty DEF TodoOK
<1>1. CASE LogicRecv
  <2>0. PICK p : p = Head(toClient)
    OBVIOUS
  <2>1. /\ p \in InPkts /\ p \in Elems(toClient) /\ todo' = Handler(p) /\ logicOn' /\ todo = <<>>
        /\ UNCHANGED <<usedIDs, reqID, msgCh, notified, got, bRecv>>
    BY <1>0, <1>1, <2>0, ElemsTail DEF LogicRecv, callVars, appVars, brokerVars
  <2>2. ASSUME p.id \in IDs,
               \/ p.type = "SUBACK"   /\ usedIDs[p.id] \in Subs
               \/ p.type = "UNSUBACK" /\ usedIDs[p.id] \in Unsubs
               \/ p.type = "PUBACK"   /\ usedIDs[p.id] \in Pub1
               \/ p.type = "PUBCOMP"  /\ usedIDs[p.id] \in Pub2,
               \/ todo' = <<Notify(usedIDs[p.id]), FreeID(p.id), DeleteSent(p.id)>>
               \/ todo' = <<SendPkt("PUBREL", p.id), Notify(usedIDs[p.id]), FreeID(p.id), DeleteSent(p.id)>>
        PROVE  TodoOK'
    <3>0. PICK r : r = usedIDs[p.id]
      OBVIOUS
    <3>1. r \in Reqs \ Pub0 /\ reqID[r] = p.id /\ Released(r)
      BY <2>1, <2>2, <3>0, AckedRequest
    <3>2. ~Freeing(r)
      BY <2>1, TodoHeads
    <3>3. Reported(r) = 0
      BY <3>0, <3>1, <3>2, ReportedType DEF ReportsOK
    <3>4. Reported(r)' = 0 /\ Released(r)' /\ reqID'[r] = reqID[r] /\ usedIDs'[reqID'[r]] = r
      BY <2>1, <3>0, <3>1, <3>3 DEF Reported, Released
    <3>5. Sending(r)' \/ Notifying(r)'
      BY <1>b, <2>2, <3>0, <3>1, <3>4 DEF Sending, Notifying
    <3> QED BY <2>1, <3>1, <3>4, <3>5 DEF TodoOK
  <2>3. ASSUME \A o \in Elems(todo') : o.op \in {"send", "deliver", "storeRecv"}
        PROVE  TodoOK'
    BY <2>1, <2>3 DEF TodoOK
  <2>4. \A i, x, t : /\ SendPkt(t, i).op = "send" /\ Deliver(x).op = "deliver" /\ StoreRecv(i, t).op = "storeRecv"
    BY OpFields
  <2>5. CASE p.type \in {"SUBACK", "UNSUBACK", "PUBACK", "PUBCOMP"} /\ todo' # <<>>
    BY <2>1, <2>2, <2>5, HandlerShape
  <2>6. CASE p.type = "PUBREC" /\ todo' = <<SendPkt("PUBREL", p.id)>>
    BY <2>3, <2>4, <2>6, Elems3
  <2>7. CASE p.type = "PUBREL" /\ todo' = <<SendPkt("PUBCOMP", p.id), StoreRecv(p.id, "PUBREL")>>
    BY <2>3, <2>4, <2>7, Elems3
  <2>8. CASE todo' = <<Deliver(p.obj)>>
    BY <2>3, <2>4, <2>8, Elems3
  <2>9. CASE todo' = <<Deliver(p.obj), SendPkt("PUBACK", p.id), StoreRecv(p.id, "PUBLISH")>>
    BY <2>3, <2>4, <2>9, Elems3
  <2>10. CASE todo' = <<Deliver(p.obj), SendPkt("PUBREC", p.id), StoreRecv(p.id, "PUBLISH")>>
    BY <2>3, <2>4, <2>10, Elems3
  <2> QED BY <1>c, <2>1, <2>5, <2>6, <2>7, <2>8, <2>9, <2>10, HandlerShape
<1>2. CASE /\ LogicNotify \/ LogicFree \/ LogicDelete \/ LogicDeliver \/ LogicStore \/ LogicSend
           /\ logicOn' = logicOn /\ todo # <<>> /\ todo' = Tail(todo)
  <2>1. /\ logicOn' /\ Head(todo) \in Elems(todo) /\ Elems(todo') \subseteq Elems(todo)
        /\ LogicNotify => Head(todo).op = "notify"
        /\ LogicFree => Head(todo).op = "free"
        /\ Head(todo).op = "notify" => LogicNotify
        /\ Head(todo).op = "free" => LogicFree
    BY <1>0, <1>2, ElemsTail DEF TodoOK, LogicNotify, LogicFree, LogicDelete, LogicDeliver, LogicStore, LogicSend, LogicDo
  <2>2. CASE \A o \in Elems(todo) : o.op \in {"send", "deliver", "storeRecv"}
    BY <2>1, <2>2 DEF TodoOK
  <2>3. ASSUME NEW r \in Reqs \ Pub0, Released(r), Sending(r) \/ Notifying(r), usedIDs[reqID[r]] = r, Reported(r) = 0
        PROVE  TodoOK'
    <3>1. CASE Sending(r)
      <4>1. ~LogicNotify /\ ~LogicFree
        BY <2>1, <3>1, TodoHeads
      <4>2. Reported(r)' = 0 /\ Released(r)' /\ usedIDs'[reqID'[r]] = r /\ reqID'[r] = reqID[r]
        BY <1>a, <2>3, <4>1
      <4>3. Notifying(r)'
        BY <1>2, <1>b, <3>1, <4>2, TodoHeads DEF Notifying
      <4> QED BY <2>1, <4>2, <4>3 DEF TodoOK
    <3>2. CASE Notifying(r)
      <4>1. LogicNotify /\ ~LogicFree /\ Head(todo).obj = r
        BY <2>1, <3>2, TodoHeads
      <4>2. msgCh' = Append(msgCh, r) /\ notified' = notified
        BY <4>1 DEF LogicNotify, appVars
      <4>3. Times(r, msgCh') = Times(r, msgCh) + 1 /\ Times(r, msgCh) \in Nat /\ notified[r] \in Nat
        <5>1. msgCh \in Seq(Reqs \cup {None}) /\ notified[r] \in Nat
          BY DEF Typed, TypeOK
        <5>2. Times(r, Append(msgCh, r)) = Times(r, msgCh) + (IF r = r THEN 1 ELSE 0)
          BY <5>1, TimesAppend
        <5> QED BY <4>2, <5>1, <5>2, TimesType
      <4>4. Reported(r)' = 1
        BY <2>3, <4>2, <4>3 DEF Reported
      <4>5. Released(r)' /\ usedIDs'[reqID'[r]] = r /\ reqID'[r] = reqID[r]
        BY <1>a, <2>3, <4>1
      <4>6. Freeing(r)'
        BY <1>2, <1>b, <3>2, <4>5, TodoHeads DEF Freeing
      <4> QED BY <2>1, <4>4, <4>5, <4>6 DEF TodoOK
    <3> QED BY <2>3, <3>1, <3>2
  <2>4. ASSUME NEW r \in Reqs \ Pub0, Released(r), Freeing(r), usedIDs[reqID[r]] = r, Reported(r) = 1
        PROVE  TodoOK'
    <3>1. LogicFree /\ ~LogicNotify /\ Head(todo).id = reqID[r]
      BY <2>1, <2>4, TodoHeads
    <3>2. Released(r)' /\ reqID'[r] = reqID[r] /\ reqID[r] \in IDs /\ Reported(r)' = 1
      BY <1>a, <2>4, <3>1
    <3>3. usedIDs'[reqID[r]] = None /\ None # r
      <4>1. usedIDs \in [IDs -> Reqs \cup {None}] /\ usedIDs' = [usedIDs EXCEPT ![reqID[r]] = None]
        BY <3>1 DEF LogicFree, Typed, TypeOK
      <4> QED BY <4>1, <3>2, ReqTypes
    <3>4. Deleting(r)'
      BY <1>2, <1>b, <2>4, <3>2, TodoHeads DEF Deleting
    <3> QED BY <2>1, <3>2, <3>3, <3>4 DEF TodoOK
  <2>5. ASSUME NEW r \in Reqs \ Pub0, Deleting(r)
        PROVE  TodoOK'
    BY <1>2, <1>c, <2>5, TodoHeads
  <2> QED BY <2>2, <2>3, <2>4, <2>5 DEF TodoOK
<1>3. CASE todo' = todo /\ logicOn' = logicOn
  <2>1. ~LogicNotify /\ ~LogicFree
    <3>1. todo # <<>> => Len(Tail(todo)) # Len(todo)
      BY <1>0, ElemsTail
    <3> QED BY <1>3, <3>1 DEF LogicNotify, LogicFree, LogicDo
  <2>2. CASE \A o \in Elems(todo) : o.op \in {"send", "deliver", "storeRecv"}
    BY <1>3, <2>2 DEF TodoOK
  <2>3. ASSUME NEW r \in Reqs \ Pub0, Released(r)
        PROVE  /\ Released(r)' /\ reqID'[r] = reqID[r] /\ usedIDs'[reqID'[r]] = usedIDs[reqID[r]] /\ Reported(r)' = Reported(r)
               /\ Sending(r) => Sending(r)'
               /\ Notifying(r) => Notifying(r)'
               /\ Freeing(r) => Freeing(r)'
               /\ Deleting(r) => Deleting(r)'
    BY <1>3, <1>a, <1>b, <2>1, <2>3 DEF Sending, Notifying, Freeing, Deleting
  <2> QED BY <1>3, <2>2, <2>3 DEF TodoOK
<1> QED BY <1>1, <1>2, <1>3, <1>c, TodoFrame

LEMMA NextReports ==
    ASSUME Typed, Typed', IdsOK, PipeOK, AnswersOK, HsShape, TodoOK, ReportsOK, [Next]_vars
    PROVE  ReportsOK'
<1>0. todo \in Seq(LogicOps) /\ reqID \in [Reqs -> IDs \cup {0}] /\ usedIDs \in [IDs -> Reqs \cup {None}]
  BY DEF Typed, TypeOK
<1>b. \A i : FreeID(i)' = FreeID(i) /\ DeleteSent(i)' = DeleteSent(i)
  BY OpFields
<1> SUFFICES ASSUME NEW r \in Reqs \ Pub0
             PROVE  /\ Reported(r)' <= 1
                    /\ Reported(r)' > 0 => Released(r)'
                    /\ reqID'[r] # 0 /\ usedIDs'[reqID'[r]] # r => Reported(r)' = 1
                    /\ Reported(r)' > 0 /\ usedIDs'[reqID'[r]] = r => Freeing(r)'
  BY DEF ReportsOK
<1>1. Reported(r) \in Nat
  BY ReportedType
<1>2. Released(r) => Released(r)' /\ reqID[r] # 0
  BY ReleasedStays DEF Released, PipeOK, IdsOK
<1>3. CASE reqID[r] = 0
  <2>1. Reported(r) = 0
    BY <1>1, <1>2, <1>3 DEF ReportsOK
  <2>2. Reported(r)' = 0
    <3>1. ASSUME LogicNotify
          PROVE  Head(todo).obj # r
      <4>1. todo # <<>> /\ Head(todo).op = "notify" /\ Head(todo) \in Elems(todo)
        BY <1>0, <3>1, ElemsTail DEF LogicNotify, LogicDo
      <4>2. PICK s \in Reqs \ Pub0 : Released(s) /\ (Sending(s) \/ Notifying(s) \/ Freeing(s) \/ Deleting(s))
        BY <4>1 DEF TodoOK
      <4>3. Head(todo).obj = s
        BY <4>1, <4>2, TodoHeads
      <4>4. s # r
        BY <1>2, <1>3, <4>2
      <4> QED BY <4>3, <4>4
    <3> QED BY <2>1, <3>1, RequestReported
  <2>3. ASSUME reqID'[r] # 0
        PROVE  usedIDs'[reqID'[r]] = r
    <3>1. PICK s \in Reqs : CallNext(s)
      BY <1>3, <2>3, IdsFrame DEF CallStore, CallSend
    <3>2. s \notin Pub0 /\ s = r
      BY <1>0, <1>3, <2>3, <3>1 DEF CallNext
    <3>3. usedIDs' = [usedIDs EXCEPT ![nextID + 1] = r] /\ reqID' = [reqID EXCEPT ![r] = nextID + 1] /\ nextID < NumIDs
      BY <3>1, <3>2 DEF CallNext
    <3>4. nextID + 1 \in IDs
      BY <3>3, ReqTypes DEF IDs, Typed, TypeOK
    <3> QED BY <1>0, <3>3, <3>4
  <2> QED BY <2>2, <2>3
<1>4. CASE reqID[r] # 0
  <2>1. /\ reqID'[r] = reqID[r] /\ reqID[r] \in IDs
        /\ \/ usedIDs'[reqID[r]] = usedIDs[reqID[r]]
           \/ LogicFree /\ usedIDs' = [usedIDs EXCEPT ![Head(todo).id] = None]
    BY <1>4, OwnerStays
  <2>2. CASE LogicNotify
    <3>1. todo # <<>> /\ Head(todo).op = "notify" /\ Head(todo) \in Elems(todo) /\ todo' = Tail(todo)
      BY <1>0, <2>2, ElemsTail DEF LogicNotify, LogicDo
    <3>2. PICK s \in Reqs \ Pub0 : /\ Released(s)
                                   /\ \/ (Sending(s) \/ Notifying(s)) /\ usedIDs[reqID[s]] = s /\ Reported(s) = 0
                                      \/ Freeing(s)
                                      \/ Deleting(s)
      BY <3>1 DEF TodoOK
    <3>3. Notifying(s) /\ usedIDs[reqID[s]] = s /\ Reported(s) = 0 /\ Head(todo).obj = s
      BY <3>1, <3>2, TodoHeads
    <3>4. usedIDs'[reqID[r]] = usedIDs[reqID[r]]
      BY <2>1, <2>2 DEF LogicNotify
    <3>5. ~Freeing(r)
      BY <3>1, TodoHeads
    <3>6. CASE r = s
      <4>1. Reported(r)' \in {0, 1}
        BY <3>3, <3>6, RequestReported
      <4>2. Freeing(r)'
        BY <1>b, <2>1, <3>1, <3>3, <3>6, TodoHeads DEF Freeing
      <4> QED BY <1>2, <2>1, <3>2, <3>3, <3>4, <3>6, <4>1, <4>2
    <3>7. CASE r # s
      <4>1. Reported(r)' = Reported(r)
        BY <3>3, <3>7, RequestReported
      <4> QED BY <1>2, <2>1, <3>4, <3>5, <4>1 DEF ReportsOK
    <3> QED BY <3>6, <3>7
  <2>3. CASE LogicFree
    <3>0. ~LogicNotify
      BY <2>3 DEF LogicNotify, LogicFree, LogicDo
    <3>1. Reported(r)' = Reported(r)
      BY <3>0, RequestReported
    <3>2. todo # <<>> /\ Head(todo).op = "free" /\ Head(todo) \in Elems(todo) /\ usedIDs' = [usedIDs EXCEPT ![Head(todo).id] = None]
      BY <1>0, <2>3, ElemsTail DEF LogicFree, LogicDo
    <3>3. PICK s \in Reqs \ Pub0 : /\ Released(s)
                                   /\ \/ Sending(s) \/ Notifying(s) \/ Deleting(s)
                                      \/ Freeing(s) /\ Reported(s) = 1
      BY <3>2 DEF TodoOK
    <3>4. Freeing(s) /\ Reported(s) = 1 /\ Head(todo).id = reqID[s]
      BY <3>2, <3>3, TodoHeads
    <3>5. CASE r = s
      <4>1. usedIDs'[reqID[r]] = None /\ None # r
        BY <1>0, <2>1, <3>2, <3>4, <3>5, ReqTypes
      <4> QED BY <1>2, <2>1, <3>1, <3>3, <3>4, <3>5, <4>1
    <3>6. CASE r # s
      <4>1. reqID[r] # reqID[s]
        BY <1>4, <3>6 DEF IdsOK
      <4>2. usedIDs'[reqID[r]] = usedIDs[reqID[r]]
        BY <1>0, <2>1, <3>2, <3>4, <4>1
      <4>3. ~Freeing(r)
        BY <3>4, <4>1, TodoHeads
      <4> QED BY <1>2, <2>1, <3>1, <4>2, <4>3 DEF ReportsOK
    <3> QED BY <3>5, <3>6
  <2>4. CASE ~LogicNotify /\ ~LogicFree
    <3>1. Reported(r)' = Reported(r) /\ usedIDs'[reqID[r]] = usedIDs[reqID[r]]
      BY <2>1, <2>4, RequestReported
    <3>2. Freeing(r) => Freeing(r)'
      <4>1. CASE LogicRecv \/ Reconnect \/ LogicExit
        <5>1. todo = <<>>
          BY <4>1 DEF LogicRecv, Reconnect, LogicExit, TodoOK
        <5> QED BY <5>1, TodoHeads
      <4>2. CASE LogicDelete \/ LogicDeliver \/ LogicStore \/ LogicSend
        BY <4>2, TodoHeads DEF LogicDelete, LogicDeliver, LogicStore, LogicSend, LogicDo
      <4>3. CASE todo' = todo
        BY <1>b, <2>1, <4>3 DEF Freeing
      <4> QED BY <2>4, <4>1, <4>2, <4>3, TodoFrame
    <3> QED BY <1>2, <2>1, <3>1, <3>2 DEF ReportsOK
  <2> QED BY <2>2, <2>3, <2>4
<1> QED BY <1>3, <1>4

LEMMA InitReports ==
    ASSUME Init
    PROVE  TodoOK /\ ReportsOK
<1>1. msgCh = <<>> /\ notified = [r \in Reqs |-> 0] /\ todo = <<>> /\ reqID = [r \in Reqs |-> 0]
  BY DEF Init
<1>2. \A r \in Reqs : Reported(r) = 0
  BY <1>1, TimesEmpty DEF Reported
<1> QED BY <1>1, <1>2, ElemsEmpty DEF TodoOK, ReportsOK

-----------------------------------------------------------------------------
(* The theorems about requests *)

ReqInv == Typed /\ IdsOK /\ PipeOK /\ AnswersOK /\ HsShape /\ TodoOK /\ ReportsOK /\ Pub0OK

\* The inductive invariant of the requests: where a packet may be on its way
\* to the server, what the server has taken and answers, and how far logic()
\* and handleSend() are with reporting it.
THEOREM ReqInvariance == Spec => []ReqInv
<1>1. Init => ReqInv
  BY InitTyped, InitIds, InitPipe, InitAnswers, InitPub0, InitReports DEF ReqInv
<1>2. ReqInv /\ [Next]_vars => ReqInv'
  BY NextTyped, NextIds, NextPipe, NextAnswers, NextHsShape, NextTodo, NextReports, NextPub0 DEF ReqInv
<1> QED BY <1>1, <1>2, PTL DEF Spec

\* Each request is reported at most once, however the goroutines, the server
\* and the losses of the connection interleave (client_conn.go:78-191, 280).
THEOREM EachReportedOnce == Spec => []ReportedOnce
<1>1. ReqInv => ReportedOnce
  BY DEF ReqInv, ReportsOK, Pub0OK, ReportedOnce
<1> QED BY <1>1, ReqInvariance, PTL

\* The identifier of a request is freed only after the report of the request
\* is in msgCh (client_conn.go:91-94, 104-107, 185-190).
THEOREM ReportBeforeFree == Spec => []FreedWasReported
<1>1. ReqInv => FreedWasReported
  BY DEF ReqInv, ReportsOK, IdsOK, FreedWasReported
<1> QED BY <1>1, ReqInvariance, PTL

\* A success that is reported for a request with an identifier is one: the
\* server has the packet, and has released it (client_conn.go:78-145, 174-191).
THEOREM ReportIsTrue == Spec => []SuccessMeansReceived
<1>1. ReqInv => SuccessMeansReceived
  BY DEF ReqInv, ReportsOK, Released, SuccessMeansReceived
<1> QED BY <1>1, ReqInvariance, PTL

-----------------------------------------------------------------------------
(* The identifiers of the server *)

\* The steps that leave the deliveries of the server alone
LEMMA BrokerFrame ==
    ASSUME [Next]_vars
    PROVE  \/ ServerAnswer /\ BrokerRecv
           \/ \E d \in Deliveries : BrokerResend(d) /\ ServerAnswer
           \/ \E d \in Deliveries, i \in IDs \cup {0} : BrokerPublish(d, i) /\ ServerPublish
           \/ Reconnect /\ BrokerNewConnection
           \/ UNCHANGED <<bpc, bid, bResend>>
<1> USE DEF brokerVars
<1>1. CASE HsTakeSend \/ HsTakeLogic \/ HsFlush \/ HsStop \/ HsNotify \/ HsStore \/ HsDelete
  BY <1>1 DEF HsTakeSend, HsTakeLogic, HsFlush, HsStop, HsNotify, HsStore, HsDelete
<1>2. CASE LogicRecv \/ LogicNotify \/ LogicFree \/ LogicDelete \/ LogicDeliver \/ LogicStore \/ LogicSend \/ LogicExit
  BY <1>2 DEF LogicRecv, LogicNotify, LogicFree, LogicDelete, LogicDeliver, LogicStore, LogicSend, LogicExit
<1>3. CASE HandleMsg \/ HandleTopicMsg \/ NetBreak \/ NetRecvExit \/ Quietly
  BY <1>3 DEF HandleMsg, HandleTopicMsg, NetBreak, NetRecvExit, Quietly, vars
<1>4. CASE Reconnect
  BY <1>4 DEF Reconnect
<1>5. ASSUME NEW r \in Reqs, CallNext(r) \/ CallStore(r) \/ CallSend(r)
      PROVE  UNCHANGED <<bpc, bid, bResend>>
  BY <1>5 DEF CallNext, CallStore, CallSend
<1> QED BY <1>1, <1>2, <1>3, <1>4, <1>5, Steps

\* A message that was sent keeps its identifier.
LEMMA NumberStays ==
    ASSUME Typed, UsedOK, [Next]_vars, NEW d \in Deliveries
    PROVE  /\ bid[d] # 0 => bid'[d] = bid[d]
           /\ bpc[d] \notin {"unused", "new"} => bpc'[d] \notin {"unused", "new"} /\ bid'[d] = bid[d]
<1>0. bid \in [Deliveries -> IDs \cup {0}] /\ bpc \in [Deliveries -> {"unused", "new", "sent", "rel", "done"}]
  BY DEF Typed, TypeOK
<1>1. CASE BrokerRecv
  <2>1. PICK p : p = Head(toServer)
    OBVIOUS
  <2>2. bid' = bid /\ bpc'[d] \in {bpc[d], "rel", "done"}
    BY <1>1, <2>1 DEF BrokerRecv
  <2> QED BY <2>2
<1>2. ASSUME NEW e \in Deliveries, NEW i \in IDs \cup {0}, BrokerPublish(e, i)
      PROVE  /\ bid[d] # 0 => bid'[d] = bid[d]
             /\ bpc[d] \notin {"unused", "new"} => bpc'[d] \notin {"unused", "new"} /\ bid'[d] = bid[d]
  <2>1. bpc[e] = "new" /\ bid[e] = 0
    BY <1>2 DEF BrokerPublish, UsedOK
  <2> QED BY <1>0, <1>2, <2>1 DEF BrokerPublish
<1>3. CASE BrokerNewConnection \/ \E e \in Deliveries : BrokerResend(e)
  BY <1>3 DEF BrokerNewConnection, BrokerResend
<1> QED BY <1>1, <1>2, <1>3, BrokerFrame

LEMMA UsedStays ==
    ASSUME Typed, UsedOK, [Next]_vars, NEW i \in IDs, Used(i)
    PROVE  Used(i)'
<1>1. PICK d \in In1 \cup In2 : bid[d] = i
  BY DEF Used
<1>2. i # 0 /\ d \in Deliveries
  BY ReqTypes DEF IDs
<1>3. bid'[d] = i
  BY <1>1, <1>2, NumberStays
<1> QED BY <1>3 DEF Used

LEMMA NextUsed ==
    ASSUME Typed, Typed', IdsOK, PipeOK, UsedOK, [Next]_vars
    PROVE  UsedOK'
<1>0. /\ sendCh \in Seq(Packets) /\ wbuf \in Seq(Packets) /\ toServer \in Seq(Packets)
      /\ logicSendC \in Seq(Packets) /\ todo \in Seq(LogicOps) /\ toClient \in Seq(InPkts)
      /\ hsTodo \in Seq(SendOps)
      /\ bid \in [Deliveries -> IDs \cup {0}] /\ bpc \in [Deliveries -> {"unused", "new", "sent", "rel", "done"}]
  BY DEF Typed, TypeOK
<1>a. \A i \in IDs : Used(i) => Used(i)'
  BY UsedStays
<1>b. /\ Deliveries = In0 \cup In1 \cup In2 /\ In0 \cap (In1 \cup In2) = {} /\ In1 \cap In2 = {}
  BY PacketsAssumption DEF Deliveries
<1>c. ASSUME NEW p \in Elems(sendCh) \cup Outgoing, p.type \in {"PUBACK", "PUBREC", "PUBCOMP"}
      PROVE  p.id \in IDs /\ Used(p.id) /\ p \in Outgoing
  <2>1. p \notin Elems(sendCh)
    BY <1>c, RequestFields DEF PipeOK
  <2> QED BY <1>c, <2>1 DEF UsedOK
<1>1. \A p \in Outgoing' : p.type \in {"PUBACK", "PUBREC", "PUBCOMP"} => p.id \in IDs /\ Used(p.id)'
  <2>1. CASE LogicSend
    <3>0. PICK e : e = Pkt(Head(todo).pkt, Head(todo).id, None)
      OBVIOUS
    <3>1. Head(todo) \in LogicOps /\ Head(todo) \in Elems(todo) /\ Head(todo).op = "send"
      BY <1>0, <2>1, ElemsTail DEF LogicSend, LogicDo
    <3>2. Head(todo).pkt \in AckTypes /\ Head(todo).id \in IDs \cup {0}
      BY <3>1 DEF LogicOps, Ops
    <3>3. e \in Packets /\ e.type = Head(todo).pkt /\ e.id = Head(todo).id
      BY <3>0, <3>2, PktTyped DEF Types, AckTypes
    <3>4. e.type # "PUBREL" => e.id \in IDs /\ Used(e.id)
      BY <3>1, <3>3 DEF UsedOK
    <3>5. UNCHANGED <<wbuf, toServer>> /\ (logicSendC' = Append(logicSendC, e) \/ UNCHANGED logicSendC)
      BY <2>1, <3>0 DEF LogicSend, hsVars, netVars
    <3>6. Outgoing' \subseteq Outgoing \cup {e}
      BY <1>0, <3>3, <3>5, ElemsAppend, ZenonT(60) DEF Outgoing
    <3> QED BY <1>a, <3>4, <3>6 DEF UsedOK
  <2>2. CASE Outgoing' \subseteq Outgoing \cup Elems(sendCh)
    BY <1>a, <1>c, <2>2
  <2> QED BY <2>1, <2>2, OutgoingFrom
<1>2. \A o \in Elems(todo') : o.op = "send" /\ o.pkt # "PUBREL" => o.id \in IDs /\ Used(o.id)'
  <2>1. CASE LogicRecv
    <3>0. PICK p : p = Head(toClient)
      OBVIOUS
    <3>1. p \in InPkts /\ p \in Elems(toClient) /\ todo' = Handler(p)
      BY <1>0, <2>1, <3>0, ElemsTail DEF LogicRecv
    <3>2. ASSUME NEW o \in Elems(todo'), o.op = "send", o.pkt # "PUBREL"
          PROVE  o.id \in IDs /\ Used(o.id)
      BY <1>b, <3>1, <3>2, HandlerReleases DEF UsedOK
    <3> QED BY <1>a, <3>2
  <2>2. CASE Elems(todo') \subseteq Elems(todo)
    BY <1>a, <2>2 DEF UsedOK
  <2> QED BY <2>1, <2>2, TodoFrom
<1>3. \A o \in Elems(hsTodo') : o.op = "delete" => o.id \in IDs /\ Used(o.id)'
  <2>1. ASSUME NEW p \in Packets, p \in Elems(sendCh) \cup Outgoing, hsTodo' = AfterWrite(p)
        PROVE  \A o \in Elems(hsTodo') : o.op = "delete" => o.id \in IDs /\ Used(o.id)'
    BY <1>a, <1>c, <2>1, AfterWriteOps
  <2>2. CASE HsTakeSend /\ hsTodo' = AfterWrite(Head(sendCh))
    <3>1. Head(sendCh) \in Packets /\ Head(sendCh) \in Elems(sendCh)
      BY <1>0, <2>2, ElemsTail DEF HsTakeSend
    <3> QED BY <2>1, <2>2, <3>1
  <2>3. CASE HsTakeLogic /\ hsTodo' = AfterWrite(Head(logicSendC))
    <3>1. Head(logicSendC) \in Packets /\ Head(logicSendC) \in Outgoing
      BY <1>0, <2>3, ElemsTail DEF HsTakeLogic, Outgoing
    <3> QED BY <2>1, <2>3, <3>1
  <2>4. CASE hsTodo' = <<NotifyNet>>
    BY <2>4, Elems3, OpFields
  <2>5. CASE hsTodo # <<>> /\ hsTodo' = Tail(hsTodo)
    <3>1. Elems(hsTodo') \subseteq Elems(hsTodo)
      BY <1>0, <2>5, ElemsTail
    <3> QED BY <1>a, <3>1 DEF UsedOK
  <2>6. CASE hsTodo' = <<>> \/ hsTodo' = hsTodo
    BY <1>a, <2>6, ElemsEmpty DEF UsedOK
  <2> QED BY <2>2, <2>3, <2>4, <2>5, <2>6, HsTodoFrom
<1>d. ASSUME NEW q \in Elems(toClient)
      PROVE  /\ q.type = "PUBLISH" /\ q.obj \notin In0 => q.id \in IDs /\ Used(q.id)'
             /\ q.type = "PUBREL" => q.id \in IDs /\ Used(q.id)'
  BY <1>a, <1>d DEF UsedOK
<1>4. CASE ServerAnswer /\ BrokerRecv
  <2>0. PICK p : p = Head(toServer)
    OBVIOUS
  <2>1. p \in Packets /\ p \in Elems(toServer) /\ toClient' = toClient \o Answer(p) /\ UNCHANGED <<bid, bResend>>
    BY <1>0, <1>4, <2>0, ElemsTail DEF BrokerRecv
  <2>2. Elems(toClient') = Elems(toClient) \cup Elems(Answer(p))
    BY <1>0, <2>1, AnswerTyped, ElemsConcat
  <2>3. ASSUME NEW q \in Elems(Answer(p))
        PROVE  q.type # "PUBLISH" /\ (q.type = "PUBREL" => q.id \in IDs /\ Used(q.id)')
    <3>1. q.id = p.id /\ q.type # "PUBLISH" /\ (q.type = "PUBREL" => p.type = "PUBREC")
      BY <2>1, <2>3, AnswerTyped
    <3> QED BY <1>a, <1>c, <2>1, <3>1 DEF Outgoing
  <2>4. \A d \in Deliveries : bpc'[d] = bpc[d] \/ (d \in In1 \cup In2 /\ bpc[d] \in {"sent", "rel"} /\ bpc'[d] \in {"rel", "done"})
    BY <1>4, <2>0 DEF BrokerRecv, Acked
  <2>5. /\ \A d \in Deliveries : bpc'[d] \in {"unused", "new"} => bid'[d] = 0
        /\ \A d \in In1 \cup In2 : bpc'[d] \notin {"unused", "new"} => bid'[d] \in IDs
        /\ \A d \in In0 : bpc'[d] \in {"unused", "new", "done"}
        /\ bResend' \subseteq {d \in In1 \cup In2 : bpc'[d] \notin {"unused", "new"}}
    BY <1>b, <2>1, <2>4 DEF UsedOK
  <2>6. ASSUME NEW q \in Elems(toClient')
        PROVE  /\ q.type = "PUBLISH" /\ q.obj \notin In0 => q.id \in IDs /\ Used(q.id)'
               /\ q.type = "PUBREL" => q.id \in IDs /\ Used(q.id)'
    BY <1>d, <2>2, <2>3, <2>6
  <2> QED BY <1>1, <1>2, <1>3, <2>5, <2>6 DEF UsedOK
<1>5. ASSUME NEW d \in Deliveries, BrokerResend(d)
      PROVE  UsedOK'
  <2>1. PICK e : e = IF bpc[d] = "sent" THEN Pkt("PUBLISH", bid[d], d) ELSE Pkt("PUBREL", bid[d], None)
    OBVIOUS
  <2>2. toClient' = Append(toClient, e) /\ d \in bResend /\ bResend' \subseteq bResend /\ UNCHANGED <<bpc, bid>>
    BY <1>5, <2>1 DEF BrokerResend
  <2>3. d \in In1 \cup In2 /\ bid[d] \in IDs
    BY <2>2 DEF UsedOK
  <2>4. e \in InPkts /\ e.id = bid[d]
    BY <2>1, <2>3, PktTyped DEF InPkts, Types, AckTypes
  <2>5. e.id \in IDs /\ Used(e.id)'
    BY <1>a, <2>3, <2>4 DEF Used
  <2>6. Elems(toClient') = Elems(toClient) \cup {e}
    BY <1>0, <2>2, <2>4, ElemsAppend
  <2>7. ASSUME NEW q \in Elems(toClient')
        PROVE  /\ q.type = "PUBLISH" /\ q.obj \notin In0 => q.id \in IDs /\ Used(q.id)'
               /\ q.type = "PUBREL" => q.id \in IDs /\ Used(q.id)'
    BY <1>d, <2>5, <2>6, <2>7
  <2>8. bResend' \subseteq {f \in In1 \cup In2 : bpc'[f] \notin {"unused", "new"}}
    BY <2>2 DEF UsedOK
  <2> QED BY <1>1, <1>2, <1>3, <2>2, <2>7, <2>8 DEF UsedOK
<1>6. ASSUME NEW d \in Deliveries, NEW i \in IDs \cup {0}, BrokerPublish(d, i)
      PROVE  UsedOK'
  <2>0. PICK e : e = Pkt("PUBLISH", i, d)
    OBVIOUS
  <2>1. /\ toClient' = Append(toClient, e) /\ bResend' = bResend /\ bpc[d] = "new"
        /\ bpc' = [bpc EXCEPT ![d] = IF d \in In0 THEN "done" ELSE "sent"] /\ bid' = [bid EXCEPT ![d] = i]
        /\ d \notin In0 => i \in IDs
    BY <1>6, <2>0 DEF BrokerPublish
  <2>2. e \in InPkts /\ e.id = i /\ e.obj = d /\ e.type = "PUBLISH"
    BY <2>0, PktTyped DEF InPkts, Types, AckTypes
  <2>3. Elems(toClient') = Elems(toClient) \cup {e}
    BY <1>0, <2>1, <2>2, ElemsAppend
  <2>4. d \notin In0 => i \in IDs /\ Used(i)'
    BY <1>0, <1>b, <2>1 DEF Used
  <2>5. ASSUME NEW q \in Elems(toClient')
        PROVE  /\ q.type = "PUBLISH" /\ q.obj \notin In0 => q.id \in IDs /\ Used(q.id)'
               /\ q.type = "PUBREL" => q.id \in IDs /\ Used(q.id)'
    BY <1>d, <2>2, <2>3, <2>4, <2>5
  <2>6. /\ \A f \in Deliveries : bpc'[f] \in {"unused", "new"} => bid'[f] = 0
        /\ \A f \in In1 \cup In2 : bpc'[f] \notin {"unused", "new"} => bid'[f] \in IDs
        /\ \A f \in In0 : bpc'[f] \in {"unused", "new", "done"}
        /\ bResend' \subseteq {f \in In1 \cup In2 : bpc'[f] \notin {"unused", "new"}}
    BY <1>0, <1>b, <2>1 DEF UsedOK
  <2> QED BY <1>1, <1>2, <1>3, <2>5, <2>6 DEF UsedOK
<1>7. ASSUME Elems(toClient') \subseteq Elems(toClient), UNCHANGED <<bpc, bid>>,
             bResend' \subseteq {f \in In1 \cup In2 : bpc[f] \notin {"unused", "new"}}
      PROVE  UsedOK'
  <2>1. ASSUME NEW q \in Elems(toClient')
        PROVE  /\ q.type = "PUBLISH" /\ q.obj \notin In0 => q.id \in IDs /\ Used(q.id)'
               /\ q.type = "PUBREL" => q.id \in IDs /\ Used(q.id)'
    BY <1>d, <1>7, <2>1
  <2> QED BY <1>1, <1>2, <1>3, <1>7, <2>1 DEF UsedOK
<1>8. CASE Reconnect /\ BrokerNewConnection
  <2>1. Elems(toClient') \subseteq Elems(toClient)
    BY <1>8, ElemsEmpty DEF Reconnect
  <2>2. bResend' = {d \in Deliveries : bpc[d] \in {"sent", "rel"}} /\ UNCHANGED <<bpc, bid>>
    BY <1>8 DEF BrokerNewConnection
  <2>3. bResend' \subseteq {f \in In1 \cup In2 : bpc[f] \notin {"unused", "new"}}
    BY <1>b, <2>2 DEF UsedOK
  <2> QED BY <1>7, <2>1, <2>2, <2>3
<1>9. CASE UNCHANGED <<bpc, bid, bResend>> /\ Elems(toClient') \subseteq Elems(toClient)
  BY <1>7, <1>9 DEF UsedOK
<1> QED BY <1>4, <1>5, <1>6, <1>8, <1>9, BrokerFrame, ToClientFrom

LEMMA InitUsed ==
    ASSUME Init
    PROVE  UsedOK
<1>1. /\ toClient = <<>> /\ logicSendC = <<>> /\ wbuf = <<>> /\ toServer = <<>> /\ todo = <<>> /\ hsTodo = <<>>
      /\ bResend = {} /\ bid = [d \in Deliveries |-> 0]
  BY DEF Init, BrokerInit
<1>2. \A d \in Deliveries : bpc[d] \in {"unused", "new"}
  BY DEF Init, BrokerInit
<1> QED BY <1>1, <1>2, ElemsEmpty, ReqTypes DEF UsedOK, Outgoing

-----------------------------------------------------------------------------
(* The store *)

LEMMA StoreFrame ==
    ASSUME [Next]_vars
    PROVE  \/ \E s \in Reqs : CallStore(s)
           \/ HsStore \/ HsDelete \/ LogicDelete
           \/ UNCHANGED sendStore
<1> USE DEF storeVars
<1>1. CASE HsTakeSend \/ HsTakeLogic \/ HsFlush \/ HsStop \/ HsNotify
  BY <1>1 DEF HsTakeSend, HsTakeLogic, HsFlush, HsStop, HsNotify
<1>2. CASE LogicRecv \/ LogicNotify \/ LogicFree \/ LogicDeliver \/ LogicStore \/ LogicSend \/ LogicExit
  BY <1>2 DEF LogicRecv, LogicNotify, LogicFree, LogicDeliver, LogicStore, LogicSend, LogicExit
<1>3. CASE HandleMsg \/ HandleTopicMsg \/ NetBreak \/ NetRecvExit \/ Reconnect \/ ServerAnswer \/ ServerPublish \/ Quietly
  BY <1>3 DEF HandleMsg, HandleTopicMsg, NetBreak, NetRecvExit, Reconnect, ServerAnswer, ServerPublish, Quietly, vars
<1>4. ASSUME NEW r \in Reqs, CallNext(r) \/ CallSend(r)
      PROVE  UNCHANGED sendStore
  BY <1>4 DEF CallNext, CallSend
<1> QED BY <1>1, <1>2, <1>3, <1>4, Steps

\* What changes the entry of a request
LEMMA EntrySteps ==
    ASSUME Typed, IdsOK, AnswersOK, UsedOK, TodoOK, [Next]_vars, NEW r \in Pub1 \cup Pub2, reqID[r] # 0
    PROVE  \/ sendStore'[reqID[r]] = sendStore[reqID[r]]
           \/ CallStore(r) /\ sendStore'[reqID[r]] = "PUBLISH"
           \/ r \in Pub2 /\ sendStore'[reqID[r]] = "PUBREL"
           \/ LogicDelete /\ Deleting(r) /\ usedIDs[reqID[r]] # r
           \/ HsDelete /\ sendStore'[reqID[r]] = "none" /\ Used(reqID[r])
<1>0. /\ sendStore \in [IDs -> Stored] /\ reqID \in [Reqs -> IDs \cup {0}] /\ r \in Reqs /\ reqID[r] \in IDs
      /\ todo \in Seq(LogicOps) /\ hsTodo \in Seq(SendOps)
  BY ReqTypes DEF Typed, TypeOK
<1>u. \A s \in Reqs : reqID[s] = reqID[r] => s = r
  BY <1>0 DEF IdsOK
<1>1. ASSUME NEW s \in Reqs, CallStore(s)
      PROVE  sendStore'[reqID[r]] = sendStore[reqID[r]] \/ (s = r /\ sendStore'[reqID[r]] = "PUBLISH")
  <2>1. sendStore' = [sendStore EXCEPT ![reqID[s]] = "PUBLISH"]
    BY <1>1 DEF CallStore
  <2> QED BY <1>0, <1>u, <2>1
<1>2. CASE HsStore
  <2>0. PICK o : o = Head(hsTodo)
    OBVIOUS
  <2>1. o \in Elems(hsTodo) /\ o.op = "storeSent" /\ sendStore' = [sendStore EXCEPT ![o.id] = o.pkt]
    BY <1>0, <1>2, <2>0, ElemsTail DEF HsStore
  <2>2. Taken(Pub2, o.id) /\ o.pkt = "PUBREL"
    BY <2>1 DEF AnswersOK
  <2>3. CASE o.id = reqID[r]
    <3>1. r \in Pub2
      BY <1>u, <2>2, <2>3, ReqTypes DEF Taken
    <3> QED BY <1>0, <2>1, <2>2, <2>3, <3>1
  <2>4. CASE o.id # reqID[r]
    BY <1>0, <2>1, <2>4
  <2> QED BY <2>3, <2>4
<1>3. CASE HsDelete
  <2>0. PICK o : o = Head(hsTodo)
    OBVIOUS
  <2>1. o \in Elems(hsTodo) /\ o.op = "delete" /\ sendStore' = [sendStore EXCEPT ![o.id] = "none"]
    BY <1>0, <1>3, <2>0, ElemsTail DEF HsDelete
  <2>2. Used(o.id)
    BY <2>1 DEF UsedOK
  <2> QED BY <1>0, <1>3, <2>1, <2>2
<1>4. CASE LogicDelete
  <2>1. todo # <<>> /\ Head(todo).op = "delete" /\ Head(todo) \in Elems(todo) /\ sendStore' = [sendStore EXCEPT ![Head(todo).id] = "none"]
    BY <1>0, <1>4, ElemsTail DEF LogicDelete, LogicDo
  <2>2. PICK s \in Reqs \ Pub0 : \/ Sending(s) \/ Notifying(s) \/ Freeing(s)
                                 \/ Deleting(s) /\ usedIDs[reqID[s]] # s
    BY <2>1 DEF TodoOK
  <2>3. Deleting(s) /\ usedIDs[reqID[s]] # s /\ Head(todo).id = reqID[s]
    BY <2>1, <2>2, TodoHeads
  <2>4. CASE s = r
    BY <1>4, <2>3, <2>4
  <2>5. CASE s # r
    <3>1. Head(todo).id # reqID[r]
      BY <1>u, <2>3, <2>5
    <3> QED BY <1>0, <2>1, <3>1
  <2> QED BY <2>4, <2>5
<1> QED BY <1>1, <1>2, <1>3, <1>4, StoreFrame

LEMMA NextPersisted ==
    ASSUME Typed, Typed', IdsOK, PipeOK, AnswersOK, UsedOK, TodoOK, PersistedWhileInFlight, [Next]_vars
    PROVE  PersistedWhileInFlight'
<1> SUFFICES ASSUME NEW r \in Pub1 \cup Pub2, pc'[r] \in {"send", "sent"}, usedIDs'[reqID'[r]] = r,
                    \A d \in Deliveries : bid'[d] # reqID'[r]
             PROVE  sendStore'[reqID'[r]] # "none"
  BY DEF PersistedWhileInFlight
<1>0. /\ r \in Reqs /\ r \notin Pub0 /\ None \notin Reqs /\ usedIDs \in [IDs -> Reqs \cup {None}]
      /\ pc \in [Reqs -> {"unused", "new", "store", "send", "sent"}]
  BY ReqTypes, PacketsAssumption DEF Typed, TypeOK
<1>1. pc[r] \in {"store", "send", "sent"} /\ (pc[r] = "store" => CallStore(r))
  <2>1. ASSUME NEW s \in Reqs, CallNext(s)
        PROVE  pc[r] \in {"send", "sent"}
    BY <1>0, <2>1 DEF CallNext
  <2>2. ASSUME NEW s \in Reqs, CallStore(s) \/ CallSend(s)
        PROVE  pc[r] \in {"send", "sent"} \/ (pc[r] = "store" /\ CallStore(r))
    BY <1>0, <2>2 DEF CallStore, CallSend
  <2> QED BY <2>1, <2>2, IdsFrame
<1>2. reqID[r] # 0
  BY <1>0, <1>1 DEF IdsOK
<1>3. reqID'[r] = reqID[r] /\ reqID[r] \in IDs /\ usedIDs[reqID[r]] = r
  <2>1. /\ reqID'[r] = reqID[r] /\ reqID[r] \in IDs
        /\ \/ usedIDs'[reqID[r]] = usedIDs[reqID[r]]
           \/ LogicFree /\ usedIDs' = [usedIDs EXCEPT ![Head(todo).id] = None]
    BY <1>0, <1>2, OwnerStays
  <2> QED BY <1>0, <2>1
<1>4. \A d \in Deliveries : bid[d] # reqID[r]
  BY <1>2, <1>3, NumberStays
<1>5. ~Used(reqID[r])
  BY <1>4, ReqTypes DEF Used
<1>6. CASE pc[r] = "store"
  BY <1>1, <1>3, <1>6 DEF CallStore, Typed, TypeOK
<1>7. CASE pc[r] # "store"
  <2>1. sendStore[reqID[r]] # "none"
    BY <1>1, <1>3, <1>4, <1>7 DEF PersistedWhileInFlight
  <2> QED BY <1>2, <1>3, <1>5, <2>1, EntrySteps
<1> QED BY <1>6, <1>7

LEMMA NextStore ==
    ASSUME Typed, Typed', IdsOK, PipeOK, AnswersOK, UsedOK, HsShape, TodoOK, ReportsOK, ReportsOK', StoreOK, [Next]_vars
    PROVE  StoreOK'
<1>0. todo \in Seq(LogicOps)
  BY DEF Typed
<1>b. \A i : FreeID(i)' = FreeID(i) /\ DeleteSent(i)' = DeleteSent(i)
  BY OpFields
<1> SUFFICES ASSUME NEW r \in Pub1 \cup Pub2, Reported(r)' > 0, sendStore'[reqID'[r]] # "none"
             PROVE  Freeing(r)' \/ Deleting(r)' \/ (r \in Pub2 /\ sendStore'[reqID'[r]] = "PUBREL")
  BY DEF StoreOK
<1>1. r \in Reqs \ Pub0 /\ Reported(r) \in Nat
  BY ReqTypes, PacketsAssumption, ReportedType
<1>2. CASE Reported(r) = 0
  <2>1. LogicNotify /\ Head(todo).obj = r
    BY <1>1, <1>2, RequestReported
  <2>2. todo # <<>> /\ Head(todo).op = "notify" /\ Head(todo) \in Elems(todo) /\ todo' = Tail(todo) /\ reqID' = reqID
    BY <1>0, <2>1, ElemsTail DEF LogicNotify, LogicDo, callVars
  <2>3. PICK s \in Reqs \ Pub0 : Sending(s) \/ Notifying(s) \/ Freeing(s) \/ Deleting(s)
    BY <2>2 DEF TodoOK
  <2>4. Notifying(s) /\ s = r
    BY <2>1, <2>2, <2>3, TodoHeads
  <2>5. Freeing(r)'
    BY <1>b, <2>2, <2>4, TodoHeads DEF Freeing
  <2> QED BY <2>5
<1>3. CASE Reported(r) > 0
  <2>1. Released(r) /\ pc[r] = "sent" /\ reqID[r] # 0 /\ reqID'[r] = reqID[r]
    <3>1. Released(r)
      BY <1>1, <1>3 DEF ReportsOK
    <3>2. pc[r] = "sent" /\ reqID[r] # 0
      BY <1>1, <3>1 DEF Released, PipeOK, IdsOK
    <3> QED BY <1>1, <3>1, <3>2, SentStays
  <2>2. ~CallStore(r)
    BY <2>1 DEF CallStore
  <2>3. Freeing(r) => Freeing(r)' \/ Deleting(r)'
    <3> SUFFICES ASSUME Freeing(r)
                 PROVE  Freeing(r)' \/ Deleting(r)'
      OBVIOUS
    <3>1. todo # <<>> /\ Head(todo).op = "free" /\ Tail(todo) = <<DeleteSent(reqID[r])>>
      BY TodoHeads
    <3>2. ~(LogicRecv \/ LogicNotify \/ LogicDelete \/ LogicDeliver \/ LogicStore \/ LogicSend)
      BY <3>1 DEF LogicRecv, LogicNotify, LogicDelete, LogicDeliver, LogicStore, LogicSend, LogicDo
    <3>3. todo' = todo \/ todo' = Tail(todo)
      BY <3>1, <3>2, TodoFrame DEF TodoOK
    <3> QED BY <1>b, <2>1, <3>1, <3>3 DEF Freeing, Deleting
  <2>4. Deleting(r) => Deleting(r)' \/ LogicDelete
    <3> SUFFICES ASSUME Deleting(r), ~LogicDelete
                 PROVE  Deleting(r)'
      OBVIOUS
    <3>1. todo # <<>> /\ Head(todo).op = "delete"
      BY TodoHeads
    <3>2. ~(LogicRecv \/ LogicNotify \/ LogicFree \/ LogicDeliver \/ LogicStore \/ LogicSend)
      BY <3>1 DEF LogicRecv, LogicNotify, LogicFree, LogicDeliver, LogicStore, LogicSend, LogicDo
    <3>3. todo' = todo
      BY <3>1, <3>2, TodoFrame DEF TodoOK
    <3> QED BY <1>b, <2>1, <3>3 DEF Deleting
  <2>5. ASSUME LogicDelete, Deleting(r)
        PROVE  sendStore'[reqID[r]] = "none"
    <3>1. Head(todo).id = reqID[r] /\ reqID[r] \in IDs
      BY <1>1, <2>1, <2>5, TodoHeads DEF Typed, TypeOK
    <3> QED BY <2>5, <3>1 DEF LogicDelete, Typed, TypeOK
  <2>6. CASE sendStore'[reqID[r]] = sendStore[reqID[r]]
    BY <1>3, <2>1, <2>3, <2>4, <2>5, <2>6 DEF StoreOK
  <2> QED BY <2>1, <2>2, <2>5, <2>6, EntrySteps
<1> QED BY <1>1, <1>2, <1>3

LEMMA InitStore ==
    ASSUME Init
    PROVE  PersistedWhileInFlight /\ StoreOK
<1>1. msgCh = <<>> /\ notified = [r \in Reqs |-> 0]
  BY DEF Init
<1>2. \A r \in Reqs : Reported(r) = 0 /\ pc[r] \in {"unused", "new"}
  BY <1>1, TimesEmpty DEF Reported, Init
<1> QED BY <1>2, ReqTypes DEF PersistedWhileInFlight, StoreOK

StoreInv == ReqInv /\ UsedOK /\ PersistedWhileInFlight /\ StoreOK

\* The inductive invariant of the store, on top of that of the requests
THEOREM StoreInvariance == Spec => []StoreInv
<1>1. Init => StoreInv
  BY InitTyped, InitIds, InitPipe, InitAnswers, InitPub0, InitReports, InitUsed, InitStore DEF ReqInv, StoreInv
<1>2. ReqInv /\ [Next]_vars => ReqInv'
  BY NextTyped, NextIds, NextPipe, NextAnswers, NextHsShape, NextTodo, NextReports, NextPub0 DEF ReqInv
<1>3. StoreInv /\ [Next]_vars => StoreInv'
  BY <1>2, NextUsed, NextPersisted, NextStore DEF ReqInv, StoreInv
<1> QED BY <1>1, <1>3, PTL DEF Spec

\* A publish in flight is in the store, unless the server used its identifier
\* (README.md:199; client_conn.go:280-317).
THEOREM InFlightIsStored == Spec => []PersistedWhileInFlight
<1>1. StoreInv => PersistedWhileInFlight
  BY DEF StoreInv
<1> QED BY <1>1, StoreInvariance, PTL

\* When nothing is going on, nothing of a reported publish is left in the
\* store but the PUBREL of QoS 2 (client_conn.go:182-188, 309-311).
THEOREM CompletedIsCleared == Spec => []StoreCleared
<1>1. ASSUME StoreInv
      PROVE  StoreCleared
  <2> SUFFICES ASSUME Quiet, NEW r \in Pub1 \cup Pub2, Reported(r) > 0
               PROVE  sendStore[reqID[r]] \in (IF r \in Pub2 THEN {"none", "PUBREL"} ELSE {"none"})
    BY DEF StoreCleared
  <2>1. ~Freeing(r) /\ ~Deleting(r)
    BY TodoHeads DEF Quiet
  <2> QED BY <1>1, <2>1 DEF StoreInv, StoreOK
<1>2. StoreInv => StoreCleared
  BY <1>1
<1> QED BY <1>2, StoreInvariance, PTL
=============================================================================
