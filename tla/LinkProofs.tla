----------------------------- MODULE LinkProofs -----------------------------
(***************************************************************************)
(* Theorems about the link between the charger and the CMS, for any number *)
(* of connections and CALLs, any capacities, and any CMS.  Before them, about *)
(* the frames on it, for every frame and every array.                      *)
(***************************************************************************)
EXTENDS Link, SequenceTheorems, TLAPS

-----------------------------------------------------------------------------
(* Encoding and decoding frames.                                           *)

\* What a frame looks like once it has been sent: its payload is never empty.
Sent(f) == [f EXCEPT !.payload = Filled(@)]

\* The elements a decoder looks at are there, and each is a JSON element.
LEMMA Elements ==
  ASSUME NEW arr \in Seq(Json), NEW i \in 1 .. Len(arr)
  PROVE  arr[i] \in Json /\ arr[i] # Absent
<1>1. arr[i] \in Json
  OBVIOUS
<1>2. arr[i].t \in JsonTypes
  BY <1>1 DEF Json
<1>3. arr[i].t # Absent.t
  BY <1>2 DEF JsonTypes, Absent
<1> QED
  BY <1>1, <1>2, <1>3

\* An integer or a string that was encoded is decoded to the same text.
LEMMA ScalarRoundTrip ==
  \A s : /\ IsInt(Integer(s)) /\ IntOf(Integer(s)) = s
         /\ IsText(Text(s)) /\ TextOf(Text(s)) = s
BY DEF IsInt, Integer, IntOf, IsText, Text, TextOf

\* Conversely, but for nulls.
LEMMA ScalarFaithful ==
  ASSUME NEW e \in Json, e.t # "null"
  PROVE  /\ IsInt(e) => Integer(IntOf(e)) = e
         /\ IsText(e) => Text(TextOf(e)) = e
<1>1. e = [t |-> e.t, v |-> e.v]
  BY DEF Json
<1> QED
  BY <1>1 DEF IsInt, Integer, IntOf, IsText, Text, TextOf

\* Whatever one side marshals the other decodes to the same frame: the id, the
\* action or error code and the payload arrive, an empty payload as {}.
THEOREM MarshalRoundTrip == \A f \in Frames : Decode(Marshal(f)) = Sent(f)
<1> SUFFICES ASSUME NEW f \in Frames PROVE Decode(Marshal(f)) = Sent(f)
  OBVIOUS
<1> DEFINE p == Filled(f.payload)
<1>1. CASE f \in [type : {"CALL"}, id : STRING, action : STRING, payload : Payloads]
  <2> DEFINE arr == <<Integer("2"), Text(f.id), Text(f.action), p>>
  <2>1. Marshal(f) = arr
    BY <1>1 DEF Marshal
  <2>2. Decode(arr) = Call(f.id, f.action, p)
    BY ScalarRoundTrip DEF Decode, DecodeTyped, Typed
  <2>3. Sent(f) = Call(f.id, f.action, p)
    BY <1>1 DEF Sent, Call
  <2> QED
    BY <2>1, <2>2, <2>3
<1>2. CASE f \in [type : {"CALLRESULT"}, id : STRING, payload : Payloads]
  <2> DEFINE arr == <<Integer("3"), Text(f.id), p>>
  <2>1. Marshal(f) = arr
    BY <1>2 DEF Marshal
  <2>2. Decode(arr) = CallResult(f.id, p)
    BY ScalarRoundTrip DEF Decode, DecodeTyped, Typed
  <2>3. Sent(f) = CallResult(f.id, p)
    BY <1>2 DEF Sent, CallResult
  <2> QED
    BY <2>1, <2>2, <2>3
<1>3. CASE f \in [type : {"CALLERROR"}, id : STRING, code : STRING, desc : STRING, payload : Payloads]
  <2> DEFINE arr == <<Integer("4"), Text(f.id), Text(f.code), Text(f.desc), p>>
  <2>1. Marshal(f) = arr
    BY <1>3 DEF Marshal
  <2>2. Decode(arr) = CallError(f.id, f.code, f.desc, p)
    BY ScalarRoundTrip DEF Decode, DecodeTyped, Typed
  <2>3. Sent(f) = CallError(f.id, f.code, f.desc, p)
    BY <1>3 DEF Sent, CallError
  <2> QED
    BY <2>1, <2>2, <2>3
<1> QED
  BY <1>1, <1>2, <1>3 DEF Frames

\* Decode loses nothing: an array without nulls that it accepts is what
\* Marshal makes of the frame it returns, so no two arrays that differ in an
\* id, an action or a code are taken for one another.
THEOREM DecodeFaithful ==
  \A arr \in Seq(Json) :
    (\A i \in 1 .. Len(arr) : arr[i].t # "null") /\ Decode(arr) # DecodeError
    => Marshal(Decode(arr)) = arr
<1> SUFFICES ASSUME NEW arr \in Seq(Json),
                    \A i \in 1 .. Len(arr) : arr[i].t # "null",
                    Decode(arr) # DecodeError
             PROVE  Marshal(Decode(arr)) = arr
  OBVIOUS
<1>1. /\ Len(arr) \in Nat /\ Len(arr) >= 3 /\ IsInt(arr[1]) /\ IsText(arr[2])
      /\ Decode(arr) = DecodeTyped(arr)
  BY DEF Decode
<1>2. \A i \in 1 .. Len(arr) :
        /\ Filled(arr[i]) = arr[i]
        /\ IsInt(arr[i]) => Integer(IntOf(arr[i])) = arr[i]
        /\ IsText(arr[i]) => Text(TextOf(arr[i])) = arr[i]
  BY Elements, ScalarFaithful DEF Filled
<1>3. /\ Filled(arr[3]) = arr[3] /\ Integer(IntOf(arr[1])) = arr[1]
      /\ Text(TextOf(arr[2])) = arr[2] /\ (IsText(arr[3]) => Text(TextOf(arr[3])) = arr[3])
  BY <1>1, <1>2
<1>4. CASE Typed(arr, "2") /\ Len(arr) = 4 /\ IsText(arr[3])
  <2>1. Decode(arr) = Call(TextOf(arr[2]), TextOf(arr[3]), arr[4])
    BY <1>1, <1>4 DEF DecodeTyped, Typed
  <2>2. Marshal(Decode(arr)) = <<arr[1], arr[2], arr[3], arr[4]>>
    BY <1>2, <1>3, <1>4, <2>1 DEF Marshal, Call, Typed
  <2> QED
    BY <1>4, <2>2
<1>5. CASE Typed(arr, "3") /\ Len(arr) = 3
  <2>1. Decode(arr) = CallResult(TextOf(arr[2]), arr[3])
    BY <1>1, <1>5 DEF DecodeTyped, Typed
  <2>2. Marshal(Decode(arr)) = <<arr[1], arr[2], arr[3]>>
    BY <1>3, <1>5, <2>1 DEF Marshal, CallResult, Typed, IntOf
  <2> QED
    BY <1>5, <2>2
<1>6. CASE Typed(arr, "4") /\ Len(arr) = 5 /\ IsText(arr[3]) /\ IsText(arr[4])
  <2>1. Decode(arr) = CallError(TextOf(arr[2]), TextOf(arr[3]), TextOf(arr[4]), arr[5])
    BY <1>1, <1>6 DEF DecodeTyped, Typed
  <2>2. Marshal(Decode(arr)) = <<arr[1], arr[2], arr[3], arr[4], arr[5]>>
    BY <1>2, <1>3, <1>6, <2>1 DEF Marshal, CallError, Typed
  <2> QED
    BY <1>6, <2>2
<1> QED
  BY <1>1, <1>4, <1>5, <1>6 DEF DecodeTyped

-----------------------------------------------------------------------------
(* Sequences of frames, and one client.                                    *)

\* The arrays on the wire.  The provers do not know that a literal is a STRING.
Texts == STRING \cup {"", "2", "3", "4", "{}", "Heartbeat", "GenericError", "NotImplemented",
                      "not implemented", "InternalError", "unknown action"}
Element == [t : JsonTypes, v : Texts]
Array == Seq(Element)

SockType ==
  [wire : {"none", "up", "cut"}, closed : BOOLEAN, reader : {"none", "reading", "exited"},
   toCms : Seq(Array), reply : Seq(Array), toCharger : Seq(Array),
   hand : Seq(Array), inbound : Seq(Array)]

\* One client: its channels keep their bounds, its read loop holds a frame only
\* while it runs, and it is closed, or stops reading, only on a broken link.
SockInv(s) ==
  /\ s \in SockType
  /\ Len(s.hand) <= 1 /\ (s.hand # <<>> => s.reader = "reading")
  /\ Len(s.inbound) <= InCap /\ Len(s.reply) <= 1
  /\ Len(s.toCms) <= WireCap /\ Len(s.toCharger) <= WireCap
  /\ s.closed \/ s.reader = "exited" => s.wire = "cut"

\* The frames between the CMS and the actor on one client.
QueueOf(s) == s.inbound \o s.hand \o s.toCharger

-----------------------------------------------------------------------------
(* The frames the two sides make                                           *)

\* An integer, a text and an empty object are elements.
LEMMA ElementType ==
  /\ \A text \in Texts : Integer(text) \in Element /\ Text(text) \in Element
  /\ Filled(EmptyObject) \in Element /\ Filled(Absent) \in Element
BY DEF Integer, Text, EmptyObject, Absent, Filled, Element, JsonTypes, Texts

\* So the frames the two sides make are arrays.
LEMMA FrameType ==
  ASSUME NEW id \in Texts
  PROVE  /\ Marshal(Call(id, "Heartbeat", Absent)) \in Array
         /\ Marshal(CallResult(id, EmptyObject)) \in Array
         /\ \A code, desc \in Texts : Marshal(CallError(id, code, desc, EmptyObject)) \in Array
<1>1. /\ Integer("2") \in Element /\ Integer("3") \in Element /\ Integer("4") \in Element
      /\ Text(id) \in Element /\ Text("Heartbeat") \in Element
      /\ \A text \in Texts : Text(text) \in Element
      /\ Filled(EmptyObject) \in Element /\ Filled(Absent) \in Element
  BY ElementType DEF Texts
<1>2. /\ Marshal(Call(id, "Heartbeat", Absent)) = <<Integer("2"), Text(id), Text("Heartbeat"), Filled(Absent)>>
      /\ Marshal(CallResult(id, EmptyObject)) = <<Integer("3"), Text(id), Filled(EmptyObject)>>
      /\ \A code, desc \in Texts : Marshal(CallError(id, code, desc, EmptyObject)) =
           <<Integer("4"), Text(id), Text(code), Text(desc), Filled(EmptyObject)>>
  BY DEF Marshal, Call, CallResult, CallError
<1>3. \A a, b, c, d \in Element : <<a, b, c>> \in Array /\ <<a, b, c, d>> \in Array
  BY DEF Array
<1>4. \A a, b, c, d, e \in Element : <<a, b, c, d, e>> \in Array
  BY DEF Array
<1>5. /\ Marshal(Call(id, "Heartbeat", Absent)) \in Array
      /\ Marshal(CallResult(id, EmptyObject)) \in Array
  BY <1>1, <1>2, <1>3
<1>6. ASSUME NEW code \in Texts, NEW desc \in Texts
      PROVE  Marshal(CallError(id, code, desc, EmptyObject)) \in Array
  BY <1>1, <1>2, <1>4
<1> QED
  BY <1>5, <1>6

\* The id of a frame that was decoded is a text.
LEMMA DecodeType ==
  ASSUME NEW arr \in Array, Decode(arr).type \in {"CALL", "CALLRESULT", "CALLERROR"}
  PROVE  Decode(arr).id \in Texts
<1>1. Decode(arr) = DecodeTyped(arr) /\ Len(arr) \in Nat /\ Len(arr) >= 3
  BY DEF Decode, DecodeError, Array
<1>2. arr[2] \in Element
  <2>1. 2 \in 1 .. Len(arr)
    BY <1>1
  <2> QED
    BY <2>1, ElementOfSeq DEF Array
<1>3. TextOf(arr[2]) \in Texts
  BY <1>2 DEF TextOf, Element, Texts
<1> QED
  BY <1>1, <1>3 DEF DecodeTyped, Call, CallResult, CallError, DecodeError

\* A reply to a frame that was decoded, by either side, can be sent.
LEMMA ReplyType ==
  ASSUME NEW arr \in Array, Decode(arr).type = "CALL"
  PROVE  ReplyTo(Decode(arr)) \in Array /\ HandleCall(Decode(arr)) \in Array
<1> DEFINE id == Decode(arr).id
<1>1. id \in Texts
  BY DecodeType
<1>2. /\ Marshal(CallResult(id, EmptyObject)) \in Array
      /\ Marshal(CallError(id, "NotImplemented", "not implemented", EmptyObject)) \in Array
      /\ Marshal(CallError(id, "InternalError", "unknown action", EmptyObject)) \in Array
  BY <1>1, FrameType DEF Texts
<1> QED
  BY <1>2 DEF ReplyTo, HandleCall

\* The CALL of an id can be sent, and is decoded to a frame with that id.
LEMMA CallFrameType ==
  ASSUME NEW i \in Ids
  PROVE  CallFrame(i) \in Array /\ Decode(CallFrame(i)).id = i
<1> DEFINE arr == <<Integer("2"), Text(i), Text("Heartbeat"), Filled(Absent)>>
<1>1. CallFrame(i) = arr
  BY DEF CallFrame, Marshal, Call
<1>2. Decode(arr) = Call(i, "Heartbeat", Filled(Absent))
  BY ScalarRoundTrip DEF Decode, DecodeTyped, Typed
<1>3. CallFrame(i) \in Array
  BY IdsAssumption, FrameType DEF CallFrame, Texts
<1> QED
  BY <1>1, <1>2, <1>3 DEF Call

\* What the CMS sends of its own accord are arrays.
LEMMA ExtraType ==
  /\ CmsCalls \subseteq Array
  /\ \A i \in Ids : /\ Marshal(CallResult(i, EmptyObject)) \in Array
                    /\ Marshal(CallError(i, "GenericError", "", EmptyObject)) \in Array
<1>1. Json \subseteq Element
  BY DEF Json, Element, Texts
<1>2. CmsCalls \subseteq Array
  BY <1>1, SeqMonotonic, CmsCallsAssumption DEF Array
<1>3. ASSUME NEW i \in Ids
      PROVE  /\ Marshal(CallResult(i, EmptyObject)) \in Array
             /\ Marshal(CallError(i, "GenericError", "", EmptyObject)) \in Array
  BY IdsAssumption, FrameType DEF Texts
<1> QED
  BY <1>2, <1>3

-----------------------------------------------------------------------------
(* Sequences of frames                                                     *)

\* Of a frame and of none.
LEMMA Few ==
  /\ <<>> \in Seq(Array) /\ Len(<<>>) = 0
  /\ \A f \in Array : <<f>> \in Seq(Array) /\ Len(<<f>>) = 1 /\ <<f>> # <<>> /\ Head(<<f>>) = f /\ Tail(<<f>>) = <<>>
  /\ \A q \in Seq(Array) : q \o <<>> = q /\ <<>> \o q = q
BY ConcatEmptySeq

\* Taking a frame from a sequence, and putting it before another.
LEMMA First ==
  ASSUME NEW q \in Seq(Array), q # <<>>
  PROVE  /\ Head(q) \in Array /\ Tail(q) \in Seq(Array) /\ Len(q) \in Nat \ {0} /\ Len(Tail(q)) = Len(q) - 1
         /\ <<Head(q)>> \o Tail(q) = q
<1>1. /\ Head(q) \in Array /\ Tail(q) \in Seq(Array) /\ Len(Tail(q)) = Len(q) - 1
      /\ \A i \in 1 .. Len(Tail(q)) : Tail(q)[i] = q[i + 1]
  BY HeadTailProperties
<1>2. Len(q) \in Nat \ {0}
  BY EmptySeq
<1>3. <<Head(q)>> \in Seq(Array) /\ Len(<<Head(q)>>) = 1 /\ <<Head(q)>>[1] = q[1]
  BY <1>1, Few
<1> DEFINE h == <<Head(q)>>
           p == h \o Tail(q)
<1>4. /\ p \in Seq(Array) /\ Len(p) = 1 + Len(Tail(q))
      /\ \A i \in 1 .. 1 + Len(Tail(q)) : p[i] = IF i <= 1 THEN h[i] ELSE Tail(q)[i - 1]
  <2> HIDE DEF h
  <2>1. h \in Seq(Array) /\ Len(h) = 1
    BY <1>3 DEF h
  <2> QED
    BY <1>1, <2>1, ConcatProperties
<1> HIDE DEF p
<1>5. ASSUME NEW i \in 1 .. Len(p) PROVE p[i] = q[i]
  <2>1. CASE i = 1
    BY <1>2, <1>3, <1>4, <2>1
  <2>2. CASE i # 1
    <3>1. i - 1 \in 1 .. Len(Tail(q)) /\ ~(i <= 1) /\ (i - 1) + 1 = i
      BY <1>1, <1>2, <1>4, <2>2
    <3> QED
      BY <1>1, <1>4, <3>1
  <2> QED
    BY <2>1, <2>2
<1>6. p = q
  BY <1>1, <1>2, <1>4, <1>5, SeqEqual
<1> QED
  BY <1>1, <1>2, <1>6 DEF p

\* Adding a frame at the end, and what is then before it.
LEMMA Added ==
  ASSUME NEW q \in Seq(Array), NEW f \in Array
  PROVE  /\ Append(q, f) = q \o <<f>> /\ Append(q, f) \in Seq(Array)
         /\ Len(Append(q, f)) = Len(q) + 1 /\ Append(q, f) # <<>>
         /\ SubSeq(Append(q, f), 1, Len(Append(q, f)) - 1) = q
<1>1. /\ Append(q, f) \in Seq(Array) /\ Append(q, f) # <<>> /\ Len(Append(q, f)) = Len(q) + 1
      /\ \A i \in 1 .. Len(q) : Append(q, f)[i] = q[i]
  BY AppendProperties
<1>2. Len(q) \in Nat
  BY LenProperties
<1> DEFINE p == SubSeq(Append(q, f), 1, Len(q))
<1>3. p \in Seq(Array) /\ Len(p) = Len(q) /\ \A i \in 1 .. Len(q) : p[i] = Append(q, f)[i]
  BY <1>1, <1>2, SubSeqProperties
<1> HIDE DEF p
<1>4. p = q
  BY <1>1, <1>2, <1>3, SeqEqual
<1>5. Append(q, f) = q \o <<f>>
  BY AppendIsConcat
<1> QED
  BY <1>1, <1>2, <1>4, <1>5 DEF p

\* Concatenation can be regrouped.
LEMMA Regrouped ==
  ASSUME NEW q \in Seq(Array), NEW r \in Seq(Array), NEW u \in Seq(Array)
  PROVE  (q \o r) \o u = q \o (r \o u)
BY ConcatAssociative

\* The tail of a sequence that another one follows.
LEMMA TailOfConcat ==
  ASSUME NEW q \in Seq(Array), NEW r \in Seq(Array), q # <<>>
  PROVE  Tail(q \o r) = Tail(q) \o r
<1> DEFINE h == <<Head(q)>>
           u == Tail(q)
<1>1. Head(q) \in Array /\ u \in Seq(Array) /\ h \o u = q
  BY First
<1>2. h \in Seq(Array) /\ Len(h) = 1
  BY <1>1, Few
<1> DEFINE v == u \o r
<1>3. v \in Seq(Array) /\ Len(v) \in Nat
  BY <1>1, ConcatProperties, LenProperties
<1> HIDE DEF h, u
<1>4. q \o r = h \o v
  BY <1>1, <1>2, Regrouped
<1> HIDE DEF v
<1>5. Tail(h \o v) = v
  <2> DEFINE w == h \o v
  <2>1. /\ w \in Seq(Array) /\ Len(w) = 1 + Len(v)
        /\ \A i \in 1 .. 1 + Len(v) : w[i] = IF i <= 1 THEN h[i] ELSE v[i - 1]
    <3>1. /\ w \in Seq(Array) /\ Len(w) = Len(h) + Len(v)
          /\ \A i \in 1 .. Len(h) + Len(v) : w[i] = IF i <= Len(h) THEN h[i] ELSE v[i - Len(h)]
      BY <1>2, <1>3, ConcatProperties
    <3> HIDE DEF w
    <3> QED
      BY <1>2, <3>1
  <2>2. v \in Seq(Array) /\ Len(v) \in Nat
    BY <1>3
  <2> HIDE DEF w
  <2>3. w # <<>>
    BY <2>1, <2>2, EmptySeq
  <2>4. /\ Tail(w) \in Seq(Array) /\ Len(Tail(w)) = Len(w) - 1
        /\ \A i \in 1 .. Len(Tail(w)) : Tail(w)[i] = w[i + 1]
    BY <2>1, <2>3, HeadTailProperties
  <2>5. ASSUME NEW i \in 1 .. Len(v) PROVE Tail(w)[i] = v[i]
    <3>1. i + 1 \in 1 .. 1 + Len(v) /\ ~(i + 1 <= 1) /\ (i + 1) - 1 = i /\ i \in 1 .. Len(Tail(w))
      BY <2>1, <2>2, <2>4
    <3>2. Tail(w)[i] = w[i + 1]
      BY <2>4, <3>1
    <3>3. w[i + 1] = v[(i + 1) - 1]
      BY <2>1, <3>1
    <3> QED
      BY <3>1, <3>2, <3>3
  <2>6. Len(Tail(w)) = Len(v)
    BY <2>1, <2>2, <2>4
  <2>7. Tail(w) = v
    BY <2>2, <2>4, <2>5, <2>6, SeqEqual
  <2> QED
    BY <2>7 DEF w
<1> QED
  BY <1>4, <1>5 DEF u, v

\* A sequence is a prefix of what it is continued to.
LEMMA Continued ==
  ASSUME NEW q \in Seq(Array), NEW r \in Seq(Array)
  PROVE  Len(q) <= Len(q \o r) /\ SubSeq(q, 1, Len(q)) = SubSeq(q \o r, 1, Len(q))
<1>1. Len(q) \in Nat /\ Len(r) \in Nat
  BY LenProperties
<1>2. /\ q \o r \in Seq(Array) /\ Len(q \o r) = Len(q) + Len(r)
      /\ \A i \in 1 .. Len(q) + Len(r) : (q \o r)[i] = IF i <= Len(q) THEN q[i] ELSE r[i - Len(q)]
  BY ConcatProperties
<1> DEFINE p == SubSeq(q \o r, 1, Len(q))
<1>3. p \in Seq(Array) /\ Len(p) = Len(q) /\ \A i \in 1 .. Len(q) : p[i] = (q \o r)[i]
  BY <1>1, <1>2, SubSeqProperties
<1>4. \A i \in 1 .. Len(q) : p[i] = q[i]
  BY <1>1, <1>2, <1>3
<1> HIDE DEF p
<1>5. p = q
  BY <1>1, <1>3, <1>4, SeqEqual
<1>6. SubSeq(q, 1, Len(q)) = q
  BY SubSeqFull
<1> QED
  BY <1>1, <1>2, <1>5, <1>6 DEF p

-----------------------------------------------------------------------------
(* One client                                                              *)

\* A step of client s to t, as the abstract link sees it.
LinkStep(s, t) ==
  LET u == s.wire = "up"
      v == t.wire = "up"
      q == QueueOf(s)
      r == QueueOf(t)
  IN  \/ v = u /\ r = q
      \/ u /\ v /\ r # <<>> /\ SubSeq(r, 1, Len(r) - 1) = q
      \/ v = u /\ q # <<>> /\ r = Tail(q)
      \/ u /\ ~v /\ r = q
      \/ ~u /\ ~v /\ Len(r) <= Len(q) /\ SubSeq(r, 1, Len(r)) = SubSeq(q, 1, Len(r))

\* It keeps the invariant, and what is broken or closed stays so.
Follows(s, t) ==
  /\ SockInv(t) /\ LinkStep(s, t)
  /\ s.closed => t.closed
  /\ s.wire = "cut" => t.wire = "cut"

\* The lengths of what one client holds.
LEMMA SockBounds ==
  ASSUME NEW s, SockInv(s)
  PROVE  /\ Len(s.hand) \in Nat /\ Len(s.hand) <= 1 /\ (s.hand # <<>> => s.reader = "reading")
         /\ Len(s.inbound) \in Nat /\ Len(s.inbound) <= InCap /\ InCap \in Nat \ {0}
         /\ Len(s.toCms) \in Nat /\ Len(s.toCms) <= WireCap /\ WireCap \in Nat \ {0}
         /\ Len(s.toCharger) \in Nat /\ Len(s.toCharger) <= WireCap
         /\ Len(s.reply) \in Nat /\ Len(s.reply) <= 1 /\ Len(<<>>) = 0
         /\ (s.closed \/ s.reader = "exited" => s.wire = "cut")
<1>1. /\ s.toCms \in Seq(Array) /\ s.reply \in Seq(Array) /\ s.toCharger \in Seq(Array)
      /\ s.hand \in Seq(Array) /\ s.inbound \in Seq(Array)
  BY DEF SockInv, SockType
<1>2. /\ Len(s.toCms) \in Nat /\ Len(s.reply) \in Nat /\ Len(s.toCharger) \in Nat
      /\ Len(s.hand) \in Nat /\ Len(s.inbound) \in Nat /\ Len(<<>>) = 0
  BY <1>1, LenProperties, Few
<1> QED
  BY <1>2, CapacityAssumption DEF SockInv

\* The types of what one client holds.
LEMMA SockTypes ==
  ASSUME NEW s, SockInv(s)
  PROVE  /\ s.toCms \in Seq(Array) /\ s.reply \in Seq(Array) /\ s.toCharger \in Seq(Array)
         /\ s.hand \in Seq(Array) /\ s.inbound \in Seq(Array)
         /\ s.inbound \o s.hand \in Seq(Array) /\ QueueOf(s) \in Seq(Array)
         /\ QueueOf(s) = s.inbound \o (s.hand \o s.toCharger)
         /\ s.closed \in BOOLEAN /\ s.wire \in {"none", "up", "cut"} /\ s.reader \in {"none", "reading", "exited"}
         /\ InCap \in Nat \ {0} /\ WireCap \in Nat \ {0}
<1>1. /\ s.toCms \in Seq(Array) /\ s.reply \in Seq(Array) /\ s.toCharger \in Seq(Array)
      /\ s.hand \in Seq(Array) /\ s.inbound \in Seq(Array)
      /\ s.closed \in BOOLEAN /\ s.wire \in {"none", "up", "cut"} /\ s.reader \in {"none", "reading", "exited"}
  BY DEF SockInv, SockType
<1>2. s.inbound \o s.hand \in Seq(Array) /\ (s.inbound \o s.hand) \o s.toCharger \in Seq(Array)
  BY <1>1, ConcatProperties
<1>3. (s.inbound \o s.hand) \o s.toCharger = s.inbound \o (s.hand \o s.toCharger)
  BY <1>1, Regrouped
<1> QED
  BY <1>1, <1>2, <1>3, CapacityAssumption DEF QueueOf

\* What touches only the way to the CMS is not seen on the way back.
LEMMA OtherWay ==
  ASSUME NEW s, SockInv(s), NEW m \in Seq(Array), Len(m) <= WireCap, NEW p \in Seq(Array), Len(p) <= 1
  PROVE  Follows(s, [s EXCEPT !.toCms = m, !.reply = p])
<1> DEFINE t == [s EXCEPT !.toCms = m, !.reply = p]
<1>1. /\ t.wire = s.wire /\ t.closed = s.closed /\ t.reader = s.reader /\ t.toCms = m /\ t.reply = p
      /\ t.toCharger = s.toCharger /\ t.hand = s.hand /\ t.inbound = s.inbound /\ t \in SockType
  BY DEF SockInv, SockType
<1> HIDE DEF t
<1>2. SockInv(t)
  BY <1>1 DEF SockInv
<1>3. LinkStep(s, t)
  BY <1>1 DEF LinkStep, QueueOf
<1>4. Follows(s, t)
  BY <1>1, <1>2, <1>3 DEF Follows
<1> QED
  BY <1>4 DEF t

\* A break, and Close, end what is on the way to the CMS.
LEMMA BreakStep ==
  ASSUME NEW s, SockInv(s)
  PROVE  Follows(s, Broken(s)) /\ Follows(s, Closed(s)) /\ Closed(s).closed /\ Broken(s).wire = "cut" /\ Closed(s).wire = "cut"
<1>2. ASSUME NEW t \in {Broken(s), Closed(s)}
      PROVE  Follows(s, t) /\ t.wire = "cut"
  <2>1. /\ t.wire = "cut" /\ (s.closed => t.closed) /\ t.reader = s.reader /\ t.toCms = <<>> /\ t.reply = <<>>
        /\ t.toCharger = s.toCharger /\ t.hand = s.hand /\ t.inbound = s.inbound /\ t \in SockType
    BY Few DEF Broken, Closed, SockInv, SockType
  <2>2. /\ Len(t.toCms) <= WireCap /\ Len(t.reply) <= 1 /\ Len(t.toCharger) <= WireCap
        /\ Len(t.hand) <= 1 /\ Len(t.inbound) <= InCap /\ (t.hand # <<>> => t.reader = "reading")
    BY <2>1, SockBounds
  <2>3. SockInv(t)
    BY <2>1, <2>2 DEF SockInv
  <2>4. LinkStep(s, t)
    BY <2>1 DEF LinkStep, QueueOf
  <2> QED
    BY <2>1, <2>3, <2>4 DEF Follows
<1>3. Closed(s).closed
  BY DEF Closed, Broken, SockInv, SockType
<1> QED
  BY <1>2, <1>3

\* The read loop moves a frame, and the link does not change.
LEMMA ReadStep ==
  ASSUME NEW s, SockInv(s), s.reader = "reading", s.hand = <<>>, s.toCharger # <<>>
  PROVE  Follows(s, [s EXCEPT !.hand = <<Head(s.toCharger)>>, !.toCharger = Tail(s.toCharger)])
<1> DEFINE t == [s EXCEPT !.hand = <<Head(s.toCharger)>>, !.toCharger = Tail(s.toCharger)]
<1>1. /\ Head(s.toCharger) \in Array /\ Tail(s.toCharger) \in Seq(Array) /\ Len(s.toCharger) \in Nat
      /\ Len(Tail(s.toCharger)) = Len(s.toCharger) - 1
      /\ <<Head(s.toCharger)>> \o Tail(s.toCharger) = s.toCharger
  BY SockTypes, First
<1>2. <<Head(s.toCharger)>> \in Seq(Array) /\ Len(<<Head(s.toCharger)>>) = 1
  BY <1>1, Few
<1>3. /\ t.wire = s.wire /\ t.closed = s.closed /\ t.reader = s.reader /\ t.toCms = s.toCms /\ t.reply = s.reply
      /\ t.toCharger = Tail(s.toCharger) /\ t.hand = <<Head(s.toCharger)>> /\ t.inbound = s.inbound /\ t \in SockType
  BY <1>1, <1>2 DEF SockInv, SockType
<1> HIDE DEF t
<1>4. SockInv(t)
  <2>1. /\ Len(t.toCms) <= WireCap /\ Len(t.reply) <= 1 /\ Len(t.toCharger) <= WireCap
        /\ Len(t.hand) <= 1 /\ Len(t.inbound) <= InCap /\ t.reader = "reading" /\ (t.closed => t.wire = "cut")
    BY <1>1, <1>2, <1>3, SockBounds
  <2> QED
    BY <1>3, <2>1 DEF SockInv
<1>5. QueueOf(t) = QueueOf(s)
  <2>1. QueueOf(s) = s.inbound \o s.toCharger
    BY SockTypes, Few
  <2>2. QueueOf(t) = s.inbound \o (<<Head(s.toCharger)>> \o Tail(s.toCharger))
    BY <1>3, <1>4, SockTypes
  <2> QED
    BY <1>1, <2>1, <2>2
<1>6. Follows(s, t)
  BY <1>3, <1>4, <1>5 DEF Follows, LinkStep
<1> QED
  BY <1>6 DEF t

\* A frame in hand is put into the channel, and the link does not change.
LEMMA DeliverStep ==
  ASSUME NEW s, SockInv(s), s.hand # <<>>, Len(s.inbound) < InCap
  PROVE  Follows(s, [s EXCEPT !.hand = <<>>, !.inbound = @ \o s.hand])
<1> DEFINE t == [s EXCEPT !.hand = <<>>, !.inbound = @ \o s.hand]
<1>1. /\ s.inbound \o s.hand \in Seq(Array) /\ <<>> \in Seq(Array) /\ Len(<<>>) = 0
      /\ Len(s.inbound \o s.hand) = Len(s.inbound) + Len(s.hand)
      /\ Len(s.inbound) \in Nat /\ Len(s.hand) \in Nat /\ Len(s.hand) <= 1
  <2>1. s.inbound \in Seq(Array) /\ s.hand \in Seq(Array)
    BY SockTypes
  <2> QED
    BY <2>1, Few, LenProperties, ConcatProperties DEF SockInv
<1>2. /\ t.wire = s.wire /\ t.closed = s.closed /\ t.reader = s.reader /\ t.toCms = s.toCms /\ t.reply = s.reply
      /\ t.toCharger = s.toCharger /\ t.hand = <<>> /\ t.inbound = s.inbound \o s.hand /\ t \in SockType
  BY <1>1 DEF SockInv, SockType
<1> HIDE DEF t
<1>3. /\ Len(t.toCms) <= WireCap /\ Len(t.reply) <= 1 /\ Len(t.toCharger) <= WireCap
      /\ Len(t.hand) <= 1 /\ (t.closed \/ t.reader = "exited" => t.wire = "cut")
  BY <1>1, <1>2, SockBounds
<1>4. Len(t.inbound) <= InCap
  <2>1. \A n, m, cap \in Nat : n < cap /\ m <= 1 => n + m <= cap
    OBVIOUS
  <2>2. InCap \in Nat
    BY SockBounds
  <2> QED
    BY <1>1, <1>2, <2>1, <2>2
<1>5. SockInv(t)
  BY <1>2, <1>3, <1>4 DEF SockInv
<1>6. QueueOf(t) = QueueOf(s)
  <2>1. (s.inbound \o s.hand) \o <<>> = s.inbound \o s.hand
    BY <1>1, Few
  <2> QED
    BY <1>2, <2>1 DEF QueueOf
<1>7. Follows(s, t)
  BY <1>2, <1>5, <1>6 DEF Follows, LinkStep
<1> QED
  BY <1>7 DEF t

\* It ends on a broken link, and what it had not delivered is lost.
LEMMA ExitStep ==
  ASSUME NEW s, SockInv(s), s.wire = "cut"
  PROVE  Follows(s, Exited(s))
<1> DEFINE t == Exited(s)
<1>1. /\ t.wire = s.wire /\ t.closed = s.closed /\ t.reader = "exited" /\ t.toCms = s.toCms /\ t.reply = s.reply
      /\ t.toCharger = <<>> /\ t.hand = <<>> /\ t.inbound = s.inbound /\ t \in SockType
  BY Few DEF Exited, SockInv, SockType
<1> HIDE DEF t
<1>2. SockInv(t)
  <2>1. /\ Len(t.toCms) <= WireCap /\ Len(t.reply) <= 1 /\ Len(t.toCharger) <= WireCap
        /\ Len(t.hand) <= 1 /\ Len(t.inbound) <= InCap /\ t.wire = "cut"
    BY <1>1, SockBounds
  <2> QED
    BY <1>1, <2>1 DEF SockInv
<1>3. QueueOf(t) = s.inbound
  <2>1. s.inbound \o <<>> = s.inbound
    BY SockTypes, Few
  <2> QED
    BY <1>1, <2>1 DEF QueueOf
<1>4. Len(s.inbound) <= Len(QueueOf(s)) /\ SubSeq(s.inbound, 1, Len(s.inbound)) = SubSeq(QueueOf(s), 1, Len(s.inbound))
  <2>1. s.hand \o s.toCharger \in Seq(Array)
    BY SockTypes, ConcatProperties
  <2> QED
    BY <2>1, SockTypes, Continued
<1>5. Follows(s, t)
  BY <1>1, <1>2, <1>3, <1>4 DEF Follows, LinkStep
<1> QED
  BY <1>5 DEF t

\* The CMS writes a frame.
LEMMA WriteStep ==
  ASSUME NEW s, SockInv(s), s.wire = "up", Len(s.toCharger) < WireCap, NEW f \in Array, NEW p \in Seq(Array), Len(p) <= 1
  PROVE  Follows(s, [s EXCEPT !.reply = p, !.toCharger = Append(@, f)])
<1> DEFINE t == [s EXCEPT !.reply = p, !.toCharger = Append(@, f)]
<1>1. /\ Append(s.toCharger, f) = s.toCharger \o <<f>> /\ Append(s.toCharger, f) \in Seq(Array)
      /\ Len(Append(s.toCharger, f)) = Len(s.toCharger) + 1 /\ Len(s.toCharger) \in Nat
  BY SockTypes, Added, LenProperties
<1>2. /\ t.wire = s.wire /\ t.closed = s.closed /\ t.reader = s.reader /\ t.toCms = s.toCms /\ t.reply = p
      /\ t.toCharger = Append(s.toCharger, f) /\ t.hand = s.hand /\ t.inbound = s.inbound /\ t \in SockType
  BY <1>1 DEF SockInv, SockType
<1> HIDE DEF t
<1>3. SockInv(t)
  <2>1. /\ Len(t.toCms) <= WireCap /\ Len(t.reply) <= 1 /\ Len(t.toCharger) <= WireCap
        /\ Len(t.hand) <= 1 /\ Len(t.inbound) <= InCap /\ (t.hand # <<>> => t.reader = "reading")
        /\ (t.closed \/ t.reader = "exited" => t.wire = "cut")
    BY <1>1, <1>2, SockBounds
  <2> QED
    BY <1>2, <2>1 DEF SockInv
<1>4. QueueOf(t) = Append(QueueOf(s), f)
  <2> DEFINE ih == s.inbound \o s.hand
  <2>1. ih \in Seq(Array) /\ s.toCharger \in Seq(Array) /\ <<f>> \in Seq(Array) /\ QueueOf(s) \in Seq(Array)
    BY SockTypes, Few
  <2>2. QueueOf(t) = ih \o (s.toCharger \o <<f>>) /\ QueueOf(s) = ih \o s.toCharger
    BY <1>1, <1>2 DEF QueueOf
  <2> HIDE DEF ih
  <2>3. ih \o (s.toCharger \o <<f>>) = (ih \o s.toCharger) \o <<f>>
    BY <2>1, Regrouped
  <2> QED
    BY <2>1, <2>2, <2>3, Added
<1>5. QueueOf(t) # <<>> /\ SubSeq(QueueOf(t), 1, Len(QueueOf(t)) - 1) = QueueOf(s)
  BY <1>4, SockTypes, Added
<1>6. Follows(s, t)
  BY <1>2, <1>3, <1>5 DEF Follows, LinkStep
<1> QED
  BY <1>6 DEF t

\* The actor takes the oldest frame.
LEMMA TakeFrameStep ==
  ASSUME NEW s, SockInv(s), s.inbound # <<>>
  PROVE  /\ Follows(s, [s EXCEPT !.inbound = Tail(@)])
         /\ Head(s.inbound) \in Array
<1> DEFINE t == [s EXCEPT !.inbound = Tail(@)]
           r == s.hand \o s.toCharger
<1>1. /\ Head(s.inbound) \in Array /\ Tail(s.inbound) \in Seq(Array) /\ Len(s.inbound) \in Nat \ {0}
      /\ Len(Tail(s.inbound)) = Len(s.inbound) - 1 /\ <<Head(s.inbound)>> \o Tail(s.inbound) = s.inbound
  BY SockTypes, First
<1>2. /\ t.wire = s.wire /\ t.closed = s.closed /\ t.reader = s.reader /\ t.toCms = s.toCms /\ t.reply = s.reply
      /\ t.toCharger = s.toCharger /\ t.hand = s.hand /\ t.inbound = Tail(s.inbound) /\ t \in SockType
  BY <1>1 DEF SockInv, SockType
<1> HIDE DEF t
<1>3. SockInv(t)
  <2>1. /\ Len(t.toCms) <= WireCap /\ Len(t.reply) <= 1 /\ Len(t.toCharger) <= WireCap
        /\ Len(t.hand) <= 1 /\ Len(t.inbound) <= InCap /\ (t.hand # <<>> => t.reader = "reading")
        /\ (t.closed \/ t.reader = "exited" => t.wire = "cut")
    BY <1>1, <1>2, SockBounds
  <2> QED
    BY <1>2, <2>1 DEF SockInv
<1>4. QueueOf(s) # <<>> /\ QueueOf(t) = Tail(QueueOf(s))
  <2>1. r \in Seq(Array) /\ s.inbound \in Seq(Array)
    BY SockTypes, ConcatProperties
  <2>2. QueueOf(s) = s.inbound \o r /\ QueueOf(t) = Tail(s.inbound) \o r
    BY <1>2, <1>3, SockTypes
  <2> HIDE DEF r
  <2>3. s.inbound \o r # <<>>
    BY <1>1, <2>1, ConcatEqualIffEmpty
  <2>4. Tail(s.inbound \o r) = Tail(s.inbound) \o r
    BY <2>1, TailOfConcat
  <2> QED
    BY <2>2, <2>3, <2>4
<1>5. Follows(s, t)
  BY <1>2, <1>3, <1>4 DEF Follows, LinkStep
<1> QED
  BY <1>1, <1>5 DEF t
-----------------------------------------------------------------------------
(* The invariant                                                           *)

LinkTypes ==
  /\ mode \in {"dialing", "select", "backoff", "exited"}
  /\ conn \in 0 .. MaxConn /\ sel \in 0 .. conn /\ offline \in BOOLEAN
  /\ pending \subseteq Ids /\ outbox \in Seq(Array) /\ Len(outbox) <= 2
  /\ askedOn \in [Ids -> 0 .. MaxConn] /\ ran \in [Ids -> Nat] /\ extra \in 0 .. MaxExtra

Socks == sock \in [Conns -> SockType] /\ \A c \in Conns : SockInv(sock[c])

\* A CALL that waits was sent on the present connection and has not been
\* settled, and an id that was never used has not been settled either.
Asked ==
  \A i \in Ids : /\ i \in pending => askedOn[i] = conn /\ ran[i] = 0
                 /\ askedOn[i] = 0 => ran[i] = 0

\* The actor has at most one CALL, which it is still sending.
Lonely == \/ outbox = <<>> /\ pending = {}
          \/ \E i \in Ids : pending = {i} /\ outbox = <<CallFrame(i)>>

\* Run selects on the present connection or on none; while it backs off, or is
\* offline, the old connection is broken and its CALLs are forgotten.
Phase ==
  /\ mode \in {"dialing", "backoff"} => ~offline /\ Lonely
  /\ mode = "select" => /\ conn # 0 /\ sel \in {0, conn} /\ (~offline => sel = conn)
                        /\ offline => sock[conn].closed /\ Lonely
  /\ mode = "backoff" => conn # 0 /\ (outbox = <<>> => sock[conn].wire = "cut")
  /\ mode = "exited" => outbox = <<>>
  /\ conn = 0 => outbox = <<>>

LinkInv == LinkTypes /\ Socks /\ Asked /\ Phase

-----------------------------------------------------------------------------
(* The clients of a charger                                                *)

\* What the abstract link sees.
LinkView == <<Current.wire = "up", Current.inbound \o Current.hand \o Current.toCharger>>

\* A step of the current client is a step of the abstract link.
LEMMA LinkStepIsFifo ==
  ASSUME LinkStep(Current, Current')
  PROVE  [Fifo!Next]_LinkView
<1> DEFINE u == Current.wire = "up"
           q == Current.inbound \o Current.hand \o Current.toCharger
<1>1. QueueOf(Current) = q /\ QueueOf(Current') = q'
  BY DEF QueueOf
<1>2. LinkView = <<u, q>> /\ LinkView' = <<u', q'>>
  BY DEF LinkView
<1>3. \/ u' = u /\ q' = q
      \/ u /\ u' /\ q' # <<>> /\ SubSeq(q', 1, Len(q') - 1) = q
      \/ u' = u /\ q # <<>> /\ q' = Tail(q)
      \/ u /\ ~u' /\ q' = q
      \/ ~u /\ ~u' /\ Len(q') <= Len(q) /\ SubSeq(q', 1, Len(q')) = SubSeq(q, 1, Len(q'))
  BY <1>1 DEF LinkStep
<1>4. u \in BOOLEAN /\ u' \in BOOLEAN
  OBVIOUS
<1>5. Fifo!Next <=> \/ u /\ q' # <<>> /\ SubSeq(q', 1, Len(q') - 1) = q /\ u' = u
                    \/ q # <<>> /\ q' = Tail(q) /\ u' = u
                    \/ u /\ u' = FALSE /\ q' = q
                    \/ ~u /\ (Len(q') <= Len(q) /\ SubSeq(q', 1, Len(q')) = SubSeq(q, 1, Len(q'))) /\ u' = u
                    \/ ~u /\ u' = TRUE /\ q' = <<>>
  BY DEF Fifo!Next, Fifo!Write, Fifo!Take, Fifo!Break, Fifo!Lose, Fifo!Renew, Fifo!Front, Fifo!IsPrefix
<1> HIDE DEF u, q
<1> QED
  BY <1>2, <1>3, <1>4, <1>5

\* While the actor keeps its connection, a step of one client keeps the
\* invariant of all of them, and is a step of the abstract link or of nobody.
LEMMA ClientStep ==
  ASSUME Socks, conn \in 0 .. MaxConn, conn' = conn,
         NEW c \in Conns, NEW t, Follows(sock[c], t), sock' = [sock EXCEPT ![c] = t]
  PROVE  /\ Socks' /\ [Fifo!Next]_LinkView
         /\ \A d \in Conns : /\ sock[d].closed => sock'[d].closed
                             /\ sock[d].wire = "cut" => sock'[d].wire = "cut"
<1>1. t \in SockType /\ SockInv(t) /\ LinkStep(sock[c], t)
  BY DEF Follows, SockInv
<1>2. sock \in [Conns -> SockType] /\ sock' \in [Conns -> SockType]
  BY <1>1 DEF Socks
<1>3. \A d \in Conns : sock'[d] = IF d = c THEN t ELSE sock[d]
  BY <1>2
<1>4. \A d \in Conns : SockInv(sock'[d])
  BY <1>1, <1>3 DEF Socks
<1>5. \A d \in Conns : /\ sock[d].closed => sock'[d].closed
                       /\ sock[d].wire = "cut" => sock'[d].wire = "cut"
  BY <1>3 DEF Follows
<1>6. LinkStep(Current, Current')
  <2>1. CASE c = conn
    <3>1. conn # 0
      BY <2>1, CapacityAssumption DEF Conns
    <3>2. Current = sock[c] /\ Current' = t
      BY <1>3, <2>1, <3>1 DEF Current
    <3> QED
      BY <1>1, <3>2
  <2>2. CASE c # conn
    <3>1. conn = 0 \/ conn \in Conns
      BY CapacityAssumption DEF Conns
    <3>2. Current' = Current
      BY <1>3, <2>2, <3>1 DEF Current
    <3> QED
      BY <3>2 DEF LinkStep
  <2> QED
    BY <2>1, <2>2
<1> QED
  BY <1>2, <1>4, <1>5, <1>6, LinkStepIsFifo DEF Socks

\* What touches no client is a step of nobody.
LEMMA NoClientStep ==
  ASSUME Socks, conn' = conn, sock' = sock
  PROVE  Socks' /\ [Fifo!Next]_LinkView
<1>1. Socks'
  BY DEF Socks
<1>2. LinkView' = LinkView
  BY DEF LinkView, Current
<1> QED
  BY <1>1, <1>2

\* A dial replaces a broken link by one that holds nothing.
LEMMA DialStep ==
  ASSUME Socks, conn \in 0 .. MaxConn, conn < MaxConn, conn = 0 \/ sock[conn].wire = "cut",
         conn' = conn + 1, sock' = [sock EXCEPT ![conn + 1] = Connected]
  PROVE  Socks' /\ [Fifo!Next]_LinkView
<1>1. /\ Connected.wire = "up" /\ ~Connected.closed /\ Connected.reader = "reading"
      /\ Connected.toCms = <<>> /\ Connected.reply = <<>> /\ Connected.toCharger = <<>>
      /\ Connected.hand = <<>> /\ Connected.inbound = <<>> /\ Connected \in SockType
  BY Few DEF Connected, NewSock, SockType
<1>2. SockInv(Connected)
  <2>1. Len(<<>>) = 0 /\ 0 <= 1 /\ 0 <= InCap /\ 0 <= WireCap
    BY Few, CapacityAssumption
  <2> QED
    BY <1>1, <2>1 DEF SockInv
<1>3. conn + 1 \in Conns /\ conn + 1 # 0
  BY CapacityAssumption DEF Conns
<1>4. sock' \in [Conns -> SockType] /\ sock'[conn + 1] = Connected
      /\ \A d \in Conns : sock'[d] = IF d = conn + 1 THEN Connected ELSE sock[d]
  BY <1>1, <1>3 DEF Socks
<1>5. Socks'
  BY <1>2, <1>4 DEF Socks
<1>6. Current' = Connected /\ Current.wire # "up"
  BY <1>3, <1>4 DEF Current, NewSock
<1>7. (Current.wire = "up")' = TRUE /\ (Current.inbound \o Current.hand \o Current.toCharger)' = <<>>
  BY <1>1, <1>6, Few
<1>8. Fifo!Renew
  BY <1>6, <1>7 DEF Fifo!Renew
<1> QED
  BY <1>5, <1>8 DEF Fifo!Next
-----------------------------------------------------------------------------
(* The steps of the network, the read loops and the CMS                    *)

\* A callback runs at most once, for a reply over the connection of its CALL.
SettlesFirst == \A i \in Ids : ran'[i] # ran[i] => ran[i] = 0 /\ askedOn[i] = sel

\* What is shown of every step.
Sound == LinkInv' /\ SettlesFirst /\ [Fifo!Next]_LinkView

\* A step of one client that the actor takes no part in.
LEMMA EnvironmentStep ==
  ASSUME LinkInv, NEW c \in Conns, NEW t, Follows(sock[c], t), sock' = [sock EXCEPT ![c] = t],
         UNCHANGED actor, extra' \in 0 .. MaxExtra
  PROVE  Sound
<1>1. /\ mode' = mode /\ conn' = conn /\ sel' = sel /\ offline' = offline /\ pending' = pending
      /\ outbox' = outbox /\ askedOn' = askedOn /\ ran' = ran
  BY DEF actor
<1>2. /\ Socks' /\ [Fifo!Next]_LinkView
      /\ \A d \in Conns : /\ sock[d].closed => sock'[d].closed
                          /\ sock[d].wire = "cut" => sock'[d].wire = "cut"
  BY <1>1, ClientStep DEF LinkInv, LinkTypes
<1>3. LinkTypes' /\ Asked'
  BY <1>1 DEF LinkInv, LinkTypes, Asked
<1>4. conn # 0 => conn \in Conns
  BY CapacityAssumption DEF LinkInv, LinkTypes, Conns
<1>5. Phase'
  BY <1>1, <1>2, <1>4 DEF LinkInv, Phase, Lonely
<1>6. SettlesFirst
  BY <1>1 DEF SettlesFirst
<1> QED
  BY <1>2, <1>3, <1>5, <1>6 DEF Sound, LinkInv

\* The network and the read loops.
LEMMA ReadLoopSteps ==
  ASSUME LinkInv, NEW c \in Conns, UNCHANGED <<actor, extra>>,
         ReadFrame(c) \/ Deliver(c) \/ ReadFails(c) \/ Abandon(c) \/ Cut(c)
  PROVE  Sound
<1> DEFINE s == sock[c]
<1>1. SockInv(s) /\ sock \in [Conns -> SockType]
  BY DEF LinkInv, Socks
<1>2. extra' \in 0 .. MaxExtra /\ UNCHANGED actor
  BY DEF LinkInv, LinkTypes
<1>3. CASE ReadFrame(c)
  <2>1. /\ s.reader = "reading" /\ s.hand = <<>> /\ s.toCharger # <<>>
        /\ sock' = [sock EXCEPT ![c] = [s EXCEPT !.hand = <<Head(s.toCharger)>>, !.toCharger = Tail(s.toCharger)]]
    BY <1>1, <1>3 DEF ReadFrame
  <2> QED
    BY <1>1, <1>2, <2>1, ReadStep, EnvironmentStep
<1>4. CASE Deliver(c)
  <2>1. /\ s.hand # <<>> /\ Len(s.inbound) < InCap
        /\ sock' = [sock EXCEPT ![c] = [s EXCEPT !.hand = <<>>, !.inbound = @ \o s.hand]]
    BY <1>1, <1>4 DEF Deliver
  <2> QED
    BY <1>1, <1>2, <2>1, DeliverStep, EnvironmentStep
<1>5. CASE ReadFails(c) \/ Abandon(c)
  <2>1. s.wire = "cut" /\ sock' = [sock EXCEPT ![c] = Exited(s)]
    BY <1>1, <1>5, SockBounds DEF ReadFails, Abandon
  <2> QED
    BY <1>1, <1>2, <2>1, ExitStep, EnvironmentStep
<1>6. CASE Cut(c)
  <2>1. sock' = [sock EXCEPT ![c] = Broken(s)]
    BY <1>6 DEF Cut
  <2> QED
    BY <1>1, <1>2, <2>1, BreakStep, EnvironmentStep
<1> QED
  BY <1>3, <1>4, <1>5, <1>6

\* The CMS.
LEMMA CmsSteps ==
  ASSUME LinkInv, NEW c \in Conns, CmsReads(c) \/ CmsWrites(c) \/ CmsSends(c)
  PROVE  Sound
<1> DEFINE s == sock[c]
<1>1. SockInv(s) /\ sock \in [Conns -> SockType]
  BY DEF LinkInv, Socks
<1>2. /\ s.toCms \in Seq(Array) /\ s.reply \in Seq(Array) /\ s.toCharger \in Seq(Array)
  BY <1>1, SockTypes
<1>3. CASE CmsReads(c)
  <2> DEFINE f == Decode(Head(s.toCms))
             p == IF f.type = "CALL" THEN <<HandleCall(f)>> ELSE <<>>
  <2>1. s.toCms # <<>> /\ UNCHANGED actor /\ extra' = extra
        /\ sock' = [sock EXCEPT ![c] = [s EXCEPT !.toCms = Tail(s.toCms), !.reply = p]]
    BY <1>1, <1>3 DEF CmsReads
  <2>2. Head(s.toCms) \in Array /\ Tail(s.toCms) \in Seq(Array) /\ Len(Tail(s.toCms)) <= WireCap
    <3>1. /\ Head(s.toCms) \in Array /\ Tail(s.toCms) \in Seq(Array)
          /\ Len(s.toCms) \in Nat /\ Len(Tail(s.toCms)) = Len(s.toCms) - 1
      BY <1>2, <2>1, First
    <3> QED
      BY <1>1, <3>1, SockBounds
  <2>3. p \in Seq(Array) /\ Len(p) <= 1
    <3>1. CASE f.type = "CALL"
      <4>1. HandleCall(f) \in Array
        BY <2>2, <3>1, ReplyType
      <4> HIDE DEF f
      <4> QED
        BY <3>1, <4>1, Few
    <3>2. CASE f.type # "CALL"
      BY <3>2, Few
    <3> QED
      BY <3>1, <3>2
  <2> HIDE DEF f, p
  <2>4. Follows(s, [s EXCEPT !.toCms = Tail(s.toCms), !.reply = p])
    BY <1>1, <2>2, <2>3, OtherWay
  <2>5. extra' \in 0 .. MaxExtra
    BY <2>1 DEF LinkInv, LinkTypes
  <2> QED
    BY <2>1, <2>4, <2>5, EnvironmentStep
<1>4. CASE CmsWrites(c)
  <2>1. /\ s.wire = "up" /\ s.reply # <<>> /\ Len(s.toCharger) < WireCap /\ UNCHANGED actor /\ extra' = extra
        /\ sock' = [sock EXCEPT ![c] = [s EXCEPT !.reply = <<>>, !.toCharger = @ \o s.reply]]
    BY <1>1, <1>4 DEF CmsWrites
  <2>2. PICK f \in Array : s.reply = <<f>>
    <3> DEFINE r == s.reply
    <3>1. r \in Seq(Array) /\ r # <<>> /\ Len(r) <= 1
      BY <1>1, <1>2, <2>1, SockBounds
    <3> HIDE DEF r
    <3>2. Head(r) \in Array /\ Tail(r) \in Seq(Array) /\ Len(r) \in Nat \ {0} /\ Len(Tail(r)) = Len(r) - 1 /\ <<Head(r)>> \o Tail(r) = r
      BY <3>1, First
    <3>3. Tail(r) = <<>>
      BY <3>1, <3>2, EmptySeq
    <3>4. <<Head(r)>> = r
      BY <3>2, <3>3, Few
    <3> QED
      BY <3>2, <3>4 DEF r
  <2>3. s.toCharger \o s.reply = Append(s.toCharger, f)
    BY <1>2, <2>2, Added
  <2>4. sock' = [sock EXCEPT ![c] = [s EXCEPT !.reply = <<>>, !.toCharger = Append(@, f)]]
    BY <2>1, <2>3
  <2>5. Follows(s, [s EXCEPT !.reply = <<>>, !.toCharger = Append(@, f)])
    <3>1. <<>> \in Seq(Array) /\ Len(<<>>) <= 1
      BY Few
    <3> QED
      BY <1>1, <2>1, <3>1, WriteStep
  <2>6. extra' \in 0 .. MaxExtra
    BY <2>1 DEF LinkInv, LinkTypes
  <2> QED
    BY <2>1, <2>4, <2>5, <2>6, EnvironmentStep
<1>5. CASE CmsSends(c)
  <2>1. s.wire = "up" /\ Len(s.toCharger) < WireCap /\ UNCHANGED actor /\ extra < MaxExtra /\ extra' = extra + 1
    BY <1>5 DEF CmsSends
  <2>2. extra' \in 0 .. MaxExtra
    <3>1. extra \in 0 .. MaxExtra /\ MaxExtra \in Nat
      BY BoundsAssumption DEF LinkInv, LinkTypes
    <3> QED
      BY <2>1, <3>1
  <2>3. PICK f \in CmsCalls
                   \cup {Marshal(CallResult(i, EmptyObject)) : i \in Ids \ Unused}
                   \cup {Marshal(CallError(i, "GenericError", "", EmptyObject)) : i \in Ids \ Unused} :
               sock' = [sock EXCEPT ![c].toCharger = Append(@, f)]
    BY <1>5 DEF CmsSends
  <2>4. f \in Array
    BY <2>3, ExtraType
  <2>5. [s EXCEPT !.reply = s.reply, !.toCharger = Append(@, f)] = [s EXCEPT !.toCharger = Append(@, f)]
    BY <1>1 DEF SockInv, SockType
  <2>6. sock' = [sock EXCEPT ![c] = [s EXCEPT !.reply = s.reply, !.toCharger = Append(@, f)]]
    BY <1>1, <2>3, <2>5
  <2>7. Follows(s, [s EXCEPT !.reply = s.reply, !.toCharger = Append(@, f)])
    BY <1>1, <1>2, <2>1, <2>4, SockBounds, WriteStep
  <2> QED
    BY <2>1, <2>2, <2>6, <2>7, EnvironmentStep
<1> QED
  BY <1>3, <1>4, <1>5
-----------------------------------------------------------------------------
(* The steps of the actor                                                  *)

\* call takes an id that was never used.
LEMMA AskStep ==
  ASSUME LinkInv, NEW c \in Conns, NEW waiting \in SUBSET Ids,
         NEW before \in Seq(Array), Len(before) <= 1, Ask(c, waiting, before)
  PROVE  \E i \in Ids :
           /\ askedOn[i] = 0 /\ ran[i] = 0
           /\ pending' = waiting \cup {i} /\ pending' \subseteq Ids
           /\ outbox' = Append(before, CallFrame(i)) /\ outbox' \in Seq(Array) /\ Len(outbox') <= 2
           /\ askedOn' \in [Ids -> 0 .. MaxConn]
           /\ \A j \in Ids : askedOn'[j] = IF j = i THEN c ELSE askedOn[j]
<1> DEFINE i == CHOOSE i \in Unused : TRUE
<1>1. /\ i \in Unused /\ pending' = waiting \cup {i}
      /\ outbox' = Append(before, CallFrame(i)) /\ askedOn' = [askedOn EXCEPT ![i] = c]
  BY DEF Ask
<1> HIDE DEF i
<1>2. i \in Ids /\ askedOn[i] = 0 /\ ran[i] = 0
  BY <1>1 DEF Unused, LinkInv, Asked
<1>3. outbox' \in Seq(Array) /\ Len(outbox') <= 2
  <2>1. CallFrame(i) \in Array /\ Len(before) \in Nat
    BY <1>2, CallFrameType, LenProperties
  <2>2. Append(before, CallFrame(i)) \in Seq(Array) /\ Len(Append(before, CallFrame(i))) = Len(before) + 1
    BY <2>1, Added
  <2> QED
    BY <1>1, <2>1, <2>2
<1>4. askedOn \in [Ids -> 0 .. MaxConn] /\ c \in 0 .. MaxConn
  BY CapacityAssumption DEF LinkInv, LinkTypes, Conns
<1>5. askedOn' \in [Ids -> 0 .. MaxConn] /\ \A j \in Ids : askedOn'[j] = IF j = i THEN c ELSE askedOn[j]
  BY <1>1, <1>2, <1>4
<1> QED
  BY <1>1, <1>2, <1>3, <1>5

\* A single CALL, when nothing waits and nothing is to be sent.
LEMMA LoneAskStep ==
  ASSUME LinkInv, NEW c \in Conns, Ask(c, {}, <<>>)
  PROVE  /\ Lonely' /\ outbox' # <<>> /\ outbox' \in Seq(Array) /\ Len(outbox') <= 2
         /\ pending' \subseteq Ids /\ askedOn' \in [Ids -> 0 .. MaxConn]
         /\ \A i \in Ids : /\ i \in pending' => askedOn'[i] = c /\ ran[i] = 0
                           /\ askedOn'[i] = 0 => ran[i] = 0
<1>1. <<>> \in Seq(Array) /\ Len(<<>>) <= 1 /\ {} \in SUBSET Ids
  BY Few
<1>2. PICK i \in Ids :
        /\ askedOn[i] = 0 /\ ran[i] = 0
        /\ pending' = {} \cup {i} /\ pending' \subseteq Ids
        /\ outbox' = Append(<<>>, CallFrame(i)) /\ outbox' \in Seq(Array) /\ Len(outbox') <= 2
        /\ askedOn' \in [Ids -> 0 .. MaxConn]
        /\ \A j \in Ids : askedOn'[j] = IF j = i THEN c ELSE askedOn[j]
  BY <1>1, AskStep
<1>3. outbox' = <<CallFrame(i)>> /\ outbox' # <<>>
  BY <1>2
<1>4. pending' = {i}
  BY <1>2
<1>5. Lonely'
  BY <1>3, <1>4 DEF Lonely, CallFrame
<1>6. c # 0
  BY CapacityAssumption DEF Conns
<1> QED
  BY <1>2, <1>3, <1>4, <1>5, <1>6 DEF LinkInv, Asked

\* While Run selects there is a client; online it selects on that one, and
\* offline that one is closed.
LEMMA SelectTypes ==
  ASSUME LinkInv, mode = "select"
  PROVE  /\ conn \in Conns /\ conn # 0 /\ sel \in {0, conn} /\ sock \in [Conns -> SockType] /\ SockInv(sock[conn])
         /\ (~offline => sel = conn) /\ (offline => sock[conn].closed /\ sock[conn].wire = "cut" /\ Lonely)
<1>1. conn # 0 /\ sel \in {0, conn} /\ (~offline => sel = conn) /\ (offline => sock[conn].closed /\ Lonely)
  BY DEF LinkInv, Phase
<1>2. conn \in Conns
  BY <1>1, CapacityAssumption DEF LinkInv, LinkTypes, Conns
<1>3. sock \in [Conns -> SockType] /\ SockInv(sock[conn])
  BY <1>2 DEF LinkInv, Socks
<1>4. sock[conn].closed => sock[conn].wire = "cut"
  BY <1>3, SockBounds
<1> QED
  BY <1>1, <1>2, <1>3, <1>4

\* A command or a tick.
LEMMA SendCallStep ==
  ASSUME LinkInv, SendCall
  PROVE  Sound
<1>1. /\ mode = "select" /\ outbox = <<>> /\ Ask(conn, pending, <<>>)
      /\ sock' = sock /\ mode' = mode /\ conn' = conn /\ sel' = sel /\ offline' = offline /\ ran' = ran /\ extra' = extra
  BY DEF SendCall, Idle
<1>2. /\ conn \in Conns /\ conn # 0 /\ sel \in {0, conn}
      /\ (~offline => sel = conn) /\ (offline => sock[conn].closed /\ Lonely)
  BY <1>1, SelectTypes
<1>3. pending \in SUBSET Ids /\ <<>> \in Seq(Array) /\ Len(<<>>) <= 1
  BY Few DEF LinkInv, LinkTypes
<1>4. PICK i \in Ids :
           /\ askedOn[i] = 0 /\ ran[i] = 0
           /\ pending' = pending \cup {i} /\ pending' \subseteq Ids
           /\ outbox' = Append(<<>>, CallFrame(i)) /\ outbox' \in Seq(Array) /\ Len(outbox') <= 2
           /\ askedOn' \in [Ids -> 0 .. MaxConn]
           /\ \A j \in Ids : askedOn'[j] = IF j = i THEN conn ELSE askedOn[j]
  BY <1>1, <1>2, <1>3, AskStep
<1>5. LinkTypes'
  BY <1>1, <1>4 DEF LinkInv, LinkTypes
<1>6. Asked'
  BY <1>1, <1>2, <1>4 DEF LinkInv, Asked
<1>7. offline => Lonely'
  <2>1. ASSUME offline PROVE pending = {}
    BY <1>1, <1>2, <2>1 DEF Lonely
  <2>2. outbox' = <<CallFrame(i)>>
    BY <1>4
  <2> QED
    BY <1>4, <2>1, <2>2 DEF Lonely, CallFrame
<1>8. Phase'
  BY <1>1, <1>2, <1>7 DEF Phase
<1>9. Socks' /\ [Fifo!Next]_LinkView
  BY <1>1, NoClientStep DEF LinkInv
<1> QED
  BY <1>1, <1>5, <1>6, <1>8, <1>9 DEF Sound, LinkInv, SettlesFirst

\* What is in the outbox is sent on a client there is.
LEMMA SendTypes ==
  ASSUME LinkInv, outbox # <<>>
  PROVE  /\ conn \in Conns /\ conn # 0 /\ mode # "exited"
         /\ Head(outbox) \in Array /\ Tail(outbox) \in Seq(Array) /\ Len(Tail(outbox)) <= 2
         /\ Lonely => /\ Tail(outbox) = <<>>
                      /\ \E i \in Ids : pending = {i} /\ Decode(Head(outbox)).id = i
         /\ sock \in [Conns -> SockType] /\ SockInv(sock[conn])
<1>1. conn # 0 /\ mode # "exited" /\ outbox \in Seq(Array) /\ Len(outbox) <= 2
  BY DEF LinkInv, LinkTypes, Phase
<1>2. conn \in Conns
  BY <1>1, CapacityAssumption DEF LinkInv, LinkTypes, Conns
<1>3. sock \in [Conns -> SockType] /\ SockInv(sock[conn])
  BY <1>2 DEF LinkInv, Socks
<1>4. Head(outbox) \in Array /\ Tail(outbox) \in Seq(Array) /\ Len(outbox) \in Nat \ {0} /\ Len(Tail(outbox)) = Len(outbox) - 1
  BY <1>1, First
<1>5. ASSUME Lonely
      PROVE  Tail(outbox) = <<>> /\ \E i \in Ids : pending = {i} /\ Decode(Head(outbox)).id = i
  <2>1. PICK i \in Ids : pending = {i} /\ outbox = <<CallFrame(i)>>
    BY <1>5 DEF Lonely
  <2>2. CallFrame(i) \in Array /\ Decode(CallFrame(i)).id = i
    BY CallFrameType
  <2>3. Head(outbox) = CallFrame(i) /\ Tail(outbox) = <<>>
    BY <2>1, <2>2, Few
  <2> QED
    BY <2>1, <2>2, <2>3
<1>6. Len(Tail(outbox)) <= 2
  BY <1>1, <1>4
<1> QED
  BY <1>1, <1>2, <1>3, <1>4, <1>5, <1>6
\* What Send leaves of its client.
LEMMA WrittenStep ==
  ASSUME NEW s, SockInv(s), NEW f \in Array, NEW t \in Written(s, f)
  PROVE  Follows(s, t) /\ ~s.closed
<1>1. CASE s.wire = "up" /\ Len(s.toCms) < WireCap
  <2>1. t = [s EXCEPT !.toCms = Append(@, f)]
    BY <1>1 DEF Written
  <2>2. /\ Append(s.toCms, f) \in Seq(Array) /\ Len(Append(s.toCms, f)) = Len(s.toCms) + 1
    BY SockTypes, Added
  <2>3. Len(Append(s.toCms, f)) <= WireCap
    BY <1>1, <2>2, SockBounds
  <2>4. Follows(s, [s EXCEPT !.toCms = Append(s.toCms, f), !.reply = s.reply])
    BY <2>2, <2>3, SockTypes, SockBounds, OtherWay
  <2>5. t = [s EXCEPT !.toCms = Append(s.toCms, f), !.reply = s.reply]
    BY <2>1 DEF SockInv, SockType
  <2> QED
    BY <1>1, <2>4, <2>5, SockBounds
<1>2. CASE ~(s.wire = "up" /\ Len(s.toCms) < WireCap)
  <2>1. t = s /\ ~s.closed
    BY <1>2 DEF Written
  <2>2. Follows(s, s)
    BY DEF Follows, LinkStep
  <2> QED
    BY <2>1, <2>2
<1> QED
  BY <1>1, <1>2

\* Send returns.
LEMMA SendReturnsStep ==
  ASSUME LinkInv, SendReturns
  PROVE  Sound
<1>1. /\ outbox # <<>> /\ outbox' = Tail(outbox)
      /\ conn' = conn /\ offline' = offline /\ pending' = pending /\ askedOn' = askedOn /\ ran' = ran /\ extra' = extra
      /\ IF mode = "select" THEN mode' = mode /\ sel' = sel ELSE mode' = "select" /\ sel' = conn
  BY DEF SendReturns
<1>2. /\ conn \in Conns /\ conn # 0 /\ mode # "exited"
      /\ Head(outbox) \in Array /\ Tail(outbox) \in Seq(Array) /\ Len(Tail(outbox)) <= 2
      /\ sock \in [Conns -> SockType] /\ SockInv(sock[conn])
  BY <1>1, SendTypes
<1>3. PICK t \in Written(sock[conn], Head(outbox)) : sock' = [sock EXCEPT ![conn] = t]
  BY DEF SendReturns
<1>4. Follows(sock[conn], t) /\ ~sock[conn].closed
  BY <1>2, <1>3, WrittenStep
<1>5. /\ Socks' /\ [Fifo!Next]_LinkView
  BY <1>1, <1>2, <1>3, <1>4, ClientStep DEF LinkInv, LinkTypes
<1>6. ~offline /\ mode' = "select" /\ sel' = conn
  BY <1>1, <1>2, <1>4 DEF LinkInv, LinkTypes, Phase
<1>7. LinkTypes'
  BY <1>1, <1>2, <1>6 DEF LinkInv, LinkTypes
<1>8. Asked' /\ SettlesFirst
  BY <1>1 DEF LinkInv, Asked, SettlesFirst
<1>9. Phase'
  BY <1>1, <1>2, <1>6 DEF Phase
<1> QED
  BY <1>5, <1>7, <1>8, <1>9 DEF Sound, LinkInv

\* Send fails.
LEMMA SendErrorStep ==
  ASSUME LinkInv, SendReturnsError
  PROVE  Sound
<1>1. /\ outbox # <<>> /\ outbox' = Tail(outbox) /\ sock[conn].wire = "cut"
      /\ pending' = pending \ {Decode(Head(outbox)).id}
      /\ sock' = IF mode = "select" THEN sock ELSE [sock EXCEPT ![conn] = Closed(@)]
      /\ mode' = IF mode = "dialing" THEN "exited" ELSE mode
      /\ conn' = conn /\ sel' = sel /\ offline' = offline /\ askedOn' = askedOn /\ ran' = ran /\ extra' = extra
  BY DEF SendReturnsError, SendFails
<1>2. /\ conn \in Conns /\ conn # 0 /\ mode # "exited"
      /\ Tail(outbox) \in Seq(Array) /\ Len(Tail(outbox)) <= 2
      /\ sock \in [Conns -> SockType] /\ SockInv(sock[conn])
      /\ Lonely => /\ Tail(outbox) = <<>>
                   /\ \E i \in Ids : pending = {i} /\ Decode(Head(outbox)).id = i
  BY <1>1, SendTypes
<1>3. pending' \subseteq pending
  BY <1>1
<1>4. Lonely => outbox' = <<>> /\ pending' = {}
  BY <1>1, <1>2
<1>5. /\ Socks' /\ [Fifo!Next]_LinkView
      /\ sock[conn].closed => sock'[conn].closed
      /\ sock'[conn].wire = "cut"
  <2>1. CASE mode = "select"
    BY <1>1, <2>1, NoClientStep DEF LinkInv
  <2>2. CASE mode # "select"
    <3>1. Follows(sock[conn], Closed(sock[conn])) /\ sock' = [sock EXCEPT ![conn] = Closed(sock[conn])]
      BY <1>1, <1>2, <2>2, BreakStep
    <3> QED
      BY <1>1, <1>2, <3>1, ClientStep DEF LinkInv, LinkTypes
  <2> QED
    BY <2>1, <2>2
<1>6. LinkTypes'
  BY <1>1, <1>2, <1>3 DEF LinkInv, LinkTypes
<1>7. Asked' /\ SettlesFirst
  BY <1>1, <1>3 DEF LinkInv, Asked, SettlesFirst
<1>8. Phase'
  <2>1. mode \in {"dialing", "backoff"} => ~offline /\ Lonely
    BY DEF LinkInv, Phase
  <2>2. mode = "select" => conn # 0 /\ sel \in {0, conn} /\ (~offline => sel = conn) /\ (offline => sock[conn].closed /\ Lonely)
    BY DEF LinkInv, Phase
  <2>3. Lonely => Lonely'
    BY <1>4 DEF Lonely
  <2> QED
    BY <1>1, <1>2, <1>4, <1>5, <2>1, <2>2, <2>3 DEF Phase
<1> QED
  BY <1>5, <1>6, <1>7, <1>8 DEF Sound, LinkInv

\* A dial from a broken link, with no CALL waiting: the boot is to be sent.
LEMMA DialTypes ==
  ASSUME LinkInv, Dial, pending = {}, conn = 0 \/ sock[conn].wire = "cut"
  PROVE  /\ Socks' /\ [Fifo!Next]_LinkView /\ Asked' /\ SettlesFirst /\ Lonely'
         /\ conn' \in 0 .. MaxConn /\ conn' = conn + 1 /\ conn' # 0 /\ sel \in 0 .. conn'
         /\ outbox' # <<>> /\ outbox' \in Seq(Array) /\ Len(outbox') <= 2
         /\ pending' \subseteq Ids /\ askedOn' \in [Ids -> 0 .. MaxConn] /\ ran' = ran /\ extra' = extra
<1>1. /\ conn < MaxConn /\ conn' = conn + 1 /\ sock' = [sock EXCEPT ![conn + 1] = Connected]
      /\ Ask(conn + 1, {}, <<>>) /\ ran' = ran /\ extra' = extra
  BY DEF Dial
<1>2. Socks /\ conn \in 0 .. MaxConn /\ sel \in 0 .. conn
  BY DEF LinkInv, LinkTypes
<1>3. conn + 1 \in Conns /\ conn' \in 0 .. MaxConn /\ conn' # 0 /\ sel \in 0 .. conn'
  BY <1>1, <1>2, CapacityAssumption DEF Conns
<1>4. Socks' /\ [Fifo!Next]_LinkView
  BY <1>1, <1>2, DialStep
<1>5. /\ Lonely' /\ outbox' # <<>> /\ outbox' \in Seq(Array) /\ Len(outbox') <= 2
      /\ pending' \subseteq Ids /\ askedOn' \in [Ids -> 0 .. MaxConn]
      /\ \A i \in Ids : /\ i \in pending' => askedOn'[i] = conn + 1 /\ ran[i] = 0
                        /\ askedOn'[i] = 0 => ran[i] = 0
  BY <1>1, <1>3, LoneAskStep
<1>6. Asked' /\ SettlesFirst
  BY <1>1, <1>5 DEF Asked, SettlesFirst
<1> QED
  BY <1>1, <1>3, <1>4, <1>5, <1>6
\* The first connection.
LEMMA RunConnectStep ==
  ASSUME LinkInv, RunConnect
  PROVE  Sound
<1>1. mode = "dialing" /\ conn = 0 /\ ~offline /\ outbox = <<>> /\ pending = {}
  BY DEF RunConnect, LinkInv, Phase, Lonely
<1>2. CASE Dial /\ UNCHANGED <<mode, sel, offline>>
  <2>1. mode' = "dialing" /\ sel' = sel /\ ~offline' /\ offline' = offline
    BY <1>1, <1>2
  <2>2. /\ Socks' /\ [Fifo!Next]_LinkView /\ Asked' /\ SettlesFirst /\ Lonely'
        /\ conn' \in 0 .. MaxConn /\ conn' # 0 /\ sel \in 0 .. conn'
        /\ outbox' # <<>> /\ outbox' \in Seq(Array) /\ Len(outbox') <= 2
        /\ pending' \subseteq Ids /\ askedOn' \in [Ids -> 0 .. MaxConn] /\ ran' = ran /\ extra' = extra
    BY <1>1, <1>2, DialTypes
  <2>3. LinkTypes'
    BY <2>1, <2>2 DEF LinkInv, LinkTypes
  <2>4. Phase'
    BY <2>1, <2>2 DEF Phase
  <2> QED
    BY <2>2, <2>3, <2>4 DEF Sound, LinkInv
<1>3. CASE /\ mode' = "exited"
           /\ UNCHANGED <<sock, conn, sel, offline, pending, outbox, askedOn, ran, extra>>
  <2>1. Socks' /\ [Fifo!Next]_LinkView
    BY <1>3, NoClientStep DEF LinkInv
  <2>2. LinkTypes' /\ Asked' /\ SettlesFirst
    BY <1>3 DEF LinkInv, LinkTypes, Asked, SettlesFirst
  <2>3. Phase'
    BY <1>1, <1>3 DEF Phase
  <2> QED
    BY <2>1, <2>2, <2>3 DEF Sound, LinkInv
<1> QED
  BY <1>2, <1>3 DEF RunConnect

\* The channel ends.
LEMMA InboundClosedStep ==
  ASSUME LinkInv, InboundClosed
  PROVE  Sound
<1>1. /\ mode = "select" /\ outbox = <<>> /\ sel # 0 /\ sock[sel].reader = "exited"
      /\ sock' = sock /\ conn' = conn /\ offline' = offline /\ outbox' = outbox
      /\ askedOn' = askedOn /\ ran' = ran /\ extra' = extra
  BY DEF InboundClosed, Idle
<1>2. /\ conn \in Conns /\ conn # 0 /\ SockInv(sock[conn]) /\ (~offline => sel = conn)
      /\ (offline => sock[conn].closed /\ Lonely)
  BY <1>1, SelectTypes
<1>3. Socks' /\ [Fifo!Next]_LinkView
  BY <1>1, NoClientStep DEF LinkInv
<1>4. CASE offline /\ sel' = 0 /\ UNCHANGED <<mode, pending>>
  <2>1. LinkTypes' /\ Asked' /\ SettlesFirst
    BY <1>1, <1>4 DEF LinkInv, LinkTypes, Asked, SettlesFirst
  <2>2. Phase'
    BY <1>1, <1>2, <1>4 DEF Phase, Lonely
  <2> QED
    BY <1>3, <2>1, <2>2 DEF Sound, LinkInv
<1>5. CASE ~offline /\ OnUnexpectedDrop
  <2>1. mode' = "backoff" /\ pending' = {} /\ sel' = sel
    BY <1>5 DEF OnUnexpectedDrop
  <2>2. LinkTypes' /\ Asked' /\ SettlesFirst
    BY <1>1, <2>1 DEF LinkInv, LinkTypes, Asked, SettlesFirst
  <2>3. sock[conn].wire = "cut"
    BY <1>1, <1>2, <1>5, SockBounds
  <2>4. Phase'
    BY <1>1, <1>2, <1>5, <2>1, <2>3 DEF Phase, Lonely
  <2> QED
    BY <1>3, <2>2, <2>4 DEF Sound, LinkInv
<1> QED
  BY <1>4, <1>5 DEF InboundClosed

\* The next attempt of the backoff.
LEMMA RedialStep ==
  ASSUME LinkInv, Redial
  PROVE  Sound
<1>1. /\ mode = "backoff" /\ outbox = <<>> /\ Dial /\ mode' = mode /\ sel' = sel /\ offline' = offline
  BY DEF Redial
<1>2. ~offline /\ pending = {} /\ conn # 0 /\ sock[conn].wire = "cut"
  BY <1>1 DEF LinkInv, Phase, Lonely
<1>3. /\ Socks' /\ [Fifo!Next]_LinkView /\ Asked' /\ SettlesFirst /\ Lonely'
      /\ conn' \in 0 .. MaxConn /\ conn' # 0 /\ sel \in 0 .. conn'
      /\ outbox' # <<>> /\ outbox' \in Seq(Array) /\ Len(outbox') <= 2
      /\ pending' \subseteq Ids /\ askedOn' \in [Ids -> 0 .. MaxConn] /\ ran' = ran /\ extra' = extra
  BY <1>1, <1>2, DialTypes
<1>4. LinkTypes'
  BY <1>1, <1>3 DEF LinkInv, LinkTypes
<1>5. Phase'
  BY <1>1, <1>2, <1>3 DEF Phase
<1> QED
  BY <1>3, <1>4, <1>5 DEF Sound, LinkInv

\* The user takes the charger offline.
LEMMA GoOfflineStep ==
  ASSUME LinkInv, GoOffline
  PROVE  Sound
<1>1. /\ mode = "select" /\ outbox = <<>> /\ ~offline /\ offline' = TRUE /\ pending' = {}
      /\ sock' = [sock EXCEPT ![conn] = Closed(@)]
      /\ mode' = mode /\ conn' = conn /\ sel' = sel /\ outbox' = outbox
      /\ askedOn' = askedOn /\ ran' = ran /\ extra' = extra
  BY DEF GoOffline, Idle
<1>2. conn \in Conns /\ conn # 0 /\ sel \in {0, conn} /\ sock \in [Conns -> SockType] /\ SockInv(sock[conn])
  BY <1>1, SelectTypes
<1>3. Follows(sock[conn], Closed(sock[conn])) /\ Closed(sock[conn]).closed
  BY <1>2, BreakStep
<1>4. Socks' /\ [Fifo!Next]_LinkView
  BY <1>1, <1>2, <1>3, ClientStep DEF LinkInv, LinkTypes
<1>5. sock'[conn].closed
  BY <1>1, <1>2, <1>3
<1>6. LinkTypes' /\ Asked' /\ SettlesFirst
  BY <1>1 DEF LinkInv, LinkTypes, Asked, SettlesFirst
<1>7. Phase'
  BY <1>1, <1>2, <1>5 DEF Phase, Lonely
<1> QED
  BY <1>4, <1>6, <1>7 DEF Sound, LinkInv

\* The user takes it online again.
LEMMA GoOnlineStep ==
  ASSUME LinkInv, GoOnline
  PROVE  Sound
<1>1. mode = "select" /\ outbox = <<>> /\ offline
  BY DEF GoOnline, Idle
<1>2. /\ conn \in Conns /\ conn # 0 /\ sock[conn].closed /\ sock[conn].wire = "cut" /\ pending = {}
  BY <1>1, SelectTypes DEF Lonely
<1>3. CASE Dial /\ offline' = FALSE /\ sel' = conn + 1 /\ UNCHANGED mode
  <2>1. /\ Socks' /\ [Fifo!Next]_LinkView /\ Asked' /\ SettlesFirst
        /\ conn' \in 0 .. MaxConn /\ conn' = conn + 1 /\ conn' # 0
        /\ outbox' # <<>> /\ outbox' \in Seq(Array) /\ Len(outbox') <= 2
        /\ pending' \subseteq Ids /\ askedOn' \in [Ids -> 0 .. MaxConn] /\ ran' = ran /\ extra' = extra
    BY <1>2, <1>3, DialTypes
  <2>2. sel' = conn' /\ sel' \in 0 .. conn' /\ mode' = "select" /\ offline' = FALSE
    BY <1>1, <1>3, <2>1, CapacityAssumption
  <2>3. LinkTypes'
    BY <2>1, <2>2 DEF LinkInv, LinkTypes
  <2>4. Phase'
    BY <2>1, <2>2 DEF Phase
  <2> QED
    BY <2>1, <2>3, <2>4 DEF Sound, LinkInv
<1>4. CASE /\ sel' = 0
           /\ UNCHANGED <<sock, mode, conn, offline, pending, outbox, askedOn, ran, extra>>
  <2>1. Socks' /\ [Fifo!Next]_LinkView
    BY <1>4, NoClientStep DEF LinkInv
  <2>2. LinkTypes' /\ Asked' /\ SettlesFirst
    BY <1>4 DEF LinkInv, LinkTypes, Asked, SettlesFirst
  <2>3. Phase'
    BY <1>1, <1>2, <1>4 DEF Phase, Lonely
  <2> QED
    BY <2>1, <2>2, <2>3 DEF Sound, LinkInv
<1> QED
  BY <1>3, <1>4 DEF GoOnline

\* Run returns.
LEMMA ShutdownStep ==
  ASSUME LinkInv, Shutdown
  PROVE  Sound
<1>1. /\ conn # 0 /\ mode' = "exited" /\ outbox' = <<>> /\ sel' = 0
      /\ sock' = [sock EXCEPT ![conn] = Closed(@)]
      /\ conn' = conn /\ offline' = offline /\ pending' = pending /\ askedOn' = askedOn /\ ran' = ran /\ extra' = extra
  BY DEF Shutdown
<1>2. conn \in Conns
  BY <1>1, CapacityAssumption DEF LinkInv, LinkTypes, Conns
<1>3. Follows(sock[conn], Closed(sock[conn]))
  BY <1>2, BreakStep DEF LinkInv, Socks
<1>4. Socks' /\ [Fifo!Next]_LinkView
  BY <1>1, <1>2, <1>3, ClientStep DEF LinkInv, LinkTypes
<1>5. LinkTypes'
  <2>1. outbox' \in Seq(Array) /\ Len(outbox') <= 2
    BY <1>1, Few
  <2> QED
    BY <1>1, <2>1 DEF LinkInv, LinkTypes
<1>6. Asked' /\ SettlesFirst /\ Phase'
  BY <1>1 DEF LinkInv, Asked, SettlesFirst, Phase
<1> QED
  BY <1>4, <1>5, <1>6 DEF Sound, LinkInv

\* Run takes a frame from the present connection.
LEMMA TakeTypes ==
  ASSUME LinkInv, Take
  PROVE  /\ Socks' /\ [Fifo!Next]_LinkView
         /\ conn \in Conns /\ conn # 0 /\ sel = conn /\ Head(sock[sel].inbound) \in Array
         /\ mode = "select" /\ outbox = <<>> /\ (offline => pending = {} /\ sock'[conn].closed)
         /\ mode' = mode /\ conn' = conn /\ sel' = sel /\ offline' = offline /\ extra' = extra
<1>1. /\ mode = "select" /\ outbox = <<>> /\ sel # 0 /\ sock[sel].inbound # <<>>
      /\ sock' = [sock EXCEPT ![sel].inbound = Tail(@)]
      /\ mode' = mode /\ conn' = conn /\ sel' = sel /\ offline' = offline /\ extra' = extra
  BY DEF Take, Idle
<1>2. /\ conn \in Conns /\ conn # 0 /\ sel = conn /\ sock \in [Conns -> SockType] /\ SockInv(sock[conn])
      /\ (offline => sock[conn].closed /\ pending = {})
  BY <1>1, SelectTypes DEF Lonely
<1>3. /\ Follows(sock[conn], [sock[conn] EXCEPT !.inbound = Tail(@)])
      /\ Head(sock[sel].inbound) \in Array
  BY <1>1, <1>2, TakeFrameStep
<1>4. sock' = [sock EXCEPT ![conn] = [sock[conn] EXCEPT !.inbound = Tail(@)]]
  BY <1>1, <1>2
<1>5. Socks' /\ [Fifo!Next]_LinkView /\ (sock[conn].closed => sock'[conn].closed)
  BY <1>1, <1>2, <1>3, <1>4, ClientStep DEF LinkInv, LinkTypes
<1> QED
  BY <1>1, <1>2, <1>3, <1>5
\* A reply that settles a CALL.
LEMMA TakeReplyStep ==
  ASSUME LinkInv, TakeReply
  PROVE  Sound
<1> DEFINE id == Taken.id
           waiting == pending \ {id}
<1>1. /\ ~offline /\ id \in pending /\ ran' = [ran EXCEPT ![id] = @ + 1]
      /\ AskNothing(waiting, <<>>) \/ Ask(conn, waiting, <<>>)
  BY DEF TakeReply, Settles, Unsettled
<1>2. /\ Socks' /\ [Fifo!Next]_LinkView
      /\ conn \in Conns /\ conn # 0 /\ sel = conn /\ mode = "select" /\ outbox = <<>>
      /\ mode' = mode /\ conn' = conn /\ sel' = sel /\ offline' = offline /\ extra' = extra
  BY TakeTypes DEF TakeReply
<1> HIDE DEF id
<1>3. waiting \in SUBSET Ids /\ id \in Ids /\ askedOn[id] = conn /\ ran[id] = 0
  BY <1>1 DEF LinkInv, LinkTypes, Asked
<1>4. ran' \in [Ids -> Nat] /\ \A i \in Ids : ran'[i] = IF i = id THEN ran[i] + 1 ELSE ran[i]
  BY <1>1, <1>3 DEF LinkInv, LinkTypes
<1>5. SettlesFirst
  BY <1>2, <1>3, <1>4 DEF SettlesFirst
<1>6. CASE AskNothing(waiting, <<>>)
  <2>1. pending' = waiting /\ outbox' = <<>> /\ askedOn' = askedOn
    BY <1>6 DEF AskNothing
  <2> HIDE DEF waiting
  <2>2. LinkTypes'
    BY <1>2, <1>3, <1>4, <2>1, Few DEF LinkInv, LinkTypes
  <2>3. Asked'
    BY <1>2, <1>3, <1>4, <2>1 DEF LinkInv, Asked, waiting
  <2>4. Phase'
    BY <1>1, <1>2, <2>1 DEF Phase
  <2> QED
    BY <1>2, <1>5, <2>2, <2>3, <2>4 DEF Sound, LinkInv
<1>7. CASE Ask(conn, waiting, <<>>)
  <2>1. <<>> \in Seq(Array) /\ Len(<<>>) <= 1
    BY Few
  <2>2. PICK i \in Ids :
           /\ askedOn[i] = 0 /\ ran[i] = 0
           /\ pending' = waiting \cup {i} /\ pending' \subseteq Ids
           /\ outbox' = Append(<<>>, CallFrame(i)) /\ outbox' \in Seq(Array) /\ Len(outbox') <= 2
           /\ askedOn' \in [Ids -> 0 .. MaxConn]
           /\ \A j \in Ids : askedOn'[j] = IF j = i THEN conn ELSE askedOn[j]
    BY <1>2, <1>3, <1>7, <2>1, AskStep
  <2>3. LinkTypes'
    BY <1>2, <1>4, <2>2 DEF LinkInv, LinkTypes
  <2>4. i # id
    BY <1>2, <1>3, <2>2
  <2>5. Asked'
    <3>1. ASSUME NEW j \in Ids
          PROVE  (j \in pending' => askedOn'[j] = conn /\ ran'[j] = 0) /\ (askedOn'[j] = 0 => ran'[j] = 0)
      BY <1>2, <1>3, <1>4, <2>2, <2>4 DEF LinkInv, Asked
    <3> QED
      BY <1>2, <3>1 DEF Asked
  <2>6. Phase'
    BY <1>1, <1>2, <2>2 DEF Phase
  <2> QED
    BY <1>2, <1>5, <2>3, <2>5, <2>6 DEF Sound, LinkInv
<1> QED
  BY <1>1, <1>6, <1>7

\* A CALL of the CMS.
LEMMA TakeCallStep ==
  ASSUME LinkInv, TakeCall
  PROVE  Sound
<1> DEFINE reply == ReplyTo(Taken)
           before == <<reply>>
<1>1. /\ ~offline /\ Taken.type = "CALL" /\ ran' = ran
      /\ AskNothing(pending, before) \/ Ask(conn, pending, before)
  BY DEF TakeCall
<1>2. /\ Socks' /\ [Fifo!Next]_LinkView
      /\ conn \in Conns /\ conn # 0 /\ sel = conn /\ mode = "select" /\ Head(sock[sel].inbound) \in Array
      /\ mode' = mode /\ conn' = conn /\ sel' = sel /\ offline' = offline /\ extra' = extra
  BY TakeTypes DEF TakeCall
<1>3. reply \in Array
  BY <1>1, <1>2, ReplyType DEF Taken
<1> HIDE DEF reply
<1>4. before \in Seq(Array) /\ Len(before) = 1
  BY <1>3, Few
<1> HIDE DEF before
<1>5. SettlesFirst
  BY <1>1 DEF SettlesFirst
<1>6. CASE AskNothing(pending, before)
  <2>1. pending' = pending /\ outbox' = before /\ askedOn' = askedOn
    BY <1>6 DEF AskNothing
  <2>2. LinkTypes'
    <3>1. outbox' \in Seq(Array) /\ Len(outbox') <= 2
      BY <1>4, <2>1
    <3> QED
      BY <1>1, <1>2, <2>1, <3>1 DEF LinkInv, LinkTypes
  <2>3. Asked'
    BY <1>1, <1>2, <2>1 DEF LinkInv, Asked
  <2>4. Phase'
    BY <1>1, <1>2 DEF Phase
  <2> QED
    BY <1>2, <1>5, <2>2, <2>3, <2>4 DEF Sound, LinkInv
<1>7. CASE Ask(conn, pending, before)
  <2>1. pending \in SUBSET Ids /\ Len(before) <= 1
    BY <1>4 DEF LinkInv, LinkTypes
  <2>2. PICK i \in Ids :
           /\ askedOn[i] = 0 /\ ran[i] = 0
           /\ pending' = pending \cup {i} /\ pending' \subseteq Ids
           /\ outbox' = Append(before, CallFrame(i)) /\ outbox' \in Seq(Array) /\ Len(outbox') <= 2
           /\ askedOn' \in [Ids -> 0 .. MaxConn]
           /\ \A j \in Ids : askedOn'[j] = IF j = i THEN conn ELSE askedOn[j]
    BY <1>2, <1>4, <1>7, <2>1, AskStep
  <2>3. LinkTypes'
    BY <1>1, <1>2, <2>2 DEF LinkInv, LinkTypes
  <2>4. Asked'
    BY <1>1, <1>2, <2>2 DEF LinkInv, Asked
  <2>5. Phase'
    BY <1>1, <1>2 DEF Phase
  <2> QED
    BY <1>2, <1>5, <2>3, <2>4, <2>5 DEF Sound, LinkInv
<1> QED
  BY <1>1, <1>6, <1>7

\* A frame that is dropped.
LEMMA TakeNothingStep ==
  ASSUME LinkInv, TakeNothing
  PROVE  Sound
<1>1. pending' = pending /\ outbox' = <<>> /\ askedOn' = askedOn /\ ran' = ran
  BY DEF TakeNothing, AskNothing
<1>2. /\ Socks' /\ [Fifo!Next]_LinkView
      /\ conn \in Conns /\ conn # 0 /\ sel = conn /\ mode = "select" /\ outbox = <<>>
      /\ (offline => pending = {} /\ sock'[conn].closed)
      /\ mode' = mode /\ conn' = conn /\ sel' = sel /\ offline' = offline /\ extra' = extra
  BY TakeTypes DEF TakeNothing
<1>3. LinkTypes' /\ Asked' /\ SettlesFirst
  BY <1>1, <1>2 DEF LinkInv, LinkTypes, Asked, SettlesFirst
<1>4. Phase'
  BY <1>1, <1>2 DEF Phase, Lonely
<1> QED
  BY <1>2, <1>3, <1>4 DEF Sound, LinkInv

-----------------------------------------------------------------------------
(* The theorems                                                            *)

\* The invariant holds initially, and so does the abstract link's Init.
LEMMA LinkInit ==
  ASSUME Init
  PROVE  LinkInv /\ Fifo!Init
<1>1. /\ NewSock.wire = "none" /\ ~NewSock.closed /\ NewSock.reader = "none"
      /\ NewSock.toCms = <<>> /\ NewSock.reply = <<>> /\ NewSock.toCharger = <<>>
      /\ NewSock.hand = <<>> /\ NewSock.inbound = <<>> /\ NewSock \in SockType
  BY Few DEF NewSock, SockType
<1>2. SockInv(NewSock)
  <2>1. Len(<<>>) = 0 /\ 0 <= 1 /\ 0 <= InCap /\ 0 <= WireCap
    BY Few, CapacityAssumption
  <2> QED
    BY <1>1, <2>1 DEF SockInv
<1>3. Socks
  BY <1>1, <1>2 DEF Init, Socks
<1>4. LinkTypes
  <2>1. outbox \in Seq(Array) /\ Len(outbox) <= 2
    BY Few DEF Init
  <2>2. 0 \in 0 .. MaxConn /\ 0 \in 0 .. 0 /\ 0 \in 0 .. MaxExtra /\ 0 \in Nat
    BY CapacityAssumption, BoundsAssumption
  <2> QED
    BY <2>1, <2>2 DEF Init, LinkTypes
<1>5. Asked /\ Phase
  BY DEF Init, Asked, Phase, Lonely
<1>6. Current = NewSock
  BY DEF Init, Current
<1>7. Fifo!Init
  BY <1>1, <1>6, Few DEF Fifo!Init
<1> QED
  BY <1>3, <1>4, <1>5, <1>7 DEF LinkInv

\* Every step keeps it, settles no CALL twice, and is a step of the abstract
\* link or of nobody.
LEMMA LinkSound ==
  ASSUME LinkInv, [Next]_vars
  PROVE  Sound
<1>1. CASE UNCHANGED vars
  <2>1. /\ sock' = sock /\ mode' = mode /\ conn' = conn /\ sel' = sel /\ offline' = offline /\ pending' = pending
        /\ outbox' = outbox /\ askedOn' = askedOn /\ ran' = ran /\ extra' = extra
    BY <1>1 DEF vars, actor
  <2>2. Socks' /\ [Fifo!Next]_LinkView
    BY <2>1, NoClientStep DEF LinkInv
  <2>3. LinkTypes' /\ Asked' /\ Phase' /\ SettlesFirst
    BY <2>1 DEF LinkInv, LinkTypes, Asked, Phase, Lonely, SettlesFirst
  <2> QED
    BY <2>2, <2>3 DEF Sound, LinkInv
<1>2. CASE RunConnect \/ SendCall \/ SendReturns \/ SendReturnsError
  BY <1>2, RunConnectStep, SendCallStep, SendReturnsStep, SendErrorStep
<1>3. CASE InboundClosed \/ Redial \/ GoOffline \/ GoOnline \/ Shutdown
  BY <1>3, InboundClosedStep, RedialStep, GoOfflineStep, GoOnlineStep, ShutdownStep
<1>4. CASE TakeReply \/ TakeCall \/ TakeNothing
  BY <1>4, TakeReplyStep, TakeCallStep, TakeNothingStep
<1>5. ASSUME NEW c \in Conns,
             \/ (ReadFrame(c) \/ Deliver(c) \/ ReadFails(c) \/ Abandon(c) \/ Cut(c)) /\ UNCHANGED <<actor, extra>>
             \/ CmsReads(c) \/ CmsWrites(c) \/ CmsSends(c)
      PROVE  Sound
  BY <1>5, ReadLoopSteps, CmsSteps
<1> QED
  BY <1>1, <1>2, <1>3, <1>4, <1>5 DEF Next

\* The invariant holds throughout.
LEMMA LinkInvariant == Spec => []LinkInv
<1>1. Init => LinkInv
  BY LinkInit
<1>2. LinkInv /\ [Next]_vars => LinkInv'
  BY LinkSound DEF Sound
<1> QED
  BY <1>1, <1>2, PTL DEF Spec

\* Every variable keeps its type and every channel its capacity, whatever the
\* CMS sends and however connections break.
THEOREM LinkTypeCorrect == Spec => []TypeOK
<1>1. ASSUME LinkInv, NEW c \in Conns
      PROVE  LET s == sock[c]
             IN  /\ s.wire \in {"none", "up", "cut"} /\ s.closed \in BOOLEAN
                 /\ s.reader \in {"none", "reading", "exited"}
                 /\ Len(s.hand) <= 1 /\ (s.hand # <<>> => s.reader = "reading")
                 /\ Len(s.inbound) <= InCap
                 /\ Len(s.toCms) <= WireCap /\ Len(s.toCharger) <= WireCap
  BY <1>1, SockTypes, SockBounds DEF LinkInv, Socks
<1>2. LinkInv => TypeOK
  BY <1>1 DEF LinkInv, LinkTypes, TypeOK
<1> QED
  BY <1>2, LinkInvariant, PTL

\* The callback of a CALL runs at most once, and only for a reply that came
\* over the connection the CALL was sent on (handleInbound, onUnexpectedDrop).
THEOREM SettlesOnce == Spec => SettledOnce
<1>1. LinkInv /\ [Next]_vars => [\A i \in Ids : ran'[i] # ran[i] => ran[i] = 0 /\ askedOn[i] = sel]_vars
  BY LinkSound DEF Sound, SettlesFirst
<1> QED
  BY <1>1, LinkInvariant, PTL DEF Spec, SettledOnce

\* The frames between the CMS and the actor are the abstract FIFO link: in
\* order, each once, and none is lost before the link breaks.
THEOREM LinkIsFifo == Spec => Fifo!Safety
<1>1. Init => Fifo!Init
  BY LinkInit
<1>2. LinkInv /\ [Next]_vars => [Fifo!Next]_LinkView
  BY LinkSound DEF Sound
<1>3. Fifo!Safety <=> Fifo!Init /\ [][Fifo!Next]_LinkView
  BY PTL DEF Fifo!Safety, LinkView
<1> QED
  BY <1>1, <1>2, <1>3, LinkInvariant, PTL DEF Spec
=============================================================================
