------------------------------- MODULE Frame -------------------------------
(***************************************************************************)
(* OCPP-J framing (internal/ocpp/j16/frame.go).  A frame is a JSON array;  *)
(* an array is a sequence of elements, and an element is its JSON type     *)
(* with its text.  What is not an array at all is the empty sequence: the  *)
(* code refuses both before it looks at an element.                        *)
(***************************************************************************)
EXTENDS Naturals, Sequences

JsonTypes == {"integer", "fraction", "string", "boolean", "null", "object", "array"}
Json == [t : JsonTypes, v : STRING]

Integer(text) == [t |-> "integer", v |-> text]
Text(text) == [t |-> "string", v |-> text]
Null == [t |-> "null", v |-> ""]
EmptyObject == [t |-> "object", v |-> "{}"]

\* A RawMessage of length zero, which no element of a received array is.
Absent == [t |-> "absent", v |-> ""]

Call(id, action, payload) ==
  [type |-> "CALL", id |-> id, action |-> action, payload |-> payload]
CallResult(id, payload) == [type |-> "CALLRESULT", id |-> id, payload |-> payload]
CallError(id, code, desc, details) ==
  [type |-> "CALLERROR", id |-> id, code |-> code, desc |-> desc, payload |-> details]
DecodeError == [type |-> "error"]

\* The frames the code may encode: an id and an action are any valid text.
Payloads == Json \cup {Absent}
Frames ==
  [type : {"CALL"}, id : STRING, action : STRING, payload : Payloads]
  \cup [type : {"CALLRESULT"}, id : STRING, payload : Payloads]
  \cup [type : {"CALLERROR"}, id : STRING, code : STRING, desc : STRING, payload : Payloads]

\* An empty payload goes out as an empty object.
Filled(payload) == IF payload = Absent THEN EmptyObject ELSE payload

Marshal(f) ==
  CASE f.type = "CALL" ->
         <<Integer("2"), Text(f.id), Text(f.action), Filled(f.payload)>>
    [] f.type = "CALLRESULT" ->
         <<Integer("3"), Text(f.id), Filled(f.payload)>>
    [] f.type = "CALLERROR" ->
         <<Integer("4"), Text(f.id), Text(f.code), Text(f.desc), Filled(f.payload)>>

\* json.Unmarshal into an int and into a string.  A null is no error: it
\* leaves the zero value of the target.
IsInt(e) == e.t \in {"integer", "null"}
IntOf(e) == IF e.t = "null" THEN "0" ELSE e.v
IsText(e) == e.t \in {"string", "null"}
TextOf(e) == IF e.t = "null" THEN "" ELSE e.v

\* Decode: the type and the id first, then what each type demands.
Typed(arr, type) == IntOf(arr[1]) = type
DecodeTyped(arr) ==
  LET id == TextOf(arr[2])
  IN  CASE Typed(arr, "2") /\ Len(arr) = 4 /\ IsText(arr[3]) ->
             Call(id, TextOf(arr[3]), arr[4])
        [] Typed(arr, "3") /\ Len(arr) = 3 ->
             CallResult(id, arr[3])
        [] Typed(arr, "4") /\ Len(arr) = 5 /\ IsText(arr[3]) /\ IsText(arr[4]) ->
             CallError(id, TextOf(arr[3]), TextOf(arr[4]), arr[5])
        [] OTHER -> DecodeError
Decode(arr) ==
  IF Len(arr) >= 3 /\ IsInt(arr[1]) /\ IsText(arr[2]) THEN DecodeTyped(arr) ELSE DecodeError
=============================================================================
