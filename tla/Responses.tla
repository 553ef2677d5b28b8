------------------------------ MODULE Responses ------------------------------
(***************************************************************************)
(* From what an endpoint returns to what is written: the dict of headers   *)
(* it comes with, the converter that dict selects, the response objects,   *)
(* which write into the dict they are given (HTTP/1) or copy it (HTTP/2).  *)
(*                                                                         *)
(* Of a dict the model keeps what framing and conversion look at: the last *)
(* content type, the content length, and whether it says chunked.  A body  *)
(* has a number of characters and, in UTF-8, a number of bytes.            *)
(***************************************************************************)
EXTENDS Integers

NoLength == -1

Dict == [type : {"none", "json", "plain", "event"}, length : Nat \cup {NoLength},
         chunked : BOOLEAN]

NoDict == [type |-> "none", length |-> NoLength, chunked |-> FALSE]

Body == [chars : Nat, bytes : Nat]
NoBody == [chars |-> 0, bytes |-> 0]

(***************************************************************************)
(* What an endpoint does: it returns an HttpResponse or a                  *)
(* StreamingResponse with the headers it has for each call ("own"), or     *)
(* with a dict of the application ("shared"), or it raises.                *)
(***************************************************************************)
Endpoint == [result : {"response", "stream", "raise"}, dict : {"own", "shared"},
             type : {"none", "json", "event"}, media : {"event", "other"}, body : Body]

\* The answer of _dispatch to a path without an endpoint.
NotFound == [result |-> "response", dict |-> "own", type |-> "none", media |-> "other",
             body |-> [chars |-> 3, bytes |-> 3]]

\* Mutant: the default of the parameter headers is one dict for all responses.
DefaultDict(endpoint) == "shared"
\* HttpResponse.__init__ and StreamingResponse.__init__: the dict they keep.
DictOf(endpoint) == endpoint.dict

\* The headers for an event stream.
StreamDict(dict) == [dict EXCEPT !.type = "event", !.chunked = TRUE]

\* The dict once the endpoint has built its response.
BuiltDict(endpoint, dict) ==
  IF endpoint.result = "stream" /\ endpoint.media = "event" THEN StreamDict(dict) ELSE dict

\* Mutant: a content type is only found under a key in lower case.
ContentTypeExact(dict) == IF dict.type = "json" THEN dict.type ELSE "none"
\* The last content type, whatever the case of its key.
ContentType(dict) == dict.type

\* ResponseConverterStore.get_converter
Converter(version, dict) ==
  IF ContentType(dict) = "event"
  THEN IF version = "1.1" THEN "HTTP1Streaming" ELSE "None"
  ELSE CASE version = "1.1" -> "HTTP1" [] version = "2" -> "HTTP2" [] OTHER -> "None"

\* A converter reads what only one class of responses has.
Converts(version, dict, result) ==
  \/ Converter(version, dict) \in {"HTTP1", "HTTP2"} /\ result = "response"
  \/ Converter(version, dict) = "HTTP1Streaming" /\ result = "stream"

(***************************************************************************)
(* The headers of the converted response.  Http1Response counts characters *)
(* and writes into the dict; Http1StreamingResponse does so for its media  *)
(* type; Http2Response has a dict of its own.                              *)
(***************************************************************************)
PlainDict(dict, body) ==
  IF body = NoBody THEN [dict EXCEPT !.length = 0]
  ELSE [dict EXCEPT !.type = "plain", !.length = body.chars]

ConvertedDict(endpoint, dict) ==
  IF endpoint.result = "response" THEN PlainDict(dict, endpoint.body)
  ELSE IF endpoint.media = "event" THEN StreamDict(dict) ELSE dict

Http2Dict(dict, body) ==
  IF body = NoBody THEN dict ELSE [dict EXCEPT !.type = "plain", !.length = body.chars]

(***************************************************************************)
(* What goes over the wire: the headers, and the bytes behind them.  An    *)
(* HTTP/1 response without a body ends in a line of its own.  No writer    *)
(* knows the method of the request.                                        *)
(***************************************************************************)
Bytes(version, body) == IF version # "2" /\ body = NoBody THEN 2 ELSE body.bytes

Message(version, method, endpoint, dict) ==
  [version |-> version, method |-> method, endpoint |-> endpoint, dict |-> dict,
   bytes |-> IF endpoint.result = "stream" THEN 0 ELSE Bytes(version, endpoint.body)]

-----------------------------------------------------------------------------
(***************************************************************************)
(* The receiver of a message finds its end: a stream is chunked and has no *)
(* length, another body is as long as it says.  HTTP/2 needs no length.    *)
(***************************************************************************)
IsFramed(message) ==
  IF message.endpoint.result = "stream"
  THEN message.dict.chunked /\ message.dict.length = NoLength
  ELSE /\ message.method = "HEAD" => message.bytes = 0
       /\ ~message.dict.chunked
       /\ \/ message.dict.length = message.bytes
          \/ message.version = "2" /\ message.dict.length = NoLength
          \/ message.method = "HEAD"
=============================================================================
