------------------------------ MODULE MCHttp1 ------------------------------
(***************************************************************************)
(* The clients of Http1Connection for TLC: what they send over one         *)
(* connection, and with which constants.                                   *)
(***************************************************************************)
EXTENDS Http1Properties

Line(version, target) == <<[kind |-> "line", version |-> version, target |-> target]>>
Blank == <<[kind |-> "blank"]>>
Body(units) == [i \in 1..units |-> [kind |-> "body", text |-> TRUE]]
Preface == <<[kind |-> "PRI"], [kind |-> "blank"], [kind |-> "SM"], [kind |-> "blank"]>>

Get(target) == Line("1.1", target) \o Blank
With(head, body) == Line("1.1", "route") \o <<head>> \o Blank \o body
Post(units) == With([NoHead EXCEPT !.length = units], Body(units))
Expecting(expect, units) ==
  With([NoHead EXCEPT !.length = units, !.expect = expect], Body(units))
Upgrade(upgrade, units) ==
  With([NoHead EXCEPT !.upgrade = upgrade,
                      !.length = IF units = 0 THEN Absent ELSE units], Body(units))
Closing == With([NoHead EXCEPT !.close = TRUE], <<>>)

\* Requests a client may go on behind.
Requests == {Get("route"), Get("nowhere"), Closing, Post(1), Post(3),
             Expecting("continue", 2), Upgrade("h2c", 0), Upgrade("h2c", 1)}

\* Requests that are refused, or framed otherwise than they say.
Refused == {Get("unknown"), Line("none", "route"), Line("1", "route") \o Blank,
            Line("1", "nowhere") \o Blank, Line("other", "route") \o Blank,
            Expecting("other", 1), Expecting("denied", 1), Upgrade("garbled", 0),
            With([NoHead EXCEPT !.malformed = TRUE], <<>>),
            With([NoHead EXCEPT !.length = 2], Body(1)),
            With([NoHead EXCEPT !.length = 1], Body(2)),
            With([NoHead EXCEPT !.length = 1], <<[kind |-> "body", text |-> FALSE]>>),
            Line("1.1", "route") \o Line("1.1", "route") \o Blank}

AllStreams ==
  {first \o second : first \in Requests, second \in Requests \cup Refused \cup {Preface}}
  \cup {first \o Get("route") : first \in Refused}
  \cup {Preface, Get("route") \o Closing \o Get("route")}

GetStreams == {Get("route")}
PostStreams == {Post(2)}
ContinueStreams == {Expecting("continue", 3)}
=============================================================================
