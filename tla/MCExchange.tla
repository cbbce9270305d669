----------------------------- MODULE MCExchange ------------------------------
(* An instance of Exchange for TLC.  The frames are canonical ones with one*)
(* thing changed: a header, or a place of the payload.                     *)
EXTENDS Exchange, TLC

Carrying(name, kind, n) == [name |-> name, kind |-> kind, n |-> n]

Canonical(t, fl, s) ==
  <<Int32(TypeHeader, t), Int32(FlagsHeader, fl), Int32(StreamHeader, s)>>

MCHeaders(i) ==
  LET odd == {Carrying(StreamHeader, "Int64", n) : n \in {i, i - 2 * Half, i + 2 * Half}}
             \cup {Carrying(StreamHeader, "Int16", i), Carrying(StreamHeader, "Byte", i),
                   String(StreamHeader)}
      other == IF i = 3 THEN 4 ELSE 3
  IN {Canonical(t, 0, s) : t \in -1 .. 7, s \in {0, i}}
     \cup {Canonical(t, fl, i) : t \in {0, 1}, fl \in {-3, -2, 1, 2, 3, 4}}
     \cup {Canonical(0, 0, other)}
     \cup {<<Int32(TypeHeader, t), h>> : t \in {0, 6}, h \in odd}
     \cup {<<Int32(TypeHeader, t), g, h>> : t \in {0, 6}, g \in odd,
             h \in {Int32(StreamHeader, i), Int32(StreamHeader, 0)}}
     \cup {<<Int32(TypeHeader, 0)>>, <<Int32(TypeHeader, 6)>>, <<Int32(StreamHeader, i)>>,
           <<String(TypeHeader), Int32(StreamHeader, i)>>,
           Canonical(0, 0, i) \o <<String(FlagsHeader)>>,
           Canonical(1, 0, i) \o <<String(ModelHeader)>>,
           Canonical(1, 0, i) \o <<Int32(ModelHeader, 0)>>}

(* A value of a type, and those that differ from it in one place.          *)
RECURSIVE Whole(_)
Whole(t) ==
  CASE t.type = "Struct" -> Object([f \in DOMAIN t.fields |-> Whole(t.fields[f].of)])
    [] t.type = "bool" -> Scalar("bool")
    [] t.type = "Vec<String>" -> Scalar("list")
    [] t.type = "Blob" -> Scalar("base64")
    [] OTHER -> Scalar("text")

RECURSIVE OneOff(_)
OneOff(t) ==
  {Scalar("null"), Scalar("text"), Scalar("bool")} \cup
  IF t.type # "Struct" THEN {}
  ELSE LET members == Whole(t).members
           known == DOMAIN members
       IN {Object([f \in known \ {g} |-> members[f]]) : g \in known}
          \cup {Object([f \in known \cup {"unknown"} |->
                          IF f \in known THEN members[f] ELSE Scalar("text")])}
          \cup UNION {{Object([members EXCEPT ![g] = v]) : v \in OneOff(t.fields[g].of)} :
                        g \in known}

MCPayloads(t) ==
  {NoPayload, Scalar("broken"), Whole(t)} \cup OneOff(t) \cup OneOff(ServiceErrorPayload)

(* The frames change in all these ways for the first call of a connection, *)
(* and for the calls after it in those that its stream id may matter to.   *)
MCFrames(o, i) ==
  LET t == IF Subscribes(o) THEN Event[o] ELSE Response[o]
      headers == IF i = 1 THEN MCHeaders(i)
                 ELSE {Canonical(0, 0, i), Canonical(1, 0, i), Canonical(0, 2, i), Canonical(6, 0, 0)}
  IN {[headers |-> h, payload |-> Whole(t)] : h \in headers}
     \cup {[headers |-> Canonical(ty, 0, i), payload |-> p] :
             ty \in {0, 1}, p \in IF i = 1 THEN MCPayloads(t) ELSE {}}

=============================================================================
