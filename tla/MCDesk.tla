------------------------------- MODULE MCDesk -------------------------------
EXTENDS Desk, TLC

CONSTANTS s1, s2

Blank == [op |-> "", token |-> TRUE, ws |-> "w", name |-> "", text |-> <<>>, cards |-> <<>>, key |-> ""]
For(op) == [Blank EXCEPT !.op = op]

Short == <<"a">>
Full  == <<"b", "b">>
Wide  == <<"e", "'", "e", "'">>   \* two characters of two bytes
Long  == <<"c", "c", "c">>
Other == <<"d", "d", "d">>
Third == <<"f", "f", "f">>
MCText == {Short, Full, Wide, Long, Other, Third}

(* An archive has room for two of the texts past the cap. *)
MCRoomy == {a \in SUBSET MCText : Cardinality(a) <= 2}

Two(f, t, g, u) == [x \in {f, g} |-> IF x = f THEN t ELSE u]

MCWorkspace == {"w", "v"}

MCCards ==
  {[For("user") EXCEPT !.text = t] : t \in {Long, Other, Third}} \cup
  {[For("memory") EXCEPT !.text = t] : t \in {Full, Wide}} \cup
  {[For("set") EXCEPT !.name = "red", !.cards = Two("user", Short, "instructions", Long)]}

MCPuts == {[For("pin set") EXCEPT !.name = n] : n \in {"red", "Bad!"}}
MCPins == MCPuts \cup {[For("pin") EXCEPT !.name = "red"]}   \* and the client's

MCFires ==
  {[For("fire") EXCEPT !.key = "k1"], [For("activate") EXCEPT !.key = "k2"], For("forget")}

MCSlots == {For("peek"), For("attach"), For("take"), [For("attach") EXCEPT !.ws = "v"]}

MCRequest == MCCards \cup MCPuts \cup MCFires \cup MCSlots
=============================================================================
