------------------------ MODULE MCCepConfiguration ------------------------
\* Instances of CepConfiguration for TLC.  first and second define the event
\* type a differently; second declares a variable (v) that s2 mentions, and
\* reversed is second with its statements the other way round;
\* unknown has a statement on an event type nobody declares; path has a
\* jsonpath that does not compile; borrowing uses a without declaring it.
EXTENDS CepConfiguration

CONSTANTS first, second, unknown, path, borrowing, reversed, a1, a2, b1, v, s1, s2, s3

SomeNames == {"a", "b", "nowhere"}
NameTable == [e \in {a1, a2, b1} |-> IF e = b1 THEN "b" ELSE "a"]
InTable == [c \in Config |-> CASE c \in {second, reversed} -> {a2} [] c = borrowing -> {} [] OTHER -> {a1}]
OutTable == [c \in Config |-> IF c = unknown THEN {} ELSE {b1}]
StatementTable ==
  [c \in Config |-> CASE c = second -> <<v, s2>> [] c = reversed -> <<s2, v>>
                      [] c = unknown -> <<v, s3>> [] OTHER -> <<s1>>]
UseTable ==
  [s \in Statement |-> CASE s = v -> {} [] s = s3 -> {"nowhere"} [] OTHER -> {"a", "b"}]
NeedTable == [s \in Statement |-> IF s = s2 THEN {v} ELSE {}]
=============================================================================
