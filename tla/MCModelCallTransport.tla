------------------------- MODULE MCModelCallTransport -------------------------
(* ModelCallTransport for TLC: two synchronous calls and an asynchronous one.   *)
EXTENDS ModelCallTransport

CONSTANTS c1, c2, a1

MCApi == [c \in Calls |-> IF c = c1 THEN "openai" ELSE IF c = c2 THEN "bedrock" ELSE "anthropic"]

Full == [stream |-> FALSE, served |-> FITS, id |-> FITS, header |-> FITS, stop |-> FITS,
         addressed |-> FITS, region |-> FITS]

Stream  == [Full EXCEPT !.stream = TRUE]
Misfit  == [Full EXCEPT !.served = NONE, !.id = LONG, !.header = NONE, !.addressed = LONG]
NoName  == [Full EXCEPT !.header = EMPTY]
Faraway == [Full EXCEPT !.region = LONG]

MCResponses == [c \in Calls |-> IF c = c1 THEN {Misfit, Full}
                                ELSE IF c = c2 THEN {Faraway, Stream} ELSE {NoName, Stream}]
================================================================================
