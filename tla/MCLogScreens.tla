---------------------------- MODULE MCLogScreens ----------------------------
(***************************************************************************)
(* Four logs of two launches: an old one that expires, an error with a     *)
(* fingerprint and a tag of two words, and the two halves of a network     *)
(* call that carry the same time, one with a quote in its tag (7", say).   *)
(***************************************************************************)
EXTENDS LogScreens

LogDef == 1..4
UploadedDef == <<1, 2, 3>>

Plain == [level |-> "info", tags |-> {}, launch |-> "s1", print |-> <<>>,
          message |-> <<"hello">>, call |-> Nil, phase |-> "", failed |-> FALSE, at |-> 1]

FactDef ==
  <<[Plain EXCEPT !.level = "error", !.print = <<"E:", "boom">>, !.tags = {<<"auth">>}],
    [Plain EXCEPT !.at = 8, !.level = "error", !.print = <<"E:", "boom">>, !.tags = {<<"sign", "up">>},
       !.call = "c2", !.phase = "error", !.failed = TRUE],
    [Plain EXCEPT !.at = 7, !.tags = {<<"7\"">>}, !.call = "c1", !.phase = "request", !.launch = "s2"],
    [Plain EXCEPT !.at = 7, !.call = "c1", !.phase = "response", !.launch = "s2"]>>

WordsDef ==
  {"hello", "boom", "E:", "7\"", "-x", "auth", "sign", "up", "ann", "lee", "1h", "network",
   "error", "info", "eror"}
OddDef == {"E:", "7\""}
TornDef == {"7\""}

\* One tag has the one loose quote of a query here, and no backslash comes before another
\* quote: however it is put together it ends in an "unclosed quote".
GarbledDef(query) == Nil

StartedAtDef == [s \in {"s1", "s2"} |-> IF s = "s1" THEN 1 ELSE Nil]
PeopleDef == {<<"ann", "lee">>}
SpanDef == [s \in {"1h"} |-> 2]
RangesDef == <<[span |-> 4, bucket |-> 2], [span |-> 8, bucket |-> 4], [span |-> 16, bucket |-> 8]>>

\* Everything, the text "-x" in quotes, a level nobody has, user:"ann lee".
TypedDef ==
  {<<>>, <<Token(TRUE, FALSE, Nil, <<"-x">>)>>,
   <<Token(FALSE, FALSE, "level", <<"eror">>)>>,
   <<Token(FALSE, FALSE, "user", <<"ann", "lee">>)>>}

\* The screen, a launch's tab, and a bookmark of a tab that call has not.
AddressesDef ==
  {Address(Nil, "", Nil, ""), Address("s2", "", Nil, ""),
   Address(Nil, "", "c2", "payload")}
=============================================================================
