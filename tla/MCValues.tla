------------------------------ MODULE MCValues ------------------------------
(***************************************************************************)
(* Instances of Logger, JsonPayload, Scale and TokenAmount for TLC: one    *)
(* call of one of them.  Logger and JsonPayload walk over graphs of two    *)
(* objects below the root, of any shape and shared or cyclic in any way;   *)
(* the stack of 4 frames is one more than a path that enters no object     *)
(* twice needs.  Bytes of 4 bits make every mode of a compact integer and  *)
(* every length prefix of its last mode fall within TLC's integers.        *)
(***************************************************************************)
EXTENDS Logger, JsonPayload, Scale, TokenAmount

CONSTANTS root, a, b

MCObj == {a, b}
MCNames == <<"port", "accessToken">>
MCWords == [port |-> [full |-> "port", words |-> {"port"}],
            accessToken |-> [full |-> "accesstoken", words |-> {"access", "token"}]]
MCLevels == {<<Absent, "verbose">>, <<"warn", Absent>>}
MCPolicies == {{"token"}, {"accesstoken"}, {}}

Record(x, y) == [port |-> x, accessToken |-> y]
MCFields == {Record(a, Absent), Record(a, b), Record(a, a), Record(b, a)}
MCBindings == {Record(b, Absent), Record("string", b)}

Every(kind) ==
  [kind : {kind}, fields : [{"port", "accessToken"} -> {Absent, "string", a, b}]]
Atom(kind) == [kind |-> kind, fields |-> Record(Absent, Absent)]
MCHeaps ==
  {a :> x @@ b :> y :
     x \in Every("record") \cup Every("array") \cup Every("instance"),
     y \in Every("record") \cup Every("array") \cup Every("instance")
             \cup {Atom("date"), Atom("bigint")}}

\* Every small number, and the neighbours of every power of two.
MCIntegral == (-2 .. 300) \cup {2 ^ k + d : k \in 9 .. 27, d \in -1 .. 1} \cup {2 ^ 28 - 1}
MCContexts == {[i \in 1 .. n |-> i % 16] : n \in {0, 1, 3, 4, 21, 63, 64, 70}}
MCWords64 == {-1, 0, 1, 15, 16, 4095, 4096, 5000}

Strings(lengths) == UNION {[1 .. n -> {0, 1, 9}] : n \in lengths}
MCTyped ==
  [whole : Strings(1 .. 4), frac : Strings(0 .. 3)] \cup [whole : Strings(5 .. 7), frac : {<< >>}]
MCDecimals == {-1, 0, 1, 2, 256}
MCBalances == {-1234567, -100, 0} \cup 1 .. 120 \cup {999, 1000, 99999, 100000, 1234500}

-----------------------------------------------------------------------------
\* A line is logged, a payload truncated, a number encoded or an amount typed.
callVars == <<logVars, jsonVars, coded, field>>
CallInit == LogInit /\ JsonInit /\ ScaleInit /\ AmountInit

NoWalk == phase = "idle" /\ logger.base = NoFields /\ policy = {} /\ verdict = "none"

Logs ==
  /\ verdict = "none" /\ coded = NotCoded /\ field = Untouched
  /\ LogNext /\ UNCHANGED <<byteBudget, accumulated, visiting, verdict, coded, field>>
Truncates ==
  /\ phase = "idle" /\ logger.base = NoFields /\ policy = {}
  /\ coded = NotCoded /\ field = Untouched
  /\ JsonNext /\ UNCHANGED <<policy, logger, phase, stack, seen, out, coded, field>>
Encodes == NoWalk /\ field = Untouched /\ ScaleNext /\ UNCHANGED <<logVars, jsonVars, field>>
Types == NoWalk /\ coded = NotCoded /\ AmountNext /\ UNCHANGED <<logVars, jsonVars, coded>>

CallSpec == CallInit /\ [][Logs \/ Truncates \/ Encodes \/ Types]_callVars
=============================================================================
