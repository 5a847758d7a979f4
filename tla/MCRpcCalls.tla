----------------------------- MODULE MCRpcCalls -----------------------------
(* Instances of RpcCalls for TLC. *)
EXTENDS RpcCalls

Calls(s) == [i \in DOMAIN s |-> [form |-> s[i][1], method |-> s[i][2]]]

Case(s, emits, values, answers, brks, new, cancels) ==
  [calls |-> Calls(s), emits |-> emits, values |-> values, answers |-> answers,
   breaks |-> brks, makes |-> new, cancels |-> cancels]

MCCases ==
  {Case(<<<<"stream", "checked">>, <<"call", "rx">>>>, {"data", "last"}, 2, 1, 0, {"connecting"}, TRUE),
   Case(<<<<"stream", "rx">>, <<"stream", "static">>>>, Emission, 2, 0, 0, {"connecting"}, FALSE),
   Case(<<<<"stream", "rx">>, <<"call", "static">>, <<"call", "checked">>>>, {"last"}, 1, 0, 0, {"connecting"}, FALSE),
   Case(<<<<"stream", "rx">>, <<"call", "rx">>>>, {"data", "last"}, 2, 1, 1, {"connecting", "refused"}, FALSE),
   Case(<<<<"notify", "rx">>, <<"call", "checked">>, <<"call", "static">>>>, {}, 0, 0, 2, {"connecting", "refused"}, FALSE),
   Case(<<<<"stream", "static">>, <<"call", "rx">>, <<"call", "static">>>>, {"last"}, 1, 0, 0, {"connecting"}, TRUE),
   Case(<<<<"stream", "rx">>, <<"stream", "rx">>, <<"call", "static">>>>, {"last"}, 1, 0, 0, {"connecting"}, TRUE),
   Case(<<<<"call", "rx">>>>, {}, 0, 0, 2, Outcome, FALSE)}

MCMakes == {{"connecting"}, {"connecting", "refused"}, Outcome}
===========================================================================
