------------------------ MODULE SubscriptionFilters -------------------------
(***************************************************************************)
(* The filters authorize_subscribe works with: the List rule's, after its  *)
(* template is resolved, and the client's.                                 *)
(***************************************************************************)
EXTENDS Filters

\* The stored rules, as texts; the context never has the user's e-mail address.
RuleText ==
  [owner |-> <<Id("s"), Sym("="), Var("request.auth.id")>>,
   email |-> <<Id("s"), Sym("="), Var("request.auth.email")>>,
   typo  |-> <<Id("s"), Sym("="), Var("request.auth.name")>>]
RuleContext == ("request.auth.id" :> UserId) @@ ("request.auth.email" :> NullV) @@ ("request.auth.workspace" :> Str(<<3>>))

\* `?filter=`: nothing, a disjunction, or something with trailing input.
ClientText ==
  [none |-> <<>>,
   either |-> <<Id("n"), Sym(">="), Lit(IntV(2)), Sym("||"), Id("n"), Sym("<"), Lit(IntV(2))>>,
   broken |-> <<Id("n"), Sym("="), Lit(IntV(1)), Id("n")>>]

\* The client's filter: parsed unless it is blank.
client_filter(text) == IF ClientText[text] = <<>> THEN Ok(NoFilter, <<>>) ELSE parse_filter(ClientText[text])

\* The rule's filter: substituted, then parsed.
rule_filter(r) ==
  IF r = "allow" THEN Ok(NoFilter, <<>>)
  ELSE IF Substitutable(RuleText[r]) THEN parse_filter(substitute(RuleText[r], RuleContext)) ELSE Fail
=============================================================================
