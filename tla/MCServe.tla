------------------------------ MODULE MCServe ------------------------------
(***************************************************************************)
(* Small instances of Serve for TLC.                                       *)
(***************************************************************************)
EXTENDS Serve

Store(api, admin, payout, both, origins) ==
    [api |-> api, admin |-> admin, payout |-> payout, both |-> both,
     origins |-> origins]
Auth(api, admin, payout, both) ==
    [api |-> api, admin |-> admin, payout |-> payout, both |-> both]

AllSet == [n1 |-> "t1", n2 |-> "t2", n3 |-> "t3"]
WithoutN3 == [n1 |-> "t1", n2 |-> "t2", n3 |-> Missing]

\* A has every mix of overrides, B none.
Mixed ==
    {[auth |-> Auth("n1", admin, payout, both),
      stores |-> [A |-> Store(ownApi, ownAdmin, ownPayout, ownBoth, {"o1"}),
                  B |-> Store("n1", Unset, Unset, Unset, {})],
      env |-> env] :
        admin \in {Unset, "n2"}, payout \in {Unset, "n2", "n3"}, both \in {"yes", "no"},
        ownApi \in {Unset, "n2"}, ownAdmin \in {Unset, "n1", "n3"},
        ownPayout \in {Unset, "n1", "n2", "n3"}, ownBoth \in {Unset, "yes", "no"},
        env \in {AllSet, WithoutN3}}

Plain ==
    [auth |-> Auth("n1", Unset, Unset, "no"),
     stores |-> [A |-> Store(Unset, Unset, Unset, Unset, {})],
     env |-> AllSet]

\* Two starters race on an old schema or none; a server is up on a schema that is
\* behind; and every mix of tokens meets a schema that is up to date.
MCStarts ==
    [config : {Plain}, version : {0, 4, 7}, role : {[p1 |-> "boot", p2 |-> "migrate"]}]
    \cup [config : {Plain}, version : {3}, role : {[p1 |-> "boot", p2 |-> "plain"]}]
    \cup [config : Mixed, version : {8}, role : {[p1 |-> "boot", p2 |-> "plain"]}]
============================================================================
