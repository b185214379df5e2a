-------------------------- MODULE MCNodeInventory --------------------------
(* Encryption configurations for NodeInventory: one that is well formed,   *)
(* with two elements at every level, and each way to replace one node of   *)
(* it by a value of another type.                                          *)
EXTENDS NodeInventory

Text == <<"text">>
Map(f) == <<"map", f>>
List(s) == <<"list", s>>

GoodKey == Map([name |-> Text, secret |-> Text])
GoodProvider == Map([aescbc |-> Map([keys |-> List(<<GoodKey, GoodKey>>)]),
                     secretbox |-> Map([keys |-> List(<<GoodKey>>)])])
Identity == Map([identity |-> Map([k \in {} |-> Text])])
GoodResource == Map([providers |-> List(<<Identity, GoodProvider>>)])
PlainResource == Map([providers |-> List(<<Map([aesgcm |-> Map([keys |-> List(<<GoodKey>>)])])>>)])
Good == Map([resources |-> List(<<GoodResource, PlainResource>>), kind |-> Text])

Other1(n, V(_)) ==
    {Other} \cup UNION {{<<n[1], [n[2] EXCEPT ![k] = v]>> : v \in V(n[2][k])} : k \in DOMAIN n[2]}
OtherKey(n) == {Other, Map([name |-> Text])}
OtherKeys(n) == IF n[1] = "list" THEN Other1(n, OtherKey) ELSE {}
OtherObject(n) == Other1(n, OtherKeys)
OtherProvider(n) == Other1(n, OtherObject)
OtherProviders(n) == Other1(n, OtherProvider)
OtherResource(n) == Other1(n, OtherProviders)
OtherResources(n) == IF n[1] = "list" THEN Other1(n, OtherResource) ELSE {}
MCConfig == {Good} \cup (Other1(Good, OtherResources) \ {Other})
=============================================================================
