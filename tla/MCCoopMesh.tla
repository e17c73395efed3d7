------------------------------ MODULE MCCoopMesh ------------------------------
(* CoopMesh for TLC: who has which keys, who adds one, and who meets whom. *)
EXTENDS CoopMesh

CONSTANTS a, b, c, k1, k2, net

NoMainnet == [n \in Nodes |-> Unnamed]
NamedA == [n \in Nodes |-> IF n = a THEN net ELSE Unnamed]

(* Everybody has the key; a and c have it; only a; nobody. *)
HaveK1(some) == [n \in Nodes |-> IF n \in some THEN {k1} ELSE {}]
AllOrEndsHaveK1 == {HaveK1(Nodes), HaveK1({a, c})}
AHasK1 == {HaveK1({a})}
NoKeys == {HaveK1({})}

(* a and c meet b *)
StarContacts == {<<a, b>>, <<c, b>>}
PairContacts == {<<a, b>>}
NoLateKeys == {}
PairAddsK1 == {<<a, k1>>, <<b, k1>>}
NobodyLeaves == {}
ARemovesK1 == {<<a, k1>>}
BAddsBoth == {<<b, k1>>, <<b, k2>>}

(* b introduces c to a, as one that it follows and as one of the mainnet; a and c
   have the same keys and contacts, so b introduces a to c as well. *)
Introduced == IntroducedByFollowing(a, c, b)

MainnetIntroduces == IntroducedAsMainnet(a, c, b)
=============================================================================
