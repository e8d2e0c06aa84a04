------------------------------ MODULE DtbBlobs ------------------------------
(***************************************************************************)
(* The device trees the platform driver is checked on: every shape of four *)
(* or five nodes, and trees whose nodes name ways to switch off.           *)
(***************************************************************************)
EXTENDS Integers, Sequences

Node(parent, comp, sbi) == [parent |-> parent, comp |-> comp, sbi |-> sbi]

\* The shapes of trees of up to five nodes, in the order of the blob.
Ancestors(shape, n) ==
  LET up[i \in 0 .. n] == IF i = 0 THEN {} ELSE {i} \cup up[shape[i]] IN up[n]

Shapes(n) == {s \in [1 .. n -> 0 .. n - 1] :
                /\ s[1] = 0
                /\ \A i \in 2 .. n : s[i] \in Ancestors(SubSeq(s, 1, i - 1), i - 1)}

Plain(shape) == [i \in DOMAIN shape |-> Node(shape[i], <<>>, FALSE)]

TreeBlobs == {[nodes |-> Plain(s), zones |-> <<>>] : s \in Shapes(4) \cup Shapes(5)}

\* What three nodes below the root may say of power, and the thermal zones.
Comps == {<<>>, <<"psci">>, <<"gpio-poweroff">>, <<"gpio-restart">>,
          <<"syscon-reboot">>, <<"other", "psci">>, <<"gpio-restart", "gpio-poweroff">>}
Zones2 == <<[class |-> "cpu", trips |-> <<"hot", "what">>], [class |-> "disk", trips |-> <<>>]>>

PowerBlobs ==
  {[nodes |-> <<Node(0, <<>>, FALSE), Node(1, a, FALSE), Node(1, b, sbi), Node(3, c, FALSE)>>,
    zones |-> z] :
      a, b, c \in Comps, sbi \in BOOLEAN, z \in {<<>>, Zones2}}

Blobs == TreeBlobs \cup PowerBlobs
=============================================================================
